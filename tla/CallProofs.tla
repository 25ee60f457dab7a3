----------------------------- MODULE CallProofs -----------------------------
(***************************************************************************)
(* Proofs about Call: what the caller of a remote procedure gets is what   *)
(* the server decided for it, for any calls, services, urls and bodies.    *)
(***************************************************************************)
EXTENDS Call, WireProofs

(***************************************************************************)
(* The inductive invariant speaks of one call at a time: a step of a call  *)
(* leaves the others as they are.                                          *)
(***************************************************************************)

Requests ==
    {NoRequest} \cup [url : Urls, body : Bodies, client : {"v1", "v2"}, server : {"v1", "v2"}]

Types ==
    /\ cpc \in [Calls -> {"idle", "made", "beginning", "waiting", "done"}]
    /\ req \in [Calls -> Requests]
    /\ ev_ \in [Calls -> BOOLEAN] /\ ev \in [Calls -> BOOLEAN] /\ set \in [Calls -> BOOLEAN]
    /\ op \in [Calls -> {"none", "pending", "replied", "timedout"}]
    /\ DOMAIN answer = Calls /\ DOMAIN handled = Calls
    /\ DOMAIN ran = Calls /\ DOMAIN result = Calls
    /\ aborted \in BOOLEAN

\* Nothing happens at the server or in the callback before BeginRequest, and
\* the callback owns the event until the operation has completed.  The event
\* is set only then.
Unsent(c) ==
    /\ cpc[c] \in {"idle", "made"} => op[c] = "none"
    /\ cpc[c] = "waiting" => op[c] # "none"
    /\ op[c] = "none" => ev_[c] /\ handled[c] = None
    /\ set[c] => op[c] \in {"replied", "timedout"}

\* A call that was made asks one library's server with one library's client.
Asked(c) ==
    cpc[c] # "idle" =>
        /\ req[c].url \in Urls /\ req[c].body \in Bodies
        /\ <<req[c].client, req[c].server>> \in Pairs

\* What the server decides, and how each library reports success.
Decided(c) ==
    handled[c] = None \/
        /\ handled[c].body \in Bodies \cup {<<>>}
        /\ StatusesInRange => handled[c].code \in 0 .. MaxStatusCode
        /\ handled[c].code = OK =>
              /\ ran[c] # NotFound
              /\ handled[c].message = IF req[c].server = "v1" THEN "OK" ELSE ""

\* The reply is the serialized decision.
Answered(c) ==
    op[c] = "replied" =>
        /\ handled[c] # None
        /\ answer[c].header = SerializeReplyHeader(handled[c])
        /\ answer[c].chunks \in Chunkings(handled[c].body)

\* The caller gets the reply, parsed, or the transport's error.
Ended(c) ==
    /\ cpc[c] # "done" => result[c] = None
    /\ cpc[c] = "done" =>
          \/ result[c] = TransportError
          \/ op[c] = "replied" /\ result[c] = IF req[c].client = "v1" THEN ParseV1(answer[c]) ELSE ParseV2(answer[c])

CallState(c) == Unsent(c) /\ Asked(c) /\ Decided(c) /\ Answered(c) /\ Ended(c)

CallInv == Types /\ ~aborted /\ \A c \in Calls : CallState(c)

(***************************************************************************)
(* The steps of the client and of the transport.                           *)
(***************************************************************************)

Same(d) ==
    /\ cpc'[d] = cpc[d] /\ req'[d] = req[d] /\ ev_'[d] = ev_[d] /\ set'[d] = set[d]
    /\ op'[d] = op[d] /\ answer'[d] = answer[d] /\ handled'[d] = handled[d]
    /\ ran'[d] = ran[d] /\ result'[d] = result[d]

LEMMA OneCall ==
    ASSUME CallInv, NEW c \in Calls,
           Types', ~aborted', CallState(c)', \A d \in Calls \ {c} : Same(d)
    PROVE  CallInv'
<1>1. ASSUME NEW d \in Calls \ {c} PROVE CallState(d)'
  <2>1. CallState(d) /\ Same(d)
    BY DEF CallInv
  <2>2. Unsent(d)' /\ Asked(d)' /\ Decided(d)'
    BY <2>1 DEF CallState, Same, Unsent, Asked, Decided
  <2>3. Answered(d)'
    BY <2>1 DEF CallState, Same, Answered
  <2>4. Ended(d)'
    BY <2>1, Zenon DEF CallState, Same, Ended, ParseV1, ParseV2
  <2> QED BY <2>2, <2>3, <2>4 DEF CallState
<1> QED BY <1>1 DEF CallInv

LEMMA NoRequestIsNew ==
    ASSUME NEW pair \in Pairs, NEW url \in Urls, NEW body \in Bodies
    PROVE  LET r == [url |-> url, body |-> body, client |-> pair[1], server |-> pair[2]]
           IN  r \in Requests /\ <<r.client, r.server>> \in Pairs
BY CallAssumption DEF Requests

LEMMA ClientMakes ==
    ASSUME CallInv, NEW c \in Calls, MakeRequest(c)
    PROVE  CallInv'
<1>1. PICK url \in Urls, body \in Bodies, pair \in Pairs :
         /\ req' = [req EXCEPT ![c] =
                [url |-> url, body |-> body, client |-> pair[1], server |-> pair[2]]]
         /\ cpc' = [cpc EXCEPT ![c] = IF pair[1] = "v2" THEN "made" ELSE "beginning"]
  BY DEF MakeRequest
<1>2. cpc[c] = "idle" /\ UNCHANGED <<ev, ev_, set, op, answer, handled, ran, result, aborted>>
  BY DEF MakeRequest, transport, server
<1> DEFINE r == [url |-> url, body |-> body, client |-> pair[1], server |-> pair[2]]
<1>3. r \in Requests /\ <<r.client, r.server>> \in Pairs /\ r.url = url /\ r.body = body
  BY NoRequestIsNew
<1> HIDE DEF r
<1>4. Types'
  BY <1>1, <1>2, <1>3 DEF CallInv, Types, r
<1>5. \A d \in Calls \ {c} : Same(d)
  BY <1>1, <1>2 DEF CallInv, Types, Same
<1>6. CallState(c)'
  <2>1. /\ req'[c] = r /\ cpc'[c] \in {"made", "beginning"}
        /\ op[c] = "none" /\ ev_[c] /\ handled[c] = None /\ result[c] = None /\ ~set[c]
    BY <1>1, <1>2 DEF CallInv, Types, CallState, Unsent, Ended, r
  <2>2. Unsent(c)' /\ Asked(c)'
    BY <1>2, <1>3, <2>1 DEF Unsent, Asked
  <2>3. Decided(c)' /\ Answered(c)' /\ Ended(c)'
    BY <1>2, <2>1 DEF Decided, Answered, Ended
  <2> QED BY <2>2, <2>3 DEF CallState
<1> QED BY <1>2, <1>4, <1>5, <1>6, OneCall DEF CallInv

\* Until the request is sent the callback owns the event.
LEMMA ClientFetches ==
    ASSUME CallInv, NEW c \in Calls, GetEvent(c)
    PROVE  CallInv'
<1>1. /\ cpc[c] = "made" /\ cpc' = [cpc EXCEPT ![c] = "beginning"]
      /\ ev' = [ev EXCEPT ![c] = TRUE] /\ aborted' = (aborted \/ ~ev_[c])
      /\ UNCHANGED <<req, ev_, set, op, answer, handled, ran, result>>
  BY DEF GetEvent, Fetch, transport, server
<1>2. ~aborted'
  BY <1>1 DEF CallInv, CallState, Unsent
<1>3. Types'
  BY <1>1, <1>2 DEF CallInv, Types
<1>4. \A d \in Calls \ {c} : Same(d)
  BY <1>1 DEF CallInv, Types, Same
<1>5. CallState(c)'
  <2>1. cpc'[c] = "beginning"
    BY <1>1 DEF CallInv, Types
  <2> QED BY <1>1, <2>1 DEF CallInv, CallState, Unsent, Asked, Decided, Answered, Ended
<1> QED BY <1>2, <1>3, <1>4, <1>5, OneCall

LEMMA ClientBegins ==
    ASSUME CallInv, NEW c \in Calls, BeginRequestFails(c) \/ BeginRequestReturns(c)
    PROVE  CallInv'
<1>1. /\ cpc[c] = "beginning"
      /\ \/ /\ op[c] = "none" /\ cpc' = [cpc EXCEPT ![c] = "done"]
            /\ result' = [result EXCEPT ![c] = TransportError]
         \/ op[c] # "none" /\ cpc' = [cpc EXCEPT ![c] = "waiting"] /\ result' = result
      /\ UNCHANGED <<req, ev_, ev, set, op, answer, handled, ran, aborted>>
  BY DEF BeginRequestFails, BeginRequestReturns, transport, server
<1>2. Types' /\ ~aborted'
  BY <1>1 DEF CallInv, Types
<1>3. \A d \in Calls \ {c} : Same(d)
  BY <1>1 DEF CallInv, Types, Same
<1>4. CallState(c)'
  <2>1. \/ op[c] = "none" /\ cpc'[c] = "done" /\ result'[c] = TransportError
        \/ op[c] # "none" /\ cpc'[c] = "waiting" /\ result'[c] = result[c]
    BY <1>1 DEF CallInv, Types
  <2> QED BY <1>1, <2>1 DEF CallInv, CallState, Unsent, Asked, Decided, Answered, Ended
<1> QED BY <1>2, <1>3, <1>4, OneCall

LEMMA ClientEnds ==
    ASSUME CallInv, NEW c \in Calls, EndRequest(c)
    PROVE  CallInv'
<1> DEFINE parsed == IF req[c].client = "v1" THEN ParseV1(answer[c]) ELSE ParseV2(answer[c])
<1>1. /\ cpc[c] = "waiting" /\ set[c]
      /\ result' = [result EXCEPT ![c] = IF op[c] = "timedout" THEN TransportError ELSE parsed]
      /\ cpc' = [cpc EXCEPT ![c] = "done"]
      /\ UNCHANGED <<req, ev_, ev, set, op, answer, handled, ran, aborted>>
  BY DEF EndRequest, transport, server
<1>2. Types' /\ ~aborted'
  BY <1>1 DEF CallInv, Types
<1>3. \A d \in Calls \ {c} : Same(d)
  BY <1>1 DEF CallInv, Types, Same
<1>4. CallState(c)'
  <2>1. cpc'[c] = "done" /\ result'[c] = IF op[c] = "timedout" THEN TransportError ELSE parsed
    BY <1>1 DEF CallInv, Types
  <2>2. op[c] \in {"replied", "timedout"}
    BY <1>1 DEF CallInv, CallState, Unsent
  <2>3. Unsent(c)' /\ Asked(c)' /\ Decided(c)' /\ Answered(c)'
    BY <1>1, <2>1, <2>2 DEF CallInv, CallState, Unsent, Asked, Decided, Answered
  <2>4. result'[c] = TransportError \/ (op[c] = "replied" /\ result'[c] = parsed)
    BY <2>1, <2>2
  <2>5. parsed = IF req'[c].client = "v1" THEN ParseV1(answer'[c]) ELSE ParseV2(answer'[c])
    BY <1>1
  <2> HIDE DEF parsed
  <2>6. Ended(c)'
    BY <1>1, <2>1, <2>4, <2>5 DEF Ended, ParseV1, ParseV2
  <2> QED BY <2>3, <2>6 DEF CallState
<1> QED BY <1>2, <1>3, <1>4, OneCall

LEMMA TransportSends ==
    ASSUME CallInv, NEW c \in Calls, Send(c) \/ TimeOut(c)
    PROVE  CallInv'
<1>1. /\ \/ cpc[c] = "beginning" /\ op[c] = "none" /\ op' = [op EXCEPT ![c] = "pending"]
         \/ op[c] = "pending" /\ op' = [op EXCEPT ![c] = "timedout"]
      /\ UNCHANGED <<cpc, req, ev_, ev, set, answer, handled, ran, result, aborted>>
  BY DEF Send, TimeOut, client, server
<1>2. Types' /\ ~aborted'
  BY <1>1 DEF CallInv, Types
<1>3. \A d \in Calls \ {c} : Same(d)
  BY <1>1 DEF CallInv, Types, Same
<1>4. CallState(c)'
  <2>1. \/ cpc[c] = "beginning" /\ op[c] = "none" /\ op'[c] = "pending"
        \/ op[c] = "pending" /\ op'[c] = "timedout"
    BY <1>1 DEF CallInv, Types
  <2>2. CallState(c)
    BY DEF CallInv
  <2>3. Unsent(c)' /\ Asked(c)' /\ Decided(c)' /\ Answered(c)'
    BY <1>1, <2>1, <2>2 DEF CallState, Unsent, Asked, Decided, Answered
  <2>4. Ended(c)'
    BY <1>1, <2>1, <2>2 DEF CallState, Ended
  <2> QED BY <2>3, <2>4 DEF CallState
<1> QED BY <1>2, <1>3, <1>4, OneCall

LEMMA TransportInvokes ==
    ASSUME CallInv, NEW c \in Calls, Invoke(c)
    PROVE  CallInv'
<1>1. /\ op[c] \in {"replied", "timedout"}
      /\ set' = [set EXCEPT ![c] = TRUE] /\ ev_' = [ev_ EXCEPT ![c] = FALSE]
      /\ UNCHANGED <<cpc, req, ev, op, answer, handled, ran, result, aborted>>
  BY DEF Invoke, client, server
<1>2. Types' /\ ~aborted'
  BY <1>1 DEF CallInv, Types
<1>3. \A d \in Calls \ {c} : Same(d)
  BY <1>1 DEF CallInv, Types, Same
<1>4. CallState(c)'
  <2>1. CallState(c)
    BY DEF CallInv
  <2>2. Unsent(c)' /\ Asked(c)' /\ Decided(c)' /\ Answered(c)'
    BY <1>1, <2>1 DEF CallState, Unsent, Asked, Decided, Answered
  <2>3. Ended(c)'
    BY <1>1, <2>1, Zenon DEF CallState, Ended, ParseV1, ParseV2
  <2> QED BY <2>2, <2>3 DEF CallState
<1> QED BY <1>2, <1>3, <1>4, OneCall

\* Both libraries write the reply header alike.
LEMMA TransportDelivers ==
    ASSUME CallInv, NEW c \in Calls, Deliver(c)
    PROVE  CallInv'
<1>1. PICK chunks \in Chunkings(handled[c].body) :
         answer' = [answer EXCEPT ![c] =
             [header |-> IF req[c].server = "v1" THEN SerializeReplyHeader(handled[c])
                         ELSE serialize_reply_header(handled[c]),
              chunks |-> chunks]]
  BY DEF Deliver
<1>2. /\ op[c] = "pending" /\ handled[c] # None /\ op' = [op EXCEPT ![c] = "replied"]
      /\ UNCHANGED <<cpc, req, ev_, ev, set, handled, ran, result, aborted>>
  BY DEF Deliver, client, server
<1>3. Types' /\ ~aborted'
  BY <1>1, <1>2 DEF CallInv, Types
<1>4. \A d \in Calls \ {c} : Same(d)
  BY <1>1, <1>2 DEF CallInv, Types, Same
<1>5. CallState(c)'
  <2>1. CallState(c) /\ op'[c] = "replied" /\ c \in DOMAIN answer
    BY <1>2 DEF CallInv, Types
  <2>2. Unsent(c)' /\ Asked(c)' /\ Decided(c)'
    BY <1>2, <2>1 DEF CallState, Unsent, Asked, Decided
  <2>3. answer'[c].header = SerializeReplyHeader(handled[c]) /\ answer'[c].chunks = chunks
    <3>1. SerializeReplyHeader(handled[c]) = serialize_reply_header(handled[c])
      BY SameReplyHeader
    <3> QED BY <1>1, <2>1, <3>1
  <2>4. Answered(c)'
    BY <1>2, <2>1, <2>3 DEF Answered
  <2>5. Ended(c)'
    BY <1>2, <2>1 DEF CallState, Ended
  <2> QED BY <2>2, <2>4, <2>5 DEF CallState
<1> QED BY <1>3, <1>4, <1>5, OneCall DEF CallInv

(***************************************************************************)
(* The server.  It reads the url and the body the client wrote, and either *)
(* runs the method the url leads to or refuses the request.                *)
(***************************************************************************)

Target(c) ==
    IF req[c].server = "v1" THEN RouteV1(Services["v1"], req[c].url)
    ELSE RouteV2(Services["v2"], req[c].url)

Success(c) == Status(OK, IF req[c].server = "v1" THEN "OK" ELSE "")

Refusals == {INVALID_ARGUMENT, NOT_FOUND, UNIMPLEMENTED, UNKNOWN}

Malformed(url) == url = <<>> \/ Head(url) # "/"

LEMMA ServerDecides ==
    ASSUME CallInv, NEW c \in Calls, Serve(c)
    PROVE  \/ /\ \E code \in Refusals : Refuse(c, code)
              /\ \/ Target(c) = NotFound
                 \/ req[c].body \in Unparsable
                 \/ Malformed(req[c].url)
           \/ Target(c) # NotFound /\ RunMethod(c, Target(c), Success(c))
<1> DEFINE url == req[c].url
           body == req[c].body
           header == IF req[c].client = "v1" THEN SerializeRequestHeader(url) ELSE request_header(url)
<1>1. PICK chunks \in Chunkings(body) :
         IF req[c].server = "v1" THEN ServeV1(c, header, get_body(chunks))
         ELSE ServeV2(c, header, get_body(chunks))
  BY DEF Serve
<1>2. body \in Bodies /\ <<req[c].client, req[c].server>> \in Pairs
  <2>1. op[c] \in {"pending", "timedout"}
    BY DEF Serve
  <2> QED BY <2>1 DEF CallInv, Types, CallState, Unsent, Asked
<1>3. get_body(chunks) = body
  <2>1. body \in Seq(ToSet(body))
    BY <1>2, CallAssumption
  <2> HIDE DEF body
  <2> QED BY <2>1, BodyJoined
<1>4. /\ DeserializeRequestHeader(header) = url /\ parse_request_header(header) = url
      /\ IsEmpty(header) <=> url = <<>>
  <2> HIDE DEF url
  <2>1. /\ DeserializeRequestHeader(SerializeRequestHeader(url)) = url
        /\ parse_request_header(SerializeRequestHeader(url)) = url
        /\ IsEmpty(SerializeRequestHeader(url)) <=> url = <<>>
    BY RequestHeader, Zenon
  <2>2. /\ DeserializeRequestHeader(request_header(url)) = url
        /\ parse_request_header(request_header(url)) = url
        /\ IsEmpty(request_header(url)) <=> url = <<>>
    BY RequestHeader, Zenon
  <2> QED BY <2>1, <2>2
<1> HIDE DEF url, body, header
<1>5. CASE req[c].server = "v1"
  <2>1. ServeV1(c, header, body)
    BY <1>1, <1>3, <1>5
  <2>2. Target(c) = RouteV1(Services["v1"], url) /\ Success(c) = Status(OK, "OK")
    BY <1>5 DEF Target, Success, url
  <2>3. CASE url = <<>>
    BY <2>1, <2>3, <1>4 DEF ServeV1, Malformed, Refusals, url
  <2>4. CASE url # <<>> /\ Target(c) = NotFound
    BY <2>1, <2>2, <2>4, <1>4 DEF ServeV1, Refusals
  <2>5. CASE url # <<>> /\ Target(c) # NotFound /\ body \in Unparsable
    BY <2>1, <2>2, <2>5, <1>4 DEF ServeV1, Refusals, body
  <2>6. CASE url # <<>> /\ Target(c) # NotFound /\ body \notin Unparsable
    BY <2>1, <2>2, <2>6, <1>4 DEF ServeV1
  <2> QED BY <2>3, <2>4, <2>5, <2>6
<1>6. CASE req[c].server = "v2"
  <2>1. ServeV2(c, header, body)
    BY <1>1, <1>3, <1>6
  <2>2. Target(c) = RouteV2(Services["v2"], url) /\ Success(c) = Status(OK, "")
    BY <1>6 DEF Target, Success, url
  <2>3. CASE Malformed(url)
    BY <2>1, <2>3, <1>4 DEF ServeV2, Malformed, Refusals, url
  <2>4. CASE ~Malformed(url) /\ Target(c) = NotFound
    BY <2>1, <2>2, <2>4, <1>4 DEF ServeV2, Malformed, Refusals
  <2>5. CASE ~Malformed(url) /\ Target(c) # NotFound /\ body \in Unparsable
    BY <2>1, <2>2, <2>5, <1>4 DEF ServeV2, Malformed, Refusals, body
  <2>6. CASE ~Malformed(url) /\ Target(c) # NotFound /\ body \notin Unparsable
    BY <2>1, <2>2, <2>6, <1>4 DEF ServeV2, Malformed
  <2> QED BY <2>3, <2>4, <2>5, <2>6
<1> QED BY <1>2, <1>5, <1>6, CallAssumption

LEMMA ServerServes ==
    ASSUME CallInv, NEW c \in Calls, Serve(c)
    PROVE  CallInv'
<1>1. /\ op[c] \in {"pending", "timedout"} /\ handled[c] = None
      /\ UNCHANGED <<cpc, req, ev_, ev, set, op, answer, result, aborted>>
  BY DEF Serve, client, transport
<1>2. c \in DOMAIN handled /\ c \in DOMAIN ran /\ CallState(c)
  BY DEF CallInv, Types
<1>3. /\ DOMAIN handled' = Calls /\ DOMAIN ran' = Calls
      /\ \A d \in Calls \ {c} : handled'[d] = handled[d] /\ ran'[d] = ran[d]
      /\ Decided(c)'
  <2>1. CASE \E code \in Refusals : Refuse(c, code)
    <3>1. PICK code \in Refusals :
             handled' = [handled EXCEPT ![c] = Result(Status(code, "refused"), <<>>)] /\ ran' = ran
      BY <2>1 DEF Refuse
    <3>2. handled'[c].code = code /\ handled'[c].body = <<>> /\ code \in 0 .. MaxStatusCode /\ code # OK
      BY <3>1, <1>2 DEF Result, Status, Refusals, INVALID_ARGUMENT, NOT_FOUND, UNIMPLEMENTED, UNKNOWN, MaxStatusCode, OK
    <3> QED BY <3>1, <3>2 DEF CallInv, Types, Decided
  <2>2. CASE Target(c) # NotFound /\ RunMethod(c, Target(c), Success(c))
    <3>1. ran' = [ran EXCEPT ![c] = Target(c)]
      BY <2>2 DEF RunMethod
    <3>2. CASE \E st \in Failures : handled' = [handled EXCEPT ![c] = Result(st, <<>>)]
      <4>1. PICK st \in Failures : handled' = [handled EXCEPT ![c] = Result(st, <<>>)]
        BY <3>2
      <4>2. /\ handled'[c].code = st.code /\ handled'[c].body = <<>> /\ st.code # OK
            /\ StatusesInRange => st.code \in 0 .. MaxStatusCode
        BY <4>1, <1>2, CallAssumption DEF Result, StatusesInRange, MaxStatusCode
      <4>3. Decided(c)'
        BY <4>2 DEF Decided, StatusesInRange
      <4> QED BY <3>1, <4>1, <4>3 DEF CallInv, Types
    <3>3. CASE \E body \in Bodies : handled' = [handled EXCEPT ![c] = Result(Success(c), body)]
      <4>1. PICK body \in Bodies : handled' = [handled EXCEPT ![c] = Result(Success(c), body)]
        BY <3>3
      <4>2. /\ handled'[c].code = OK /\ handled'[c].body = body
            /\ handled'[c].message = IF req[c].server = "v1" THEN "OK" ELSE ""
        BY <4>1, <1>2 DEF Result, Success, Status
      <4>3. ran'[c] # NotFound /\ OK \in 0 .. MaxStatusCode
        BY <2>2, <3>1, <1>2 DEF OK, MaxStatusCode
      <4>4. Decided(c)'
        BY <1>1, <4>2, <4>3 DEF Decided
      <4> QED BY <3>1, <4>1, <4>4 DEF CallInv, Types
    <3> QED BY <2>2, <3>2, <3>3 DEF RunMethod
  <2> QED BY <2>1, <2>2, ServerDecides
<1>4. Types' /\ ~aborted'
  BY <1>1, <1>3 DEF CallInv, Types
<1>5. \A d \in Calls \ {c} : Same(d)
  BY <1>1, <1>3 DEF Same
<1>6. CallState(c)'
  <2>1. Unsent(c)' /\ Asked(c)' /\ Answered(c)'
    BY <1>1, <1>2 DEF CallState, Unsent, Asked, Answered
  <2>2. Ended(c)'
    BY <1>1, <1>2 DEF CallState, Ended
  <2> QED BY <1>3, <2>1, <2>2 DEF CallState
<1> QED BY <1>4, <1>5, <1>6, OneCall

(***************************************************************************)
(* The invariant of every call.                                            *)
(***************************************************************************)

LEMMA CallInit == Init => CallInv
<1> SUFFICES ASSUME Init PROVE CallInv
  OBVIOUS
<1>1. Types /\ ~aborted
  BY DEF Init, Types, Requests
<1>2. ASSUME NEW c \in Calls PROVE CallState(c)
  BY DEF Init, CallState, Unsent, Asked, Decided, Answered, Ended
<1> QED BY <1>1, <1>2 DEF CallInv

LEMMA CallStutters == CallInv /\ UNCHANGED vars => CallInv'
<1> SUFFICES ASSUME CallInv, UNCHANGED vars PROVE CallInv'
  OBVIOUS
<1>1. UNCHANGED <<cpc, req, ev_, ev, set, op, answer, handled, ran, result, aborted>>
  BY DEF vars, client, transport, server
<1>2. Types' /\ ~aborted'
  BY <1>1 DEF CallInv, Types
<1>3. ASSUME NEW c \in Calls PROVE CallState(c)'
  <2>1. CallState(c)
    BY DEF CallInv
  <2>2. Unsent(c)' /\ Asked(c)' /\ Decided(c)' /\ Answered(c)'
    BY <1>1, <2>1 DEF CallState, Unsent, Asked, Decided, Answered
  <2>3. Ended(c)'
    BY <1>1, <2>1, Zenon DEF CallState, Ended, ParseV1, ParseV2
  <2> QED BY <2>2, <2>3 DEF CallState
<1> QED BY <1>2, <1>3 DEF CallInv

LEMMA CallStep == CallInv /\ [Next]_vars => CallInv'
<1> SUFFICES ASSUME CallInv, [Next]_vars PROVE CallInv'
  OBVIOUS
<1>1. ASSUME NEW c \in Calls, MakeRequest(c) PROVE CallInv'
  BY <1>1, ClientMakes
<1>2. ASSUME NEW c \in Calls, ClientStep(c) PROVE CallInv'
  BY <1>2, ClientFetches, ClientBegins, ClientEnds DEF ClientStep
<1>3. ASSUME NEW c \in Calls, Serve(c) PROVE CallInv'
  BY <1>3, ServerServes
<1>4. ASSUME NEW c \in Calls, TransportStep(c) PROVE CallInv'
  BY <1>4, TransportSends, TransportDelivers, TransportInvokes DEF TransportStep
<1>5. CASE UNCHANGED vars
  BY <1>5, CallStutters
<1>6. CASE Finished
  BY <1>6, CallStutters DEF Finished
<1> QED BY <1>1, <1>2, <1>3, <1>4, <1>5, <1>6 DEF Next

LEMMA CallInvariant == Spec => []CallInv
BY CallInit, CallStep, PTL DEF Spec

\* The v2 operation never takes the event from a callback that has given it
\* up, however early the transport invokes it.
THEOREM NoAssertionFailsCorrect == Spec => []NoAssertionFails
<1>1. CallInv => NoAssertionFails
  BY DEF CallInv, NoAssertionFails
<1> QED BY <1>1, CallInvariant, PTL

(***************************************************************************)
(* What the parsed reply says of the decision.                             *)
(***************************************************************************)

LEMMA ResultParts ==
    ASSUME NEW code, NEW message, NEW body
    PROVE  /\ Status(code, message).code = code
           /\ Status(code, message).message = message
           /\ Result(Status(code, message), body).code = code
           /\ Result(Status(code, message), body).message = message
           /\ Result(Status(code, message), body).body = body
BY DEF Status, Result

LEMMA NoneParts ==
    None.body = <<>> /\ None.code \in -1 .. MaxStatusCode
BY DEF None, MaxStatusCode

\* A client of either library hands the decision h on: a failure as it is, a
\* success with its body or, if that is not a message, as a failure.
HandedOn(h, r) ==
    \/ h.code # OK /\ r.code = h.code /\ r.message = h.message /\ r.body = <<>>
    \/ h.code = OK /\ h.body \in Unparsable /\ r.code = UNKNOWN /\ r.body = <<>>
    \/ h.code = OK /\ h.body \notin Unparsable /\ r.code = OK /\ r.body = h.body

LEMMA ReadByV1 ==
    ASSUME NEW h, NEW msg, msg.header = SerializeReplyHeader(h), get_body(msg.chunks) = h.body
    PROVE  \/ /\ h.code = OK /\ h.message = ""
              /\ ParseV1(msg).code = UNKNOWN /\ ParseV1(msg).body = <<>>
           \/ HandedOn(h, ParseV1(msg))
<1>1. /\ DeserializeReplyHeader(msg.header) = Status(h.code, h.message)
      /\ IsEmpty(msg.header) <=> h.code = OK /\ h.message = ""
  BY ReplyHeader
<1>2. Status(h.code, h.message).code = h.code
  BY ResultParts
<1>3. CASE IsEmpty(msg.header)
  <2>1. \E t : ParseV1(msg) = Result(Status(UNKNOWN, t), <<>>)
    BY <1>3, Zenon DEF ParseV1
  <2>2. ParseV1(msg).code = UNKNOWN /\ ParseV1(msg).body = <<>>
    BY <2>1, ResultParts
  <2> QED BY <2>2, <1>1, <1>3
<1>4. CASE h.code # OK
  <2>1. ~IsEmpty(msg.header)
    BY <1>1, <1>4
  <2>2. ParseV1(msg) = Result(Status(h.code, h.message), <<>>)
    BY <2>1, <1>1, <1>2, <1>4, Zenon DEF ParseV1
  <2>3. HandedOn(h, ParseV1(msg))
    BY <2>2, <1>4, ResultParts DEF HandedOn
  <2> QED BY <2>3
<1>5. CASE ~IsEmpty(msg.header) /\ h.code = OK /\ h.body \in Unparsable
  <2>1. \E t : ParseV1(msg) = Result(Status(UNKNOWN, t), <<>>)
    BY <1>1, <1>2, <1>5, Zenon DEF ParseV1
  <2>3. HandedOn(h, ParseV1(msg))
    BY <2>1, <1>5, ResultParts DEF HandedOn
  <2> QED BY <2>3
<1>6. CASE ~IsEmpty(msg.header) /\ h.code = OK /\ h.body \notin Unparsable
  <2>1. ParseV1(msg) = Result(Status(OK, "OK"), h.body)
    BY <1>1, <1>2, <1>6, Zenon DEF ParseV1
  <2>3. HandedOn(h, ParseV1(msg))
    BY <2>1, <1>6, ResultParts DEF HandedOn
  <2> QED BY <2>3
<1> QED BY <1>3, <1>4, <1>5, <1>6

LEMMA ReadByV2 ==
    ASSUME NEW h, NEW msg, msg.header = SerializeReplyHeader(h), get_body(msg.chunks) = h.body,
           h.code \in 0 .. MaxStatusCode
    PROVE  HandedOn(h, ParseV2(msg))
<1> DEFINE message == IF h.code = OK THEN "" ELSE h.message
<1>1. parse_reply_header(msg.header) = Status(h.code, message)
  BY StatusKept
<1>2. h.code # OK => message = h.message
  OBVIOUS
<1> HIDE DEF message
<1>3. Status(h.code, message).code = h.code
  BY ResultParts
<1>4. CASE h.code # OK
  <2>1. ParseV2(msg) = Result(Status(h.code, message), <<>>)
    BY <1>1, <1>3, <1>4, Zenon DEF ParseV2
  <2>2. ParseV2(msg).code = h.code /\ ParseV2(msg).message = message /\ ParseV2(msg).body = <<>>
    BY <2>1, ResultParts
  <2> QED BY <2>2, <1>2, <1>4, Zenon DEF HandedOn
<1>5. CASE h.code = OK /\ h.body \in Unparsable
  <2>1. \E t : ParseV2(msg) = Result(Status(UNKNOWN, t), <<>>)
    BY <1>1, <1>3, <1>5, Zenon DEF ParseV2
  <2> QED BY <2>1, <1>5, ResultParts DEF HandedOn
<1>6. CASE h.code = OK /\ h.body \notin Unparsable
  <2>1. ParseV2(msg) = Result(Status(h.code, message), h.body)
    BY <1>1, <1>3, <1>6, Zenon DEF ParseV2
  <2> QED BY <2>1, <1>6, ResultParts DEF HandedOn
<1> QED BY <1>4, <1>5, <1>6

LEMMA BodyTyped ==
    ASSUME NEW body \in Bodies \cup {<<>>}
    PROVE  body \in Seq(ToSet(body))
BY CallAssumption, EmptySeq

\* A call that got a reply was decided by the server, and hands that decision
\* on: in any pair of libraries but one.
LEMMA ReplyRead ==
    ASSUME CallInv, StatusesInRange, NEW c \in Calls,
           cpc[c] = "done", result[c] # TransportError
    PROVE  /\ handled[c].code \in 0 .. MaxStatusCode /\ handled[c].body \in Bodies \cup {<<>>}
           /\ handled[c].code = OK => ran[c] # NotFound
           /\ \/ HandedOn(handled[c], result[c])
              \/ /\ req[c].client = "v1" /\ req[c].server = "v2"
                 /\ result[c].code = UNKNOWN /\ result[c].body = <<>>
<1> DEFINE h == handled[c]
           msg == answer[c]
<1>1. CallState(c)
  BY DEF CallInv
<1>2. op[c] = "replied" /\ result[c] = IF req[c].client = "v1" THEN ParseV1(msg) ELSE ParseV2(msg)
  BY <1>1 DEF CallState, Ended
<1>3. h # None /\ msg.header = SerializeReplyHeader(h) /\ msg.chunks \in Chunkings(h.body)
  BY <1>1, <1>2 DEF CallState, Answered
<1>4. /\ h.code \in 0 .. MaxStatusCode /\ h.body \in Bodies \cup {<<>>}
      /\ h.code = OK => ran[c] # NotFound
      /\ h.code = OK => h.message = IF req[c].server = "v1" THEN "OK" ELSE ""
  BY <1>1, <1>3 DEF CallState, Decided
<1>5. req[c].client \in {"v1", "v2"} /\ req[c].server \in {"v1", "v2"}
  BY <1>1, CallAssumption DEF CallState, Asked
<1>6. get_body(msg.chunks) = h.body
  <2> HIDE DEF h, msg
  <2> QED BY <1>3, <1>4, BodyTyped, BodyJoined
<1>7. CASE req[c].client = "v1"
  <2>1. result[c] = ParseV1(msg)
    BY <1>2, <1>7, Zenon
  <2>2. \/ h.code = OK /\ h.message = "" /\ ParseV1(msg).code = UNKNOWN /\ ParseV1(msg).body = <<>>
        \/ HandedOn(h, ParseV1(msg))
    BY <1>3, <1>6, ReadByV1, Zenon
  <2>3. h.code = OK /\ h.message = "" => req[c].server = "v2"
    BY <1>4, <1>5
  <2> QED BY <2>1, <2>2, <2>3, <1>4, <1>7, Zenon
<1>8. CASE req[c].client = "v2"
  <2>1. result[c] = ParseV2(msg)
    BY <1>2, <1>8
  <2>2. HandedOn(h, ParseV2(msg))
    BY <1>3, <1>4, <1>6, ReadByV2, Zenon
  <2> QED BY <2>1, <2>2, <1>4, Zenon
<1> QED BY <1>5, <1>7, <1>8

\* Every status and body a call can end with is one of the protocol's.
THEOREM CallTypeCorrect ==
    ASSUME StatusesInRange
    PROVE  Spec => []TypeOK
<1>1. ASSUME CallInv PROVE TypeOK
  <2>1. ASSUME NEW c \in Calls
        PROVE  handled[c].code \in -1 .. MaxStatusCode /\ handled[c].body \in Bodies \cup {<<>>}
    <3>1. Decided(c)
      BY <1>1 DEF CallInv, CallState
    <3>2. CASE handled[c] = None
      BY <3>2, NoneParts
    <3>3. CASE handled[c] # None
      <4>1. handled[c].code \in 0 .. MaxStatusCode /\ handled[c].body \in Bodies \cup {<<>>}
        BY <3>1, <3>3 DEF Decided
      <4> QED BY <4>1 DEF MaxStatusCode
    <3> QED BY <3>2, <3>3
  <2>2. ASSUME NEW c \in Calls
        PROVE  /\ result[c].code \in (-1 .. MaxStatusCode) \cup {FABRIC_TRANSPORT_ERROR}
               /\ result[c].body \in Bodies \cup {<<>>}
    <3>1. CASE result[c] = TransportError
      BY <3>1 DEF TransportError, Result, Status, FABRIC_TRANSPORT_ERROR
    <3>2. CASE cpc[c] # "done"
      <4>1. result[c] = None
        BY <1>1, <3>2 DEF CallInv, CallState, Ended
      <4> QED BY <4>1, NoneParts
    <3>3. CASE cpc[c] = "done" /\ result[c] # TransportError
      <4>1. \/ HandedOn(handled[c], result[c])
            \/ result[c].code = UNKNOWN /\ result[c].body = <<>>
        BY <1>1, <3>3, ReplyRead
      <4>2. handled[c].code \in 0 .. MaxStatusCode /\ handled[c].body \in Bodies \cup {<<>>}
        BY <1>1, <3>3, ReplyRead
      <4> QED BY <4>1, <4>2 DEF HandedOn, OK, UNKNOWN, MaxStatusCode
    <3> QED BY <3>1, <3>2, <3>3
  <2> QED BY <1>1, <2>1, <2>2 DEF CallInv, Types, Requests, TypeOK
<1> QED BY <1>1, CallInvariant, PTL

\* What the caller gets is what the server decided for this very call, in
\* every combination of the libraries but a v1 client of a v2 server (the run
\* mixed_libraries shows how that one fails).
THEOREM ResultFaithfulCorrect ==
    ASSUME StatusesInRange, <<"v1", "v2">> \notin Pairs
    PROVE  Spec => []ResultFaithful
<1>1. ASSUME CallInv PROVE ResultFaithful
  <2> SUFFICES ASSUME NEW c \in Calls, cpc[c] = "done", result[c] # TransportError
               PROVE  IF handled[c].code # OK
                      THEN result[c].code = handled[c].code /\ result[c].message = handled[c].message
                      ELSE IF handled[c].body \in Unparsable THEN result[c].code = UNKNOWN
                      ELSE result[c].code = OK /\ result[c].body = handled[c].body /\ ran[c] # NotFound
    BY DEF ResultFaithful
  <2>1. ~(req[c].client = "v1" /\ req[c].server = "v2")
    BY <1>1 DEF CallInv, CallState, Asked
  <2>2. HandedOn(handled[c], result[c]) /\ (handled[c].code = OK => ran[c] # NotFound)
    BY <1>1, <2>1, ReplyRead
  <2> QED BY <2>2 DEF HandedOn
<1> QED BY <1>1, CallInvariant, PTL

(***************************************************************************)
(* Routing: the url of a method leads to that method.                      *)
(***************************************************************************)

LEMMA TargetFound ==
    ASSUME NEW c, req[c].server \in {"v1", "v2"}, NamesTellApart(Services["v2"]),
           NEW i \in DOMAIN Services[req[c].server],
           NEW m \in Services[req[c].server][i].methods,
           Url(Services[req[c].server][i], m) = req[c].url
    PROVE  /\ Target(c) = Found(Services[req[c].server][i], m)
           /\ Target(c) # NotFound
           /\ ~Malformed(req[c].url)
<1> DEFINE svcs == Services[req[c].server]
           s == svcs[i]
           url == req[c].url
<1>1. DOMAIN svcs \subseteq Nat /\ \A k \in DOMAIN svcs : svcs[k].path \in Seq(STRING) \ {<<>>}
  BY ServiceAssumption
<1>2. Target(c) = Found(s, m)
  <2>1. CASE req[c].server = "v1"
    <3>1. RouteV1(svcs, Url(s, m)) = Found(s, m)
      <4>1. Registered(svcs, STRING)
        BY <1>1 DEF Registered
      <4>2. i \in DOMAIN svcs /\ m \in svcs[i].methods
        OBVIOUS
      <4> HIDE DEF svcs
      <4> QED BY <4>1, <4>2, RouteV1Reaches
    <3> QED BY <2>1, <3>1 DEF Target
  <2>2. CASE req[c].server = "v2"
    <3>1. RouteV2(svcs, Url(s, m)) = Found(s, m)
      BY <2>2, RouteV2Reaches, Zenon
    <3> QED BY <2>2, <3>1 DEF Target
  <2> QED BY <2>1, <2>2
<1>3. Found(s, m) # NotFound
  <2>1. s.path # <<>> /\ Found(s, m).svc = s.path /\ NotFound.svc = <<>>
    BY <1>1 DEF Found, NotFound
  <2> QED BY <2>1
<1>4. ~Malformed(url)
  <2>1. s.path \in Seq(STRING)
    BY <1>1
  <2> HIDE DEF s
  <2>2. UrlParts(s, m) /\ Url(s, m) \in Seq(STRING \cup {"/", m})
    BY <2>1, UrlShape, Zenon
  <2>3. Len(Url(s, m)) # 0 /\ Url(s, m)[1] = "/"
    BY <2>2 DEF UrlParts
  <2>4. url = Url(s, m)
    BY DEF s
  <2> HIDE DEF url
  <2>5. url # <<>> /\ Head(url) = url[1]
    BY <2>2, <2>3, <2>4
  <2> QED BY <2>3, <2>4, <2>5 DEF Malformed
<1> QED BY <1>2, <1>3, <1>4

Reached(c) ==
    handled[c] # None /\ req[c].body \notin Unparsable =>
        LET svcs == Services[req[c].server]
        IN  \A i \in DOMAIN svcs : \A m \in svcs[i].methods :
                Url(svcs[i], m) = req[c].url => ran[c] = Found(svcs[i], m)

ReachInv == CallInv /\ \A c \in Calls : Reached(c)

LEMMA ServerReaches ==
    ASSUME CallInv, NamesTellApart(Services["v2"]), NEW c \in Calls, Serve(c)
    PROVE  Reached(c)'
<1>1. req' = req /\ cpc[c] # "idle" /\ Asked(c)
  BY DEF Serve, client, CallInv, Types, CallState, Unsent
<1>2. req[c].server \in {"v1", "v2"}
  BY <1>1, CallAssumption DEF Asked
<1> DEFINE svcs == Services[req[c].server]
<1> SUFFICES ASSUME req[c].body \notin Unparsable,
                    NEW i \in DOMAIN svcs, NEW m \in svcs[i].methods,
                    Url(svcs[i], m) = req[c].url
             PROVE  ran'[c] = Found(svcs[i], m)
  BY <1>1 DEF Reached
<1>3. /\ Target(c) = Found(svcs[i], m)
      /\ Target(c) # NotFound
      /\ ~Malformed(req[c].url)
  BY <1>2, TargetFound
<1>4. RunMethod(c, Target(c), Success(c))
  BY <1>3, ServerDecides
<1>5. ran' = [ran EXCEPT ![c] = Target(c)] /\ c \in DOMAIN ran
  BY <1>4 DEF RunMethod, CallInv, Types
<1> QED BY <1>3, <1>5

LEMMA ReachStep ==
    ASSUME ReachInv, NamesTellApart(Services["v2"]), [Next]_vars
    PROVE  ReachInv'
<1>1. CallInv'
  BY CallStep DEF ReachInv
<1>2. ASSUME NEW d \in Calls, req'[d] = req[d], handled'[d] = handled[d], ran'[d] = ran[d]
      PROVE  Reached(d)'
  BY <1>2 DEF ReachInv, Reached
<1>3. ASSUME NEW c \in Calls, NEW d \in Calls, MakeRequest(c) PROVE Reached(d)'
  <2>1. UNCHANGED <<handled, ran>> /\ cpc[c] = "idle"
    BY <1>3 DEF MakeRequest, server
  <2>2. CASE d = c
    <3>1. handled[c] = None
      BY <2>1 DEF ReachInv, CallInv, CallState, Unsent
    <3> QED BY <2>1, <2>2, <3>1 DEF Reached
  <2>3. CASE d # c
    <3>1. req'[d] = req[d]
      BY <1>3, <2>3 DEF MakeRequest, ReachInv, CallInv, Types
    <3> QED BY <2>1, <3>1, <1>2
  <2> QED BY <2>2, <2>3
<1>4. ASSUME NEW c \in Calls, NEW d \in Calls, Serve(c) PROVE Reached(d)'
  <2>1. CASE d = c
    BY <1>4, <2>1, ServerReaches DEF ReachInv
  <2>2. CASE d # c
    <3>1. req' = req /\ handled'[d] = handled[d] /\ ran'[d] = ran[d]
      BY <1>4, <2>2, ServerDecides DEF Serve, client, ReachInv, CallInv, Types, Refuse, RunMethod
    <3> QED BY <3>1, <1>2
  <2> QED BY <2>1, <2>2
<1>5. ASSUME NEW c \in Calls, NEW d \in Calls, ClientStep(c) \/ TransportStep(c)
      PROVE  Reached(d)'
  <2>1. UNCHANGED <<req, handled, ran>>
    BY <1>5 DEF ClientStep, TransportStep, GetEvent, BeginRequestFails, BeginRequestReturns,
       EndRequest, Send, Deliver, TimeOut, Invoke, client, server
  <2> QED BY <2>1, <1>2
<1>6. ASSUME NEW d \in Calls, UNCHANGED vars PROVE Reached(d)'
  BY <1>6, <1>2 DEF vars, client, server
<1>7. \A d \in Calls : Reached(d)'
  BY <1>3, <1>4, <1>5, <1>6 DEF Next, Finished
<1> QED BY <1>1, <1>7 DEF ReachInv

\* A parsable request for a method of a registered service runs that method:
\* in the v1 server whatever the services are called, in the v2 server if the
\* names tell them apart.
THEOREM ReachesMethodCorrect ==
    ASSUME NamesTellApart(Services["v2"])
    PROVE  Spec => []ReachesMethod
<1>1. Init => ReachInv
  BY CallInit DEF Init, ReachInv, Reached
<1>2. ReachInv /\ [Next]_vars => ReachInv'
  BY ReachStep
<1>3. ReachInv => ReachesMethod
  BY DEF ReachInv, Reached, ReachesMethod
<1> QED BY <1>1, <1>2, <1>3, PTL DEF Spec
=============================================================================
