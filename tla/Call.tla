-------------------------------- MODULE Call --------------------------------
(***************************************************************************)
(* Remote calls from end to end: the clients of both libraries             *)
(* (ClientHelpers.hpp; basic_client_connection.hpp, basic_rpc_client.hpp), *)
(* the transport between them, and the dispatch of either server.          *)
(*                                                                         *)
(* The transport (external) completes each begun request once, with the    *)
(* reply or with a timeout, and invokes the client's callback from its own *)
(* thread, possibly before BeginRequest has returned.                      *)
(***************************************************************************)
EXTENDS Wire

CONSTANTS
    Calls,
    Pairs,       \* <<client's library, server's library>>, each "v1" or "v2"
    Services,    \* Services[l]: registered with a server of library l, in order
    Urls,        \* urls the clients ask for
    Bodies,      \* serialized requests and responses
    Failures     \* statuses a method may fail with

ASSUME CallAssumption ==
    /\ Pairs \subseteq {"v1", "v2"} \X {"v1", "v2"}
    /\ \A st \in Failures : st.code # OK
    /\ \A body \in Bodies : body \in Seq(ToSet(body))

\* A service has a name: it is the first part of its routes.
ASSUME ServiceAssumption ==
    \A l \in {"v1", "v2"} :
        /\ DOMAIN Services[l] \subseteq Nat
        /\ \A i \in DOMAIN Services[l] : Services[l][i].path \in Seq(STRING) \ {<<>>}

NoRequest == [url |-> <<>>, body |-> <<>>, client |-> "none", server |-> "none"]
None == [code |-> -1, message |-> "", body |-> <<>>]

VARIABLES
    cpc,      \* cpc[c]: where the client's operation is
    req,      \* req[c]: url and body asked for, by and of which library
    ev_,      \* ev_[c]: the callback still owns the event
    ev,       \* ev[c]: the operation's own pointer to the event
    set,      \* set[c]: the event (semaphore, for v1) is signalled
    op,       \* op[c]: the transport's operation
    answer,   \* answer[c]: what it completed with: header and body chunks
    handled,  \* handled[c]: what the server decided
    ran,      \* ran[c]: method the server ran
    result,   \* result[c]: what the caller gets
    aborted   \* an assertion failed

client == <<cpc, req, ev, result>>
transport == <<ev_, set, op, answer>>
server == <<handled, ran>>
vars == <<client, transport, server, aborted>>

Init ==
    /\ cpc = [c \in Calls |-> "idle"]
    /\ req = [c \in Calls |-> NoRequest]
    /\ ev_ = [c \in Calls |-> TRUE]
    /\ ev = [c \in Calls |-> FALSE]
    /\ set = [c \in Calls |-> FALSE]
    /\ op = [c \in Calls |-> "none"]
    /\ answer = [c \in Calls |-> [header |-> <<>>, chunks |-> <<>>]]
    /\ handled = [c \in Calls |-> None]
    /\ ran = [c \in Calls |-> NotFound]
    /\ result = [c \in Calls |-> None]
    /\ aborted = FALSE

(***************************************************************************)
(* The client.                                                             *)
(***************************************************************************)

Result(st, body) == [code |-> st.code, message |-> st.message, body |-> body]
TransportError == Result(Status(FABRIC_TRANSPORT_ERROR, "transport"), <<>>)

\* ExecClientBegin, async_rpc_op: the request is serialized into a message.
MakeRequest(c) ==
    /\ cpc[c] = "idle"
    /\ \E url \in Urls, body \in Bodies, pair \in Pairs :
          /\ req' = [req EXCEPT ![c] =
                 [url |-> url, body |-> body, client |-> pair[1], server |-> pair[2]]]
          /\ cpc' = [cpc EXCEPT ![c] = IF pair[1] = "v2" THEN "made" ELSE "beginning"]
    /\ UNCHANGED <<ev, transport, server, result, aborted>>

Fetch(c) ==
    /\ ev' = [ev EXCEPT ![c] = TRUE]
    /\ aborted' = (aborted \/ ~ev_[c])

\* Faulty variant: the event is fetched only when BeginRequest has returned.
GetEventLate(c) ==
    /\ \/ cpc[c] = "made" /\ cpc' = [cpc EXCEPT ![c] = "beginning"] /\ UNCHANGED <<ev, aborted>>
       \/ cpc[c] = "waiting" /\ req[c].client = "v2" /\ ~ev[c] /\ Fetch(c) /\ UNCHANGED cpc
    /\ UNCHANGED <<req, result, transport, server>>

\* The v2 operation takes the event from its callback, which holds it only
\* until it is invoked, before it calls BeginRequest.
GetEvent(c) ==
    /\ cpc[c] = "made"
    /\ Fetch(c)
    /\ cpc' = [cpc EXCEPT ![c] = "beginning"]
    /\ UNCHANGED <<req, result, transport, server>>

\* BeginRequest fails: there is no context and no callback.
BeginRequestFails(c) ==
    /\ cpc[c] = "beginning"
    /\ op[c] = "none"
    /\ result' = [result EXCEPT ![c] = TransportError]
    /\ cpc' = [cpc EXCEPT ![c] = "done"]
    /\ UNCHANGED <<req, ev, transport, server, aborted>>

\* BeginRequest has returned a context; the client waits.
BeginRequestReturns(c) ==
    /\ cpc[c] = "beginning"
    /\ op[c] # "none"
    /\ cpc' = [cpc EXCEPT ![c] = "waiting"]
    /\ UNCHANGED <<req, ev, result, transport, server, aborted>>

\* parse_reply_header, then parse_proto_payload.
ParseV2(msg) ==
    LET st == parse_reply_header(msg.header)
        body == get_body(msg.chunks)
    IN  IF st.code # OK THEN Result(st, <<>>)
        ELSE IF body \in Unparsable THEN Result(Status(UNKNOWN, "parse_proto_payload failed"), <<>>)
        ELSE Result(st, body)

\* ExecClientEnd: an empty header is an error here.
ParseV1(msg) ==
    LET st == DeserializeReplyHeader(msg.header)
        body == get_body(msg.chunks)
    IN  IF IsEmpty(msg.header) THEN Result(Status(UNKNOWN, "Server returned empty header"), <<>>)
        ELSE IF st.code # OK THEN Result(st, <<>>)
        ELSE IF body \in Unparsable THEN Result(Status(UNKNOWN, "Server returned bad body"), <<>>)
        ELSE Result(Status(OK, "OK"), body)

\* Faulty variant: a request that timed out is parsed like any other.
EndRequestIgnoresError(c) ==
    /\ cpc[c] = "waiting" /\ set[c]
    /\ req[c].client = "v2" => ev[c]
    /\ result' = [result EXCEPT ![c] =
           IF req[c].client = "v1" THEN ParseV1(answer[c]) ELSE ParseV2(answer[c])]
    /\ cpc' = [cpc EXCEPT ![c] = "done"]
    /\ UNCHANGED <<req, ev, transport, server, aborted>>

\* The event is set: EndRequest yields the reply or the transport's error.
EndRequest(c) ==
    /\ cpc[c] = "waiting" /\ set[c]
    /\ req[c].client = "v2" => ev[c]
    /\ result' = [result EXCEPT ![c] =
           IF op[c] = "timedout" THEN TransportError
           ELSE IF req[c].client = "v1" THEN ParseV1(answer[c]) ELSE ParseV2(answer[c])]
    /\ cpc' = [cpc EXCEPT ![c] = "done"]
    /\ UNCHANGED <<req, ev, transport, server, aborted>>

(***************************************************************************)
(* The server: what it decides for a request, as one step.                 *)
(***************************************************************************)

\* The method runs: it fails, with an empty body, or it answers.
RunMethod(c, m, ok) ==
    /\ ran' = [ran EXCEPT ![c] = m]
    /\ \/ \E st \in Failures : handled' = [handled EXCEPT ![c] = Result(st, <<>>)]
       \/ \E body \in Bodies : handled' = [handled EXCEPT ![c] = Result(ok, body)]

Refuse(c, code) ==
    /\ handled' = [handled EXCEPT ![c] = Result(Status(code, "refused"), <<>>)]
    /\ UNCHANGED ran

\* FRPCRequestHandler: empty header, router, BeginOperation, the method.
ServeV1(c, header, body) ==
    LET m == RouteV1(Services["v1"], DeserializeRequestHeader(header))
    IN  IF IsEmpty(header) THEN Refuse(c, INVALID_ARGUMENT)
        ELSE IF m = NotFound THEN Refuse(c, NOT_FOUND)
        ELSE IF body \in Unparsable THEN Refuse(c, INVALID_ARGUMENT)
        ELSE RunMethod(c, m, Status(OK, "OK"))

\* middleware::execute_inner, the service's execute, codegen_handler_helper.
ServeV2(c, header, body) ==
    LET url == parse_request_header(header)
        m == RouteV2(Services["v2"], url)
    IN  IF url = <<>> \/ Head(url) # "/" THEN Refuse(c, INVALID_ARGUMENT)
        ELSE IF m = NotFound THEN Refuse(c, UNIMPLEMENTED)
        ELSE IF body \in Unparsable THEN Refuse(c, UNKNOWN)
        ELSE RunMethod(c, m, Status(OK, ""))

Serve(c) ==
    /\ op[c] \in {"pending", "timedout"}
    /\ handled[c] = None
    /\ \E chunks \in Chunkings(req[c].body) :
          LET header == IF req[c].client = "v1" THEN SerializeRequestHeader(req[c].url)
                        ELSE request_header(req[c].url)
          IN  IF req[c].server = "v1" THEN ServeV1(c, header, get_body(chunks))
              ELSE ServeV2(c, header, get_body(chunks))
    /\ UNCHANGED <<client, transport, aborted>>

(***************************************************************************)
(* The transport.                                                          *)
(***************************************************************************)

\* The request is accepted, within BeginRequest.
Send(c) ==
    /\ cpc[c] = "beginning" /\ op[c] = "none"
    /\ op' = [op EXCEPT ![c] = "pending"]
    /\ UNCHANGED <<client, ev_, set, answer, server, aborted>>

\* The reply arrives in time; one that comes after the timeout is dropped.
Deliver(c) ==
    /\ op[c] = "pending"
    /\ handled[c] # None
    /\ op' = [op EXCEPT ![c] = "replied"]
    /\ \E chunks \in Chunkings(handled[c].body) :
          LET header == IF req[c].server = "v1" THEN SerializeReplyHeader(handled[c])
                        ELSE serialize_reply_header(handled[c])
          IN  answer' = [answer EXCEPT ![c] = [header |-> header, chunks |-> chunks]]
    /\ UNCHANGED <<client, ev_, set, server, aborted>>

TimeOut(c) ==
    /\ op[c] = "pending"
    /\ op' = [op EXCEPT ![c] = "timedout"]
    /\ UNCHANGED <<client, ev_, set, answer, server, aborted>>

\* Faulty variant: the callback gives the event up without setting it.
InvokeForgetsSet(c) ==
    /\ op[c] \in {"replied", "timedout"} /\ ev_[c]
    /\ ev_' = [ev_ EXCEPT ![c] = FALSE]
    /\ UNCHANGED <<client, set, op, answer, server, aborted>>

\* The completed operation's callback: set the event, give it up.
Invoke(c) ==
    /\ op[c] \in {"replied", "timedout"} /\ ev_[c]
    /\ set' = [set EXCEPT ![c] = TRUE]
    /\ ev_' = [ev_ EXCEPT ![c] = FALSE]
    /\ UNCHANGED <<client, op, answer, server, aborted>>

(***************************************************************************)
(* Specification.                                                          *)
(***************************************************************************)

ClientStep(c) == GetEvent(c) \/ BeginRequestFails(c) \/ BeginRequestReturns(c) \/ EndRequest(c)
TransportStep(c) == Send(c) \/ Deliver(c) \/ TimeOut(c) \/ Invoke(c)

\* All calls are over; the server may have one it answers for nobody.
Finished ==
    /\ \A c \in Calls : cpc[c] = "done" /\ (op[c] = "timedout" => handled[c] # None)
    /\ UNCHANGED vars

Next ==
    \/ \E c \in Calls : MakeRequest(c) \/ ClientStep(c) \/ Serve(c) \/ TransportStep(c)
    \/ Finished

Spec == Init /\ [][Next]_vars

\* The client's threads run on and the transport completes what it accepted;
\* nothing is assumed of the server.
FairSpec ==
    Spec /\ \A c \in Calls : WF_vars(ClientStep(c)) /\ WF_vars(TransportStep(c))

(***************************************************************************)
(* Properties.                                                             *)
(***************************************************************************)

\* What a method may fail with, a hypothesis of the theorems: StatusCode.hpp
\* keeps 50 for the transport's errors, "only used in client", and -1 for none.
StatusesInRange == \A st \in Failures : st.code \in 1 .. MaxStatusCode

TypeOK ==
    /\ cpc \in [Calls -> {"idle", "made", "beginning", "waiting", "done"}]
    /\ req \in [Calls -> {NoRequest} \cup [url : Urls, body : Bodies,
                   client : {"v1", "v2"}, server : {"v1", "v2"}]]
    /\ ev_ \in [Calls -> BOOLEAN] /\ ev \in [Calls -> BOOLEAN] /\ set \in [Calls -> BOOLEAN]
    /\ op \in [Calls -> {"none", "pending", "replied", "timedout"}]
    /\ \A c \in Calls :
          /\ handled[c].code \in -1 .. MaxStatusCode
          /\ result[c].code \in (-1 .. MaxStatusCode) \cup {FABRIC_TRANSPORT_ERROR}
          /\ handled[c].body \in Bodies \cup {<<>>}
          /\ result[c].body \in Bodies \cup {<<>>}
    /\ aborted \in BOOLEAN

\* The event is fetched while the callback still owns it, even when the
\* transport invokes the callback before BeginRequest returns.
NoAssertionFails == ~aborted

\* What the caller gets is what the server decided for this very call: a
\* failure with its code and message, a success with the response the method
\* wrote, whatever the transport did to the body.  A caller that hears of
\* success had its method run.
ResultFaithful ==
    \A c \in Calls :
        cpc[c] = "done" /\ result[c] # TransportError =>
            IF handled[c].code # OK
            THEN result[c].code = handled[c].code /\ result[c].message = handled[c].message
            ELSE IF handled[c].body \in Unparsable THEN result[c].code = UNKNOWN
            ELSE result[c].code = OK /\ result[c].body = handled[c].body /\ ran[c] # NotFound

\* A parsable request for a method of a registered service runs that method.
ReachesMethod ==
    \A c \in Calls :
        handled[c] # None /\ req[c].body \notin Unparsable =>
            LET svcs == Services[req[c].server]
            IN  \A i \in DOMAIN svcs : \A m \in svcs[i].methods :
                    Url(svcs[i], m) = req[c].url => ran[c] = Found(svcs[i], m)

\* Every begun call completes, also when the server never answers.
EventuallyDone == \A c \in Calls : cpc[c] # "idle" ~> cpc[c] = "done"
=============================================================================
