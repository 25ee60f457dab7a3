--------------------------- MODULE RequestHandler ---------------------------
(***************************************************************************)
(* FRPCRequestHandler of the ATL library (src/src/fabric_rpc/src/          *)
(* FRPCRequestHandler.cpp) with BeginOperation and EndOperation            *)
(* (Operation.hpp), for concurrent requests.                               *)
(*                                                                         *)
(* Three threads meet on one request: the transport thread in              *)
(* BeginProcessRequest, the thread the user chooses to invoke the proxy    *)
(* callback from, possibly before the user's begin operation has returned, *)
(* and the transport thread that calls EndProcessRequest, possibly before  *)
(* BeginProcessRequest has returned.                                       *)
(*                                                                         *)
(* The user's contract (assumed): a begin operation that fails returns no  *)
(* context and never invokes the callback; one that succeeds invokes it    *)
(* once, with the context it returns.                                      *)
(***************************************************************************)
EXTENDS Integers

CONSTANTS
    Requests,
    BeginErrors,   \* statuses that parsing, routing or the user's begin fail with
    EndStatuses,   \* statuses the user's end operation may return
    OK,            \* Status()
    NoMessage,     \* the statuses with an empty message
    NoReply

ASSUME StatusAssumption ==
    /\ OK \notin BeginErrors
    /\ OK \notin NoMessage
    /\ NoReply \notin BeginErrors \cup EndStatuses

VARIABLES
    bpc,          \* bpc[r]: where BeginProcessRequest is
    err,          \* err[r]: its local variable
    kpc,          \* kpc[r]: where FRPCOperationCallback::Invoke is
    upc,          \* upc[r]: the user's asynchronous operation
    endOp,        \* endOp[r]: ctxPayload.endOp is set
    beginStatus,  \* beginStatus[r]: ctxPayload.beginStatus
    innerCtx,     \* innerCtx[r]: ctxPayload.innerCtx
    refs,         \* refs[r]: who holds a reference on the returned context
    reply,        \* reply[r]: status in the reply message, or NoReply
    ran,          \* ran[r]: context the user's end operation was given
    aborted       \* an assertion failed

payload == <<endOp, beginStatus, innerCtx>>
vars == <<bpc, err, kpc, upc, payload, refs, reply, ran, aborted>>

Init ==
    /\ bpc = [r \in Requests |-> "new"]
    /\ err = [r \in Requests |-> OK]
    /\ kpc = [r \in Requests |-> "idle"]
    /\ upc = [r \in Requests |-> "none"]
    /\ endOp = [r \in Requests |-> FALSE]
    /\ beginStatus = [r \in Requests |-> OK]
    /\ innerCtx = [r \in Requests |-> "null"]
    /\ refs = [r \in Requests |-> {}]
    /\ reply = [r \in Requests |-> NoReply]
    /\ ran = [r \in Requests |-> "null"]
    /\ aborted = FALSE

(***************************************************************************)
(* BeginProcessRequest.                                                    *)
(***************************************************************************)

\* Faulty variant: the proxy callback holds no reference of its own.
BeginWithoutWrapRef(r) ==
    /\ bpc[r] = "new"
    /\ bpc' = [bpc EXCEPT ![r] = "parse"]
    /\ refs' = [refs EXCEPT ![r] = {"retCtx"}]
    /\ UNCHANGED <<err, kpc, upc, payload, reply, ran, aborted>>

\* retCtx and the proxy callback, which holds a reference on retCtx.
BeginProcessRequest(r) ==
    /\ bpc[r] = "new"
    /\ bpc' = [bpc EXCEPT ![r] = "parse"]
    /\ refs' = [refs EXCEPT ![r] = {"retCtx", "wrapCtx_"}]
    /\ UNCHANGED <<err, kpc, upc, payload, reply, ran, aborted>>

\* An empty or unparsable header, or no service knows the url.
HeaderFails(r) ==
    /\ bpc[r] = "parse"
    /\ \E e \in BeginErrors : err' = [err EXCEPT ![r] = e]
    /\ bpc' = [bpc EXCEPT ![r] = "failed"]
    /\ UNCHANGED <<kpc, upc, payload, refs, reply, ran, aborted>>

\* Faulty variant: the end operation is not there yet when the user starts.
RouteStoresLate(r) ==
    /\ bpc[r] = "parse"
    /\ bpc' = [bpc EXCEPT ![r] = "beginOp"]
    /\ UNCHANGED <<err, kpc, upc, payload, refs, reply, ran, aborted>>

\* The route is found: the end operation is stored before the begin operation
\* is invoked.
Route(r) ==
    /\ bpc[r] = "parse"
    /\ endOp' = [endOp EXCEPT ![r] = TRUE]
    /\ bpc' = [bpc EXCEPT ![r] = "beginOp"]
    /\ UNCHANGED <<err, kpc, upc, beginStatus, innerCtx, refs, reply, ran, aborted>>

\* BeginOperation::Invoke: the body does not parse, or the user refuses.
BeginOpFails(r) ==
    /\ bpc[r] = "beginOp"
    /\ upc[r] = "none"
    /\ \E e \in BeginErrors : err' = [err EXCEPT ![r] = e]
    /\ bpc' = [bpc EXCEPT ![r] = "failed"]
    /\ UNCHANGED <<kpc, upc, payload, refs, reply, ran, aborted>>

\* BeginOperation::Invoke: the user's operation is under way.  From here on the
\* user may invoke the callback, even though the call has not returned.
UserBegins(r) ==
    /\ bpc[r] = "beginOp"
    /\ upc[r] = "none"
    /\ upc' = [upc EXCEPT ![r] = "running"]
    /\ UNCHANGED <<bpc, err, kpc, payload, refs, reply, ran, aborted>>

\* ctxPayload::SetInnerCtx, under its mutex.
SetInnerCtx(r, ctx) ==
    /\ innerCtx' = [innerCtx EXCEPT ![r] = IF @ = "null" THEN ctx ELSE @]
    /\ aborted' = (aborted \/ innerCtx[r] \notin {"null", ctx})

\* The user's begin operation returns its context; so does the transport's.
ReturnUserCtx(r) ==
    /\ bpc[r] = "beginOp"
    /\ upc[r] # "none"
    /\ SetInnerCtx(r, "userCtx")
    /\ refs' = [refs EXCEPT ![r] = (@ \ {"retCtx"}) \cup {"context"}]
    /\ bpc' = [bpc EXCEPT ![r] = "returned"]
    /\ UNCHANGED <<err, kpc, upc, endOp, beginStatus, reply, ran>>

\* Faulty variant: the dummy context is used before the status is stored.
StoreBeginStatusLate(r) ==
    /\ bpc[r] = "failed"
    /\ bpc' = [bpc EXCEPT ![r] = "dummy"]
    /\ UNCHANGED <<err, kpc, upc, payload, refs, reply, ran, aborted>>

\* Some step failed: the status is stored before the dummy context is used.
StoreBeginStatus(r) ==
    /\ bpc[r] = "failed"
    /\ beginStatus' = [beginStatus EXCEPT ![r] = err[r]]
    /\ bpc' = [bpc EXCEPT ![r] = "dummy"]
    /\ UNCHANGED <<err, kpc, upc, endOp, innerCtx, refs, reply, ran, aborted>>

\* frpcCallback->Invoke(dummyCtx) has come back.
ReturnDummyCtx(r) ==
    /\ bpc[r] = "dummy"
    /\ kpc[r] = "done"
    /\ refs' = [refs EXCEPT ![r] = (@ \ {"retCtx"}) \cup {"context"}]
    /\ bpc' = [bpc EXCEPT ![r] = "returned"]
    /\ UNCHANGED <<err, kpc, upc, payload, reply, ran, aborted>>

(***************************************************************************)
(* FRPCOperationCallback::Invoke, on the user's thread or, with the dummy  *)
(* context, on the thread of BeginProcessRequest.                          *)
(***************************************************************************)

InvokeByUser(r) ==
    /\ upc[r] = "running"
    /\ kpc[r] = "idle"
    /\ upc' = [upc EXCEPT ![r] = "fired"]
    /\ SetInnerCtx(r, "userCtx")
    /\ kpc' = [kpc EXCEPT ![r] = "ctxSet"]
    /\ UNCHANGED <<bpc, err, endOp, beginStatus, refs, reply, ran>>

\* Faulty variant: the failure path invokes the proxy callback again.
InvokeDummyAgain(r) ==
    /\ bpc[r] = "dummy"
    /\ kpc[r] \in {"idle", "done"}
    /\ SetInnerCtx(r, "dummyCtx")
    /\ kpc' = [kpc EXCEPT ![r] = "ctxSet"]
    /\ UNCHANGED <<bpc, err, upc, endOp, beginStatus, refs, reply, ran>>

InvokeDummy(r) ==
    /\ bpc[r] = "dummy"
    /\ kpc[r] = "idle"
    /\ SetInnerCtx(r, "dummyCtx")
    /\ kpc' = [kpc EXCEPT ![r] = "ctxSet"]
    /\ UNCHANGED <<bpc, err, upc, endOp, beginStatus, refs, reply, ran>>

\* transportCallback_->Invoke(wrapCtx_): the transport will call
\* EndProcessRequest and takes a reference until then.
InvokeTransport(r) ==
    /\ kpc[r] = "ctxSet"
    /\ refs' = [refs EXCEPT ![r] = @ \cup {"transport"}]
    /\ kpc' = [kpc EXCEPT ![r] = "called"]
    /\ UNCHANGED <<bpc, err, upc, payload, reply, ran, aborted>>

\* Faulty variant: the reference is kept, and with it the cycle.
ReleaseForgotten(r) ==
    /\ kpc[r] = "called"
    /\ kpc' = [kpc EXCEPT ![r] = "done"]
    /\ UNCHANGED <<bpc, err, upc, payload, refs, reply, ran, aborted>>

\* wrapCtx_.Release() breaks the cycle context - user context - callback.
ReleaseWrapCtx(r) ==
    /\ kpc[r] = "called"
    /\ refs' = [refs EXCEPT ![r] = @ \ {"wrapCtx_"}]
    /\ kpc' = [kpc EXCEPT ![r] = "done"]
    /\ UNCHANGED <<bpc, err, upc, payload, reply, ran, aborted>>

(***************************************************************************)
(* EndProcessRequest and the transport's references.                       *)
(***************************************************************************)

\* The stored status goes back with an empty body.
ReplyBeginError(r) ==
    /\ beginStatus[r] # OK
    /\ reply' = [reply EXCEPT ![r] = beginStatus[r]]
    /\ UNCHANGED <<ran, aborted>>

\* The user's end operation runs on the inner context.
ReplyFromUser(r) ==
    /\ beginStatus[r] = OK
    /\ ran' = [ran EXCEPT ![r] = innerCtx[r]]
    /\ \E st \in EndStatuses :
          /\ reply' = [reply EXCEPT ![r] = st]
          /\ aborted' = (aborted \/ ~endOp[r] \/ innerCtx[r] = "null" \/ st \in NoMessage)

EndProcessRequest(r) ==
    /\ kpc[r] \in {"called", "done"}
    /\ reply[r] = NoReply
    /\ ReplyBeginError(r) \/ ReplyFromUser(r)
    /\ refs' = [refs EXCEPT ![r] = @ \ {"transport"}]
    /\ UNCHANGED <<bpc, err, kpc, upc, payload>>

\* The transport drops the context BeginProcessRequest returned.
ReleaseContext(r) ==
    /\ "context" \in refs[r]
    /\ reply[r] # NoReply
    /\ refs' = [refs EXCEPT ![r] = @ \ {"context"}]
    /\ UNCHANGED <<bpc, err, kpc, upc, payload, reply, ran, aborted>>

(***************************************************************************)
(* Specification.                                                          *)
(***************************************************************************)

BeginStep(r) ==
    \/ HeaderFails(r) \/ Route(r)
    \/ BeginOpFails(r) \/ UserBegins(r) \/ ReturnUserCtx(r)
    \/ StoreBeginStatus(r) \/ ReturnDummyCtx(r)

CallbackStep(r) ==
    InvokeByUser(r) \/ InvokeDummy(r) \/ InvokeTransport(r) \/ ReleaseWrapCtx(r)

EndStep(r) == EndProcessRequest(r) \/ ReleaseContext(r)

Next ==
    /\ ~aborted
    /\ \E r \in Requests :
          BeginProcessRequest(r) \/ BeginStep(r) \/ CallbackStep(r) \/ EndStep(r)

Spec == Init /\ [][Next]_vars

\* Handler threads run on, the user completes what it began, and the transport
\* ends what was called back.
FairSpec ==
    /\ Spec
    /\ \A r \in Requests :
          WF_vars(BeginStep(r)) /\ WF_vars(CallbackStep(r)) /\ WF_vars(EndStep(r))

(***************************************************************************)
(* Properties.                                                             *)
(***************************************************************************)

TypeOK ==
    /\ bpc \in [Requests -> {"new", "parse", "beginOp", "failed", "dummy", "returned"}]
    /\ err \in [Requests -> BeginErrors \cup {OK}]
    /\ kpc \in [Requests -> {"idle", "ctxSet", "called", "done"}]
    /\ upc \in [Requests -> {"none", "running", "fired"}]
    /\ endOp \in [Requests -> BOOLEAN]
    /\ beginStatus \in [Requests -> BeginErrors \cup {OK}]
    /\ innerCtx \in [Requests -> {"null", "userCtx", "dummyCtx"}]
    /\ refs \in [Requests -> SUBSET {"retCtx", "wrapCtx_", "context", "transport"}]
    /\ reply \in [Requests -> BeginErrors \cup EndStatuses \cup {NoReply}]
    /\ ran \in [Requests -> {"null", "userCtx", "dummyCtx"}]
    /\ aborted \in BOOLEAN

\* No assertion of the handler fails, in whatever order the three threads run:
\* both callers of SetInnerCtx bring the same context, and EndProcessRequest
\* finds the end operation and the inner context even when it overtakes
\* BeginProcessRequest.
NoAssertionFails == ~aborted

\* A failed begin is what the client hears, and the user's end operation never
\* sees the dummy context: the status is in place before the transport can
\* call EndProcessRequest.
ErrorNotMasked ==
    \A r \in Requests :
        /\ ran[r] # "dummyCtx"
        /\ reply[r] # NoReply /\ err[r] # OK => reply[r] = err[r] /\ ran[r] = "null"
        /\ reply[r] # NoReply /\ err[r] = OK => ran[r] = "userCtx"

\* The context is not freed while a thread may still use it: the references
\* are gone only after Begin returned, the callback finished and End ran.
NoUseAfterFree ==
    \A r \in Requests :
        bpc[r] # "new" /\ refs[r] = {} =>
            bpc[r] = "returned" /\ kpc[r] = "done" /\ reply[r] # NoReply

\* Every request is answered and its context freed in the end: the reference
\* cycle through the user's context and the callback is broken.
EventuallyFreed ==
    \A r \in Requests : bpc[r] = "parse" ~> (reply[r] # NoReply /\ refs[r] = {})

\* The request as the transport sees it.
phase ==
    [r \in Requests |->
        IF reply[r] # NoReply THEN "ended"
        ELSE IF kpc[r] \in {"called", "done"} THEN "called"
        ELSE IF bpc[r] = "new" THEN "idle"
        ELSE "begun"]

RR == INSTANCE RequestReply WITH Replies <- BeginErrors \cup EndStatuses

\* The v1 message handler keeps the transport's contract: one callback per
\* request, then one EndProcessRequest with one reply.
ImplementsRequestReply == RR!Spec
=============================================================================
