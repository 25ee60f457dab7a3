----------------------- MODULE RequestHandlerProofs -----------------------
(***************************************************************************)
(* Proofs about the v1 request handler for any set of requests and         *)
(* statuses.                                                               *)
(***************************************************************************)
EXTENDS RequestHandler, TLAPS

(***************************************************************************)
(* The inductive invariant: what each of the three threads knows about the *)
(* others' progress on a request.                                          *)
(***************************************************************************)

\* Where BeginProcessRequest is tells what it has stored so far.
BeginInv(r) ==
    /\ bpc[r] \in {"new", "parse", "failed"} => kpc[r] = "idle" /\ innerCtx[r] = "null"
    /\ bpc[r] \in {"new", "parse"} => upc[r] = "none" /\ err[r] = OK
    /\ bpc[r] = "beginOp" => err[r] = OK /\ endOp[r]
    /\ bpc[r] \in {"failed", "dummy"} => err[r] # OK
    /\ bpc[r] = "returned" /\ err[r] = OK => upc[r] # "none" /\ endOp[r]
    /\ bpc[r] = "returned" /\ err[r] # OK => kpc[r] = "done"
    /\ bpc[r] \in {"dummy", "returned"} => beginStatus[r] = err[r]
    /\ err[r] = OK => beginStatus[r] = OK
    /\ err[r] # OK => upc[r] = "none" /\ bpc[r] \in {"failed", "dummy", "returned"}

\* Whoever runs the proxy callback has set the one inner context of the request.
CallbackInv(r) ==
    /\ innerCtx[r] # "null" => innerCtx[r] = IF err[r] = OK THEN "userCtx" ELSE "dummyCtx"
    /\ innerCtx[r] = "userCtx" => upc[r] # "none"
    /\ kpc[r] # "idle" => innerCtx[r] # "null"
    /\ kpc[r] # "idle" /\ err[r] = OK => upc[r] = "fired"
    /\ upc[r] = "fired" => kpc[r] # "idle"
    /\ reply[r] # NoReply => kpc[r] \in {"called", "done"}
    /\ reply[r] = NoReply => ran[r] = "null"

\* Each thread that is not done holds a reference on the context.
RefsInv(r) ==
    /\ bpc[r] \notin {"new", "returned"} => "retCtx" \in refs[r]
    /\ bpc[r] # "new" /\ kpc[r] # "done" => "wrapCtx_" \in refs[r]
    /\ kpc[r] \in {"called", "done"} /\ reply[r] = NoReply => "transport" \in refs[r]

HInv ==
    /\ TypeOK
    /\ NoAssertionFails
    /\ ErrorNotMasked
    /\ \A r \in Requests : BeginInv(r) /\ CallbackInv(r) /\ RefsInv(r)

LEMMA HInvInit == Init => HInv
<1> SUFFICES ASSUME Init PROVE HInv
  OBVIOUS
<1>1. TypeOK
  BY DEF Init, TypeOK
<1>2. NoAssertionFails /\ ErrorNotMasked
  BY DEF Init, NoAssertionFails, ErrorNotMasked
<1>3. \A r \in Requests : BeginInv(r) /\ CallbackInv(r) /\ RefsInv(r)
  BY DEF Init, BeginInv, CallbackInv, RefsInv
<1> QED BY <1>1, <1>2, <1>3 DEF HInv

LEMMA BeginStepInv ==
    ASSUME HInv, NEW r \in Requests, BeginProcessRequest(r) \/ BeginStep(r)
    PROVE  HInv'
<1> USE StatusAssumption DEF HInv, TypeOK, NoAssertionFails, ErrorNotMasked, BeginInv, CallbackInv, RefsInv
<1>1. CASE BeginProcessRequest(r)
  BY <1>1 DEF BeginProcessRequest, payload
<1>2. CASE HeaderFails(r)
  BY <1>2 DEF HeaderFails, payload
<1>3. CASE Route(r)
  BY <1>3 DEF Route
<1>4. CASE BeginOpFails(r)
  BY <1>4 DEF BeginOpFails, payload
<1>5. CASE UserBegins(r)
  BY <1>5 DEF UserBegins, payload
<1>6. CASE ReturnUserCtx(r)
  BY <1>6 DEF ReturnUserCtx, SetInnerCtx
<1>7. CASE StoreBeginStatus(r)
  BY <1>7 DEF StoreBeginStatus
<1>8. CASE ReturnDummyCtx(r)
  BY <1>8 DEF ReturnDummyCtx, payload
<1> QED
  BY <1>1, <1>2, <1>3, <1>4, <1>5, <1>6, <1>7, <1>8 DEF BeginStep

LEMMA CallbackStepInv ==
    ASSUME HInv, NEW r \in Requests, CallbackStep(r)
    PROVE  HInv'
<1> USE StatusAssumption DEF HInv, TypeOK, NoAssertionFails, ErrorNotMasked, BeginInv, CallbackInv, RefsInv
<1>1. CASE InvokeByUser(r)
  BY <1>1 DEF InvokeByUser, SetInnerCtx
<1>2. CASE InvokeDummy(r)
  BY <1>2 DEF InvokeDummy, SetInnerCtx
<1>3. CASE InvokeTransport(r)
  BY <1>3 DEF InvokeTransport, payload
<1>4. CASE ReleaseWrapCtx(r)
  BY <1>4 DEF ReleaseWrapCtx, payload
<1> QED
  BY <1>1, <1>2, <1>3, <1>4 DEF CallbackStep

LEMMA EndStepInv ==
    ASSUME EndStatuses \cap NoMessage = {},
           HInv, NEW r \in Requests, EndStep(r)
    PROVE  HInv'
<1> USE StatusAssumption DEF HInv, TypeOK, NoAssertionFails, ErrorNotMasked, BeginInv, CallbackInv, RefsInv
<1>1. CASE EndProcessRequest(r) /\ ReplyBeginError(r)
  BY <1>1 DEF EndProcessRequest, ReplyBeginError, payload
<1>2. CASE EndProcessRequest(r) /\ ReplyFromUser(r)
  BY <1>2 DEF EndProcessRequest, ReplyFromUser, payload
<1>3. CASE ReleaseContext(r)
  BY <1>3 DEF ReleaseContext, payload
<1> QED
  BY <1>1, <1>2, <1>3 DEF EndStep, EndProcessRequest

LEMMA HInvStep ==
    ASSUME EndStatuses \cap NoMessage = {}
    PROVE  HInv /\ [Next]_vars => HInv'
<1> SUFFICES ASSUME HInv, [Next]_vars PROVE HInv'
  OBVIOUS
<1>1. CASE UNCHANGED vars
  BY <1>1 DEF vars, payload, HInv, TypeOK, NoAssertionFails, ErrorNotMasked, BeginInv, CallbackInv, RefsInv
<1> QED
  BY <1>1, BeginStepInv, CallbackStepInv, EndStepInv DEF Next

LEMMA HandlerInvariant ==
    ASSUME EndStatuses \cap NoMessage = {}
    PROVE  Spec => []HInv
BY HInvInit, HInvStep, PTL DEF Spec

\* TypeOK holds in every reachable state of the handler.
THEOREM HandlerTypeCorrect ==
    ASSUME EndStatuses \cap NoMessage = {}
    PROVE  Spec => []TypeOK
BY HandlerInvariant, PTL DEF HInv

\* As long as no end operation returns a status with an empty message, no
\* assertion of FRPCRequestHandler fails, however the threads interleave.
THEOREM HandlerAssertions ==
    ASSUME EndStatuses \cap NoMessage = {}
    PROVE  Spec => []NoAssertionFails
BY HandlerInvariant, PTL DEF HInv

\* The client hears a failed begin, and the user's end operation runs on the
\* user's own context only.
THEOREM HandlerErrors ==
    ASSUME EndStatuses \cap NoMessage = {}
    PROVE  Spec => []ErrorNotMasked
BY HandlerInvariant, PTL DEF HInv

\* The context outlives the begin thread, the callback and EndProcessRequest.
THEOREM HandlerMemory ==
    ASSUME EndStatuses \cap NoMessage = {}
    PROVE  Spec => []NoUseAfterFree
<1>1. HInv => NoUseAfterFree
  BY DEF HInv, TypeOK, RefsInv, NoUseAfterFree
<1> QED BY <1>1, HandlerInvariant, PTL

(***************************************************************************)
(* The handler implements the transport's contract.                        *)
(***************************************************************************)

LEMMA PhaseType ==
    /\ DOMAIN phase = Requests
    /\ phase = [r \in Requests |-> phase[r]]
BY DEF phase

\* A step on r that leaves its reply alone and moves its phase from a to b.
LEMMA PhaseUpdate ==
    ASSUME NEW r \in Requests, NEW b,
           \A s \in Requests : phase'[s] = IF s = r THEN b ELSE phase[s]
    PROVE  phase' = [phase EXCEPT ![r] = b]
<1>1. phase' = [s \in Requests |-> phase'[s]]
  BY DEF phase
<1> QED BY <1>1, PhaseType

LEMMA BeginRefines ==
    ASSUME HInv, NEW r \in Requests, BeginProcessRequest(r)
    PROVE  RR!Begin(r)
<1>1. phase[r] = "idle"
  BY DEF HInv, BeginInv, CallbackInv, phase, BeginProcessRequest
<1>2. \A s \in Requests : phase'[s] = IF s = r THEN "begun" ELSE phase[s]
  BY DEF HInv, TypeOK, BeginInv, CallbackInv, phase, BeginProcessRequest
<1> QED
  BY <1>1, <1>2, PhaseUpdate DEF RR!Begin, BeginProcessRequest

LEMMA BeginStepRefines ==
    ASSUME HInv, NEW r \in Requests, BeginStep(r)
    PROVE  UNCHANGED RR!vars
<1>1. /\ reply' = reply
      /\ kpc' = kpc
      /\ \A s \in Requests : bpc'[s] = "new" <=> bpc[s] = "new"
  BY DEF HInv, TypeOK, BeginStep, HeaderFails, Route, BeginOpFails, UserBegins, ReturnUserCtx,
         StoreBeginStatus, ReturnDummyCtx
<1>2. phase' = phase
  BY <1>1 DEF phase
<1> QED BY <1>1, <1>2 DEF RR!vars

LEMMA CallbackStepRefines ==
    ASSUME HInv, NEW r \in Requests, CallbackStep(r)
    PROVE  RR!Callback(r) \/ UNCHANGED RR!vars
<1>1. CASE InvokeTransport(r)
  <2>1. phase[r] = "begun"
    BY <1>1 DEF HInv, BeginInv, CallbackInv, phase, InvokeTransport
  <2>2. \A s \in Requests : phase'[s] = IF s = r THEN "called" ELSE phase[s]
    BY <1>1 DEF HInv, TypeOK, CallbackInv, phase, InvokeTransport
  <2> QED
    BY <1>1, <2>1, <2>2, PhaseUpdate DEF RR!Callback, InvokeTransport
<1>2. CASE InvokeByUser(r) \/ InvokeDummy(r) \/ ReleaseWrapCtx(r)
  <2>1. /\ reply' = reply
        /\ bpc' = bpc
        /\ \A s \in Requests : kpc'[s] \in {"called", "done"} <=> kpc[s] \in {"called", "done"}
    BY <1>2 DEF HInv, TypeOK, InvokeByUser, InvokeDummy, ReleaseWrapCtx
  <2>2. phase' = phase
    BY <2>1 DEF phase
  <2> QED BY <2>1, <2>2 DEF RR!vars
<1> QED BY <1>1, <1>2 DEF CallbackStep

LEMMA EndStepRefines ==
    ASSUME HInv, NEW r \in Requests, EndStep(r)
    PROVE  (\E a \in BeginErrors \cup EndStatuses : RR!End(r, a)) \/ UNCHANGED RR!vars
<1>1. CASE EndProcessRequest(r)
  <2>1. phase[r] = "called" /\ reply[r] = NoReply
    BY <1>1 DEF phase, EndProcessRequest
  <2>2. PICK a \in BeginErrors \cup EndStatuses : reply' = [reply EXCEPT ![r] = a]
    BY <1>1 DEF HInv, TypeOK, EndProcessRequest, ReplyBeginError, ReplyFromUser
  <2>3. a # NoReply
    BY StatusAssumption
  <2>4. \A s \in Requests : phase'[s] = IF s = r THEN "ended" ELSE phase[s]
    BY <1>1, <2>2, <2>3 DEF HInv, TypeOK, phase, EndProcessRequest
  <2> QED
    BY <2>1, <2>2, <2>4, PhaseUpdate DEF RR!End
<1>2. CASE ReleaseContext(r)
  BY <1>2 DEF ReleaseContext, RR!vars, phase
<1> QED BY <1>1, <1>2 DEF EndStep

\* Every behaviour of FRPCRequestHandler is one the transport's contract
\* allows: one callback per request, and one reply, after it.
THEOREM HandlerRefinement ==
    ASSUME EndStatuses \cap NoMessage = {}
    PROVE  Spec => ImplementsRequestReply
<1>1. Init => RR!Init
  BY DEF Init, RR!Init, phase
<1>2. HInv /\ [Next]_vars => [RR!Next]_(RR!vars)
  <2> SUFFICES ASSUME HInv, [Next]_vars PROVE [RR!Next]_(RR!vars)
    OBVIOUS
  <2>1. CASE UNCHANGED vars
    BY <2>1 DEF vars, RR!vars, phase
  <2>2. ASSUME NEW r \in Requests,
               BeginProcessRequest(r) \/ BeginStep(r) \/ CallbackStep(r) \/ EndStep(r)
        PROVE  [RR!Next]_(RR!vars)
    BY <2>2, BeginRefines, BeginStepRefines, CallbackStepRefines, EndStepRefines DEF RR!Next
  <2> QED BY <2>1, <2>2 DEF Next
<1> QED
  BY <1>1, <1>2, HandlerInvariant, PTL DEF Spec, ImplementsRequestReply, RR!Spec
=============================================================================
