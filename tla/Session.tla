------------------------------ MODULE Session ------------------------------
(***************************************************************************)
(* Whole programs: a server and its clients, each a main() that blocks on  *)
(* the semaphore of a waitable_callback for every transport operation it   *)
(* begins, with the tool library's connection handler, the example service *)
(* and the timeout that is handed down from the caller to the service.     *)
(*                                                                         *)
(* The server is examples/helloworld/main.cpp; a client is                 *)
(* examples/helloworld/client.cpp ("v1") or                                *)
(* examples/helloworld2/client2.cpp ("v2").  The transport refuses a       *)
(* begin operation or accepts it; what it accepted it completes once, with *)
(* success or an error, on its own thread and possibly before the begin    *)
(* operation returns, and then invokes the callback.                       *)
(***************************************************************************)
EXTENDS Integers

CONSTANTS
    Clients,
    Server,
    Timeout,       \* milliseconds a client gives its call
    Elapsed,       \* milliseconds a step of the library may take
    DwordRange     \* 2^32

Procs == Clients \cup {Server}

Notes == Clients \X {"connect", "disconnect"}

ASSUME ProgramAssumption == Server \notin Clients

ASSUME TimeAssumption ==
    /\ DwordRange \in Nat
    /\ Timeout \in 0 .. DwordRange - 1
    /\ Elapsed \subseteq Nat

VARIABLES
    library,    \* library[c]: the client's library
    job,        \* job[p]: what main() is doing
    pc,         \* pc[p]: how far the current operation is
    ctx,        \* ctx[p]: the transport's context of that operation
    sync,       \* sync[p]: it completed before its begin operation returned
    owed,       \* owed[p]: the transport still has to invoke its callback
    bs_,        \* bs_[p]: the callback's semaphore
    exit,       \* exit[p]: exit code
    listening,  \* the listener is open
    note,       \* note[<<c, k>>]: how far the report of c's connect or disconnect is
    stage,      \* stage[c]: where c's request is in the server
    budget,     \* budget[c]: timeout last handed down for c's request
    spent,      \* spent[c]: milliseconds the library has counted for it
    ran,        \* ran[c]: how often SayHello began for it
    aborted     \* an assertion failed

program == <<library, job, exit>>
operation == <<pc, ctx, sync, owed, bs_>>
request == <<stage, budget, spent, ran>>
vars == <<program, operation, listening, note, request, aborted>>

Init ==
    /\ library \in [Clients -> {"v1", "v2"}]
    /\ job = [p \in Procs |-> "create"]
    /\ pc = [p \in Procs |-> "ready"]
    /\ ctx = [p \in Procs |-> "null"]
    /\ sync = [p \in Procs |-> FALSE]
    /\ owed = [p \in Procs |-> FALSE]
    /\ bs_ = [p \in Procs |-> 0]
    /\ exit = [p \in Procs |-> "none"]
    /\ listening = FALSE
    /\ note = [n \in Notes |-> "idle"]
    /\ stage = [c \in Clients |-> "none"]
    /\ budget = [c \in Clients |-> 0]
    /\ spent = [c \in Clients |-> 0]
    /\ ran = [c \in Clients |-> 0]
    /\ aborted = FALSE

(***************************************************************************)
(* Timeouts: the same arithmetic at each hop.                              *)
(***************************************************************************)

\* static_cast<DWORD> of a 64-bit count.
Dword(ms) == ms % DwordRange

\* Faulty variant: the count is cut to 32 bits before it is compared.
LeftCutFirst(t, ms) == IF t > Dword(ms) THEN t - Dword(ms) ELSE 0

\* What is left of timeout t after ms milliseconds.
Left(t, ms) == IF t > ms THEN t - Dword(ms) ELSE 0

\* One hop took ms and hands down what is left of t.
Spend(c, t, ms) ==
    /\ budget' = [budget EXCEPT ![c] = Left(t, ms)]
    /\ spent' = [spent EXCEPT ![c] = @ + ms]

(***************************************************************************)
(* What all programs do: begin, wait, end.                                 *)
(***************************************************************************)

Completed == {"ok", "error"}

Goto(p, next) ==
    /\ job' = [job EXCEPT ![p] = next]
    /\ UNCHANGED <<library, exit>>

Leave(p, code) ==
    /\ job' = [job EXCEPT ![p] = "exited"]
    /\ exit' = [exit EXCEPT ![p] = code]
    /\ UNCHANGED library

\* The transport accepts the operation with a callback made for it.
Accept(p) ==
    /\ pc' = [pc EXCEPT ![p] = "beginning"]
    /\ ctx' = [ctx EXCEPT ![p] = "pending"]
    /\ sync' = [sync EXCEPT ![p] = FALSE]
    /\ owed' = [owed EXCEPT ![p] = TRUE]
    /\ bs_' = [bs_ EXCEPT ![p] = 0]

\* Faulty variant: a begin operation that failed is waited for.
BeginIgnoresError(p, code) ==
    /\ pc[p] = "ready"
    /\ \/ Accept(p) /\ UNCHANGED program
       \/ pc' = [pc EXCEPT ![p] = "waiting"] /\ UNCHANGED <<ctx, sync, owed, bs_, program>>

\* Begin...: the program leaves with code if the operation is refused.
Begin(p, code) ==
    /\ pc[p] = "ready"
    /\ \/ Accept(p) /\ UNCHANGED program
       \/ Leave(p, code) /\ UNCHANGED operation

\* The begin operation returns.
BeginReturns(p) ==
    /\ pc[p] = "beginning"
    /\ pc' = [pc EXCEPT ![p] = "waiting"]
    /\ UNCHANGED <<ctx, sync, owed, bs_, program, listening, note, request, aborted>>

\* Faulty variant: the semaphore is not waited for.
WaitNot(p) ==
    /\ pc[p] = "waiting"
    /\ pc' = [pc EXCEPT ![p] = "ending"]
    /\ UNCHANGED <<ctx, sync, owed, bs_, program, listening, note, request, aborted>>

\* waitable_callback::Wait.
Wait(p) ==
    /\ pc[p] = "waiting"
    /\ bs_[p] > 0
    /\ bs_' = [bs_ EXCEPT ![p] = @ - 1]
    /\ pc' = [pc EXCEPT ![p] = "ending"]
    /\ UNCHANGED <<ctx, sync, owed, program, listening, note, request, aborted>>

\* End...: the next operation has a callback and a context of its own.
End(p) ==
    /\ pc[p] = "ending"
    /\ pc' = [pc EXCEPT ![p] = "ready"]
    /\ UNCHANGED <<ctx, sync, owed, bs_, listening, note, request>>

(***************************************************************************)
(* The server's main().                                                    *)
(***************************************************************************)

CreateListener ==
    /\ job[Server] = "create"
    /\ Goto(Server, "open") \/ Leave(Server, "failure")
    /\ UNCHANGED <<operation, listening, note, request, aborted>>

BeginOpenListener ==
    /\ job[Server] = "open"
    /\ Begin(Server, "failure")
    /\ UNCHANGED <<listening, note, request, aborted>>

EndOpenListener ==
    /\ job[Server] = "open"
    /\ End(Server)
    /\ IF ctx[Server] = "ok" THEN Goto(Server, "sleep") ELSE Leave(Server, "failure")
    /\ UNCHANGED aborted

\* sleep_for is over.
WakeUp ==
    /\ job[Server] = "sleep"
    /\ Goto(Server, "close")
    /\ UNCHANGED <<operation, listening, note, request, aborted>>

BeginCloseListener ==
    /\ job[Server] = "close"
    /\ Begin(Server, "failure")
    /\ UNCHANGED <<listening, note, request, aborted>>

EndCloseListener ==
    /\ job[Server] = "close"
    /\ End(Server)
    /\ Leave(Server, IF ctx[Server] = "ok" THEN "success" ELSE "failure")
    /\ UNCHANGED aborted

ServerMain ==
    \/ CreateListener \/ BeginOpenListener \/ EndOpenListener \/ WakeUp
    \/ BeginCloseListener \/ EndCloseListener
    \/ BeginReturns(Server) \/ Wait(Server)

(***************************************************************************)
(* A client's main().                                                      *)
(***************************************************************************)

CreateClient(c) ==
    /\ job[c] = "create"
    /\ Goto(c, "open") \/ Leave(c, "failure")
    /\ UNCHANGED <<operation, listening, note, request, aborted>>

BeginOpenClient(c) ==
    /\ job[c] = "open"
    /\ Begin(c, "failure")
    /\ UNCHANGED <<listening, note, request, aborted>>

\* Faulty variant: what EndOpen returns is not looked at.
OpenResultIgnored(c) == Goto(c, "request")

\* Both libraries give up if the connection cannot be opened.
OpenResult(c) ==
    IF ctx[c] = "ok" THEN Goto(c, "request") ELSE Leave(c, "failure")

EndOpenClient(c) ==
    /\ library[c] = "v1" /\ job[c] = "open"
    /\ End(c)
    /\ OpenResult(c)
    /\ UNCHANGED aborted

AssertionFails(c) == ctx[c] \notin Completed \/ ~sync[c]

\* basic_client_connection::open asserts that the context is completed and that
\* it completed synchronously, before it calls EndOpen.  A failing assertion
\* ends the process; a build without assertions goes on.
EndOpenConnection(c) ==
    /\ library[c] = "v2" /\ job[c] = "open"
    /\ End(c)
    /\ \/ OpenResult(c) /\ aborted' = (aborted \/ AssertionFails(c))
       \/ AssertionFails(c) /\ Leave(c, "failure") /\ aborted' = TRUE

\* The transport takes the request with timeout budget'[c], or refuses it.
SendRequest(c, code) ==
    /\ job[c] = "request"
    /\ Begin(c, code)
    /\ stage' = [stage EXCEPT ![c] = IF pc'[c] = "beginning" THEN "sent" ELSE @]
    /\ UNCHANGED <<listening, note, ran, aborted>>

\* ExecClientBegin: the request is serialized on the caller's time.
BeginSayHelloClient(c) ==
    /\ library[c] = "v1"
    /\ SendRequest(c, "failure")
    /\ \E ms \in Elapsed : Spend(c, Timeout, ms)

\* async_req_op passes a fixed timeout; client2 only prints what went wrong.
SayHelloConnection(c) ==
    /\ library[c] = "v2"
    /\ SendRequest(c, "success")
    /\ Spend(c, Timeout, 0)

\* Faulty variant: the client goes on to print whatever the reply is.
EndSayHelloIgnoresError(c) ==
    /\ job[c] = "request"
    /\ End(c)
    /\ Leave(c, "success")
    /\ UNCHANGED aborted

EndSayHelloClient(c) ==
    /\ job[c] = "request"
    /\ End(c)
    /\ Leave(c, IF ctx[c] = "ok" \/ library[c] = "v2" THEN "success" ELSE "failure")
    /\ UNCHANGED aborted

ClientMain(c) ==
    \/ CreateClient(c) \/ BeginOpenClient(c) \/ EndOpenClient(c) \/ EndOpenConnection(c)
    \/ BeginSayHelloClient(c) \/ SayHelloConnection(c) \/ EndSayHelloClient(c)
    \/ BeginReturns(c) \/ Wait(c)

(***************************************************************************)
(* The transport (external) completes what it accepted and then invokes    *)
(* the callback.  Opens and requests have timeouts, so an error can come   *)
(* at any time.                                                            *)
(***************************************************************************)

Listening == listening /\ job[Server] # "exited"

Complete(p, code) ==
    /\ ctx[p] = "pending"
    /\ ctx' = [ctx EXCEPT ![p] = code]
    /\ sync' = [sync EXCEPT ![p] = pc[p] = "beginning"]
    /\ UNCHANGED <<pc, owed, bs_, program, note, request, aborted>>

CompleteListener(code) ==
    /\ Complete(Server, code)
    /\ listening' = IF code = "ok" THEN job[Server] = "open" ELSE listening

\* A client is connected once the server's handler has ended the report.
CompleteOpen(c, code) ==
    /\ job[c] = "open"
    /\ code = "ok" => Listening /\ note[<<c, "connect">>] = "ended"
    /\ Complete(c, code)
    /\ UNCHANGED listening

CompleteRequest(c, code) ==
    /\ job[c] = "request"
    /\ code = "ok" => stage[c] = "answered"
    /\ Complete(c, code)
    /\ UNCHANGED listening

\* Faulty variant: the semaphore is released twice.
InvokeTwice(p) ==
    /\ owed[p] /\ ctx[p] \in Completed
    /\ bs_' = [bs_ EXCEPT ![p] = @ + 2]
    /\ owed' = [owed EXCEPT ![p] = FALSE]
    /\ UNCHANGED <<pc, ctx, sync, program, listening, note, request, aborted>>

\* waitable_callback::Invoke.
Invoke(p) ==
    /\ owed[p] /\ ctx[p] \in Completed
    /\ bs_' = [bs_ EXCEPT ![p] = @ + 1]
    /\ owed' = [owed EXCEPT ![p] = FALSE]
    /\ UNCHANGED <<pc, ctx, sync, program, listening, note, request, aborted>>

TransportOf(p) ==
    \/ \E code \in Completed :
          IF p = Server THEN CompleteListener(code)
          ELSE CompleteOpen(p, code) \/ CompleteRequest(p, code)
    \/ Invoke(p)

(***************************************************************************)
(* The server's handlers, on the transport's threads.                      *)
(***************************************************************************)

Report(n, from, to) ==
    /\ Listening
    /\ note[n] = from
    /\ note' = [note EXCEPT ![n] = to]
    /\ UNCHANGED <<program, operation, listening, request, aborted>>

BeginProcessConnect(c) ==
    /\ job[c] = "open" /\ ctx[c] = "pending"
    /\ Report(<<c, "connect">>, "idle", "begun")

EndProcessConnect(c) == Report(<<c, "connect">>, "called", "ended")

BeginProcessDisconnect(c) ==
    /\ job[c] = "exited" /\ note[<<c, "connect">>] = "ended"
    /\ Report(<<c, "disconnect">>, "idle", "begun")

EndProcessDisconnect(c) == Report(<<c, "disconnect">>, "called", "ended")

\* The constructor of the context invokes the callback.
sync_async_context(n) == Report(n, "begun", "called")

Hop(c, from, to) ==
    /\ job[Server] # "exited"
    /\ stage[c] = from
    /\ stage' = [stage EXCEPT ![c] = to]
    /\ UNCHANGED <<program, operation, listening, note, aborted>>

\* FRPCRequestHandler parses the header; the transport's timeout for the
\* request is no longer than the client's.
BeginProcessRequest(c) ==
    /\ Hop(c, "sent", "routed")
    /\ \E t \in 0 .. budget[c], ms \in Elapsed : Spend(c, t, ms)
    /\ UNCHANGED ran

\* BeginOperation::Invoke parses the body.
BeginOperation(c) ==
    /\ Hop(c, "routed", "begun")
    /\ \E ms \in Elapsed : Spend(c, budget[c], ms)
    /\ UNCHANGED ran

\* The example service answers at once: its context is born completed.
BeginSayHello(c) ==
    /\ Hop(c, "begun", "called")
    /\ ran' = [ran EXCEPT ![c] = @ + 1]
    /\ UNCHANGED <<budget, spent>>

EndSayHello(c) ==
    /\ Hop(c, "called", "answered")
    /\ UNCHANGED <<budget, spent, ran>>

Reports(c) ==
    \/ BeginProcessConnect(c) \/ EndProcessConnect(c)
    \/ BeginProcessDisconnect(c) \/ EndProcessDisconnect(c)
    \/ \E n \in {c} \X {"connect", "disconnect"} : sync_async_context(n)

Handling(c) == BeginProcessRequest(c) \/ BeginOperation(c) \/ BeginSayHello(c) \/ EndSayHello(c)

(***************************************************************************)
(* Specification.                                                          *)
(***************************************************************************)

Next ==
    \/ ServerMain
    \/ \E c \in Clients : ClientMain(c) \/ Reports(c) \/ Handling(c)
    \/ \E p \in Procs : TransportOf(p)

Spec == Init /\ [][Next]_vars

\* The programs' threads run and the transport completes what it accepted;
\* nothing is assumed of the server's handlers.
FairSpec ==
    /\ Spec
    /\ WF_vars(ServerMain)
    /\ \A c \in Clients : WF_vars(ClientMain(c))
    /\ \A p \in Procs : WF_vars(TransportOf(p))

(***************************************************************************)
(* Properties.                                                             *)
(***************************************************************************)

\* Types; bs_ is a binary semaphore, of which a second release is undefined.
TypeOK ==
    /\ library \in [Clients -> {"v1", "v2"}]
    /\ job \in [Procs -> {"create", "open", "sleep", "close", "request", "exited"}]
    /\ pc \in [Procs -> {"ready", "beginning", "waiting", "ending"}]
    /\ ctx \in [Procs -> {"null", "pending"} \cup Completed]
    /\ sync \in [Procs -> BOOLEAN]
    /\ owed \in [Procs -> BOOLEAN]
    /\ bs_ \in [Procs -> 0 .. 1]
    /\ exit \in [Procs -> {"none", "success", "failure"}]
    /\ listening \in BOOLEAN
    /\ note \in [Notes -> {"idle", "begun", "called", "ended"}]
    /\ stage \in [Clients -> {"none", "sent", "routed", "begun", "called", "answered"}]
    /\ budget \in [Clients -> 0 .. DwordRange - 1]
    /\ spent \in [Clients -> Nat]
    /\ ran \in [Clients -> 0 .. 1]
    /\ aborted \in BOOLEAN

\* A program calls End... only on a completed operation whose callback has
\* run, also when the callback comes before Begin... returns; hence the
\* assertion on IsCompleted in basic_client_connection::open.
NoEarlyEnd ==
    \A p \in Procs : pc[p] = "ending" => ctx[p] \in Completed /\ ~owed[p]

\* The timeout a service is given never exceeds what is left of the client's
\* after the time client and server have counted, however long a step took:
\* the 64-bit count is compared before it is cut to 32 bits.
BudgetKept == \A c \in Clients : budget[c] > 0 => budget[c] + spent[c] <= Timeout

\* A request reaches the server only from a client whose connection the
\* server's handler has acknowledged; the connection manager of the v2 library
\* ends the process otherwise.
ConnectedFirst ==
    \A c \in Clients : stage[c] # "none" => note[<<c, "connect">>] = "ended"

\* A v1 client reports success only of a call the service ran, once, and
\* answered; and a server only if it was not listening any more.
HonestExit ==
    /\ \A c \in Clients :
          library[c] = "v1" /\ exit[c] = "success" => ran[c] = 1 /\ stage[c] = "answered"
    /\ exit[Server] = "success" => ~listening

\* Every program ends, whatever the others do and whatever fails: nobody
\* waits for a callback that does not come.
Terminates == \A p \in Procs : <>(job[p] = "exited")

=============================================================================
