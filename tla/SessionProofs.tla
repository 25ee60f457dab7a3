--------------------------- MODULE SessionProofs ----------------------------
(***************************************************************************)
(* Proofs about Session, for any set of clients, any timeout, any          *)
(* durations and any width of a DWORD.                                     *)
(***************************************************************************)
EXTENDS Session, TLAPS

\* The request of a client has not been made.
Fresh(c) == job[c] \in {"create", "open"} \/ (job[c] = "request" /\ pc[c] = "ready")

\* Program counter, context, callback and semaphore of a process agree.
OperationOf(p) ==
    /\ ctx[p] = "pending" => owed[p]
    /\ owed[p] => bs_[p] = 0 /\ pc[p] \in {"beginning", "waiting"}
    /\ bs_[p] = 1 \/ pc[p] = "ending" => ctx[p] \in Completed /\ ~owed[p]
    /\ job[p] \in {"create", "sleep", "exited"} => pc[p] = "ready"
    /\ job[p] = "create" => ctx[p] = "null"
    /\ exit[p] # "none" => job[p] = "exited"

\* A request is sent once, over an open connection, within its timeout, and
\* succeeds only if it was answered.
RequestOf(c) ==
    /\ Fresh(c) => stage[c] = "none" /\ spent[c] = 0
    /\ ran[c] = IF stage[c] \in {"called", "answered"} THEN 1 ELSE 0
    /\ job[c] = "open" /\ ctx[c] = "ok" => note[<<c, "connect">>] = "ended"
    /\ job[c] = "request" \/ stage[c] # "none" => note[<<c, "connect">>] = "ended"
    /\ job[c] = "request" /\ pc[c] # "ready" /\ ctx[c] = "ok" => stage[c] = "answered"
    /\ budget[c] > 0 => budget[c] + spent[c] <= Timeout
    /\ library[c] = "v1" /\ exit[c] = "success" => stage[c] = "answered"

\* A listener that was closed does not listen.
ListenerInv ==
    /\ job[Server] = "close" /\ pc[Server] # "ready" /\ ctx[Server] = "ok" => ~listening
    /\ exit[Server] = "success" => ~listening

SInv ==
    /\ TypeOK /\ ListenerInv
    /\ \A p \in Procs : OperationOf(p)
    /\ \A c \in Clients : RequestOf(c)

(***************************************************************************)
(* Timeouts.                                                               *)
(***************************************************************************)

\* A duration below the timeout is not cut by the conversion to a DWORD.
LEMMA DwordOfShort ==
    ASSUME NEW ms \in Nat, ms < DwordRange
    PROVE  Dword(ms) = ms
BY TimeAssumption DEF Dword

\* What is left is no more than the timeout, and if anything is left, the
\* duration fits in what is missing.
LEMMA LeftBound ==
    ASSUME NEW t \in 0 .. DwordRange - 1, NEW ms \in Nat
    PROVE  /\ Left(t, ms) \in 0 .. t
           /\ Left(t, ms) > 0 => Left(t, ms) + ms <= t
<1>1. CASE t > ms
  <2>1. Dword(ms) = ms
    BY <1>1, DwordOfShort, TimeAssumption
  <2> QED BY <1>1, <2>1 DEF Left
<1>2. CASE ~(t > ms)
  BY <1>2 DEF Left
<1> QED BY <1>1, <1>2

(***************************************************************************)
(* The inductive invariant.                                                *)
(***************************************************************************)

LEMMA Names ==
    /\ Server \in Procs /\ Clients \subseteq Procs
    /\ \A p \in Procs : p # Server => p \in Clients
    /\ \A c \in Clients : c # Server
    /\ \A c \in Clients : <<c, "connect">> \in Notes
BY ProgramAssumption DEF Procs, Notes

LEMMA SInit == Init => SInv
<1> SUFFICES ASSUME Init PROVE SInv
  OBVIOUS
<1>1. TypeOK
  <2>1. budget \in [Clients -> 0 .. DwordRange - 1] /\ spent \in [Clients -> Nat]
    BY TimeAssumption DEF Init
  <2>2. ran \in [Clients -> 0 .. 1] /\ bs_ \in [Procs -> 0 .. 1]
    BY DEF Init
  <2>3. /\ library \in [Clients -> {"v1", "v2"}]
        /\ job \in [Procs -> {"create", "open", "sleep", "close", "request", "exited"}]
        /\ pc \in [Procs -> {"ready", "beginning", "waiting", "ending"}]
        /\ ctx \in [Procs -> {"null", "pending"} \cup Completed]
        /\ exit \in [Procs -> {"none", "success", "failure"}]
        /\ note \in [Notes -> {"idle", "begun", "called", "ended"}]
        /\ stage \in [Clients -> {"none", "sent", "routed", "begun", "called", "answered"}]
    BY DEF Init
  <2>4. /\ sync \in [Procs -> BOOLEAN] /\ owed \in [Procs -> BOOLEAN]
        /\ listening \in BOOLEAN /\ aborted \in BOOLEAN
    BY Zenon DEF Init
  <2> QED BY <2>1, <2>2, <2>3, <2>4 DEF TypeOK
<1>2. \A p \in Procs : OperationOf(p)
  BY DEF Init, OperationOf
<1>3. \A c \in Clients : RequestOf(c)
  <2> SUFFICES ASSUME NEW c \in Clients PROVE RequestOf(c)
    OBVIOUS
  <2>1. /\ job[c] = "create" /\ exit[c] = "none" /\ stage[c] = "none"
        /\ budget[c] = 0 /\ spent[c] = 0 /\ ran[c] = 0
    BY Names DEF Init
  <2> QED BY <2>1 DEF RequestOf, Fresh
<1>4. ListenerInv
  BY Names DEF Init, ListenerInv
<1> QED BY <1>1, <1>2, <1>3, <1>4 DEF SInv

\* What a step of process q leaves alone.
OthersKept(q) ==
    /\ \A p \in Procs : p # q =>
          /\ job'[p] = job[p] /\ pc'[p] = pc[p] /\ ctx'[p] = ctx[p]
          /\ owed'[p] = owed[p] /\ bs_'[p] = bs_[p] /\ exit'[p] = exit[p]
    /\ \A c \in Clients : c # q =>
          /\ stage'[c] = stage[c] /\ budget'[c] = budget[c] /\ spent'[c] = spent[c]
          /\ ran'[c] = ran[c] /\ note'[<<c, "connect">>] = note[<<c, "connect">>]
    /\ library' = library

LEMMA OthersKeep ==
    ASSUME SInv, NEW q \in Procs, OthersKept(q)
    PROVE  /\ \A p \in Procs : p # q => OperationOf(p)'
           /\ \A c \in Clients : c # q => RequestOf(c)'
<1>1. ASSUME NEW p \in Procs, p # q PROVE OperationOf(p)'
  BY <1>1 DEF SInv, OthersKept, OperationOf
<1>2. ASSUME NEW c \in Clients, c # q PROVE RequestOf(c)'
  BY <1>2, Names DEF SInv, OthersKept, RequestOf, Fresh
<1> QED BY <1>1, <1>2

\* It suffices to look at the client that takes the step.
LEMMA ClientSuffices ==
    ASSUME SInv, NEW c \in Clients, OthersKept(c), TypeOK',
           listening' = listening, OperationOf(c)', RequestOf(c)'
    PROVE  SInv'
<1>1. ListenerInv'
  BY Names DEF SInv, OthersKept, ListenerInv
<1> QED BY <1>1, OthersKeep, Names DEF SInv

LEMMA ServerSuffices ==
    ASSUME SInv, OthersKept(Server), TypeOK', OperationOf(Server)', ListenerInv'
    PROVE  SInv'
BY OthersKeep, Names DEF SInv

\* The part of the type invariant that main() and its operations change.
ProgramTypes ==
    /\ library \in [Clients -> {"v1", "v2"}]
    /\ job \in [Procs -> {"create", "open", "sleep", "close", "request", "exited"}]
    /\ pc \in [Procs -> {"ready", "beginning", "waiting", "ending"}]
    /\ ctx \in [Procs -> {"null", "pending"} \cup Completed]
    /\ sync \in [Procs -> BOOLEAN]
    /\ owed \in [Procs -> BOOLEAN]
    /\ bs_ \in [Procs -> 0 .. 1]
    /\ exit \in [Procs -> {"none", "success", "failure"}]

\* A begin operation is accepted, or refused and the program leaves.
LEMMA BeginEffect ==
    ASSUME SInv, NEW p \in Procs, job[p] \in {"open", "close", "request"},
           NEW code \in {"success", "failure"}, Begin(p, code)
    PROVE  /\ ProgramTypes'
           /\ library' = library
           /\ \A q \in Procs : q # p =>
                /\ job'[q] = job[q] /\ pc'[q] = pc[q] /\ ctx'[q] = ctx[q]
                /\ owed'[q] = owed[q] /\ bs_'[q] = bs_[q] /\ exit'[q] = exit[q]
           /\ OperationOf(p)'
           /\ \/ /\ pc'[p] = "beginning" /\ ctx'[p] = "pending"
                 /\ job'[p] = job[p] /\ exit'[p] = exit[p]
              \/ /\ pc'[p] = "ready" /\ ctx'[p] = ctx[p]
                 /\ job'[p] = "exited" /\ exit'[p] = code
<1> USE DEF SInv, TypeOK
<1>1. CASE Accept(p) /\ UNCHANGED program
  <2>1. /\ library' = library /\ job' = job /\ exit' = exit
        /\ pc' = [pc EXCEPT ![p] = "beginning"] /\ ctx' = [ctx EXCEPT ![p] = "pending"]
        /\ sync' = [sync EXCEPT ![p] = FALSE]
        /\ owed' = [owed EXCEPT ![p] = TRUE] /\ bs_' = [bs_ EXCEPT ![p] = 0]
    BY <1>1 DEF Accept, program
  <2>2. ProgramTypes'
    BY <2>1 DEF ProgramTypes
  <2>3. OperationOf(p)'
    <3>1. owed'[p] /\ bs_'[p] = 0 /\ pc'[p] = "beginning" /\ ctx'[p] = "pending"
      BY <2>1
    <3>2. job'[p] = job[p] /\ exit'[p] = exit[p]
      BY <2>1
    <3> QED BY <3>1, <3>2 DEF OperationOf
  <2> QED BY <2>1, <2>2, <2>3
<1>2. CASE Leave(p, code) /\ UNCHANGED operation
  BY <1>2 DEF Begin, Leave, operation, ProgramTypes, OperationOf, Completed
<1> QED BY <1>1, <1>2 DEF Begin

(***************************************************************************)
(* The server's main().                                                    *)
(***************************************************************************)

LEMMA CreateListenerKeeps == SInv /\ CreateListener => SInv'
<1> SUFFICES ASSUME SInv, CreateListener PROVE SInv'
  OBVIOUS
<1> USE Names DEF SInv, CreateListener, Goto, Leave, operation, request
<1>1. TypeOK' /\ OthersKept(Server)
  BY DEF TypeOK, OthersKept
<1>2. OperationOf(Server)' /\ ListenerInv'
  BY DEF TypeOK, OperationOf, ListenerInv
<1> QED BY <1>1, <1>2, ServerSuffices

LEMMA WakeUpKeeps == SInv /\ WakeUp => SInv'
<1> SUFFICES ASSUME SInv, WakeUp PROVE SInv'
  OBVIOUS
<1> USE Names DEF SInv, WakeUp, Goto, operation, request
<1>1. TypeOK' /\ OthersKept(Server)
  BY DEF TypeOK, OthersKept
<1>2. OperationOf(Server)' /\ ListenerInv'
  BY DEF TypeOK, OperationOf, ListenerInv
<1> QED BY <1>1, <1>2, ServerSuffices

LEMMA BeginListenerKeeps == SInv /\ (BeginOpenListener \/ BeginCloseListener) => SInv'
<1> SUFFICES ASSUME SInv, BeginOpenListener \/ BeginCloseListener PROVE SInv'
  OBVIOUS
<1>1. /\ job[Server] \in {"open", "close", "request"} /\ Begin(Server, "failure")
      /\ UNCHANGED <<listening, note, stage, budget, spent, ran, aborted>>
  BY DEF BeginOpenListener, BeginCloseListener, request
<1> USE <1>1, BeginEffect, Names DEF SInv
<1>2. TypeOK' /\ OthersKept(Server)
  BY DEF TypeOK, ProgramTypes, OthersKept
<1>3. OperationOf(Server)' /\ ListenerInv'
  BY DEF OperationOf, ListenerInv
<1> QED BY <1>2, <1>3, ServerSuffices

LEMMA EndOpenListenerKeeps == SInv /\ EndOpenListener => SInv'
<1> SUFFICES ASSUME SInv, EndOpenListener PROVE SInv'
  OBVIOUS
<1> USE Names DEF SInv, EndOpenListener, End, Goto, Leave, request
<1>1. TypeOK' /\ OthersKept(Server)
  BY DEF TypeOK, OthersKept
<1>2. OperationOf(Server)' /\ ListenerInv'
  BY DEF TypeOK, OperationOf, ListenerInv
<1> QED BY <1>1, <1>2, ServerSuffices

LEMMA EndCloseListenerKeeps == SInv /\ EndCloseListener => SInv'
<1> SUFFICES ASSUME SInv, EndCloseListener PROVE SInv'
  OBVIOUS
<1> USE Names DEF SInv, EndCloseListener, End, Leave, request
<1>1. TypeOK' /\ OthersKept(Server)
  BY DEF TypeOK, OthersKept
<1>2. OperationOf(Server)' /\ ListenerInv'
  BY DEF TypeOK, OperationOf, ListenerInv
<1> QED BY <1>1, <1>2, ServerSuffices

(***************************************************************************)
(* A client's main().                                                      *)
(***************************************************************************)

LEMMA CreateClientKeeps ==
    ASSUME SInv, NEW c \in Clients, CreateClient(c)
    PROVE  SInv'
<1> USE Names DEF SInv, CreateClient, Goto, Leave, operation, request
<1>1. TypeOK' /\ OthersKept(c) /\ listening' = listening
  BY DEF TypeOK, OthersKept, OperationOf
<1>2. OperationOf(c)'
  BY DEF TypeOK, OperationOf
<1>3. RequestOf(c)'
  <2>1. \/ job'[c] = "open" /\ exit'[c] = exit[c]
        \/ job'[c] = "exited" /\ exit'[c] = "failure"
    BY DEF TypeOK
  <2> QED BY <2>1 DEF TypeOK, RequestOf, Fresh, OperationOf
<1> QED BY <1>1, <1>2, <1>3, ClientSuffices

LEMMA BeginOpenClientKeeps ==
    ASSUME SInv, NEW c \in Clients, BeginOpenClient(c)
    PROVE  SInv'
<1>1. /\ job[c] = "open" /\ Begin(c, "failure")
      /\ UNCHANGED <<listening, note, stage, budget, spent, ran, aborted>>
  BY DEF BeginOpenClient, request
<1> USE <1>1, BeginEffect, Names DEF SInv
<1>2. TypeOK' /\ OthersKept(c) /\ listening' = listening
  BY DEF TypeOK, ProgramTypes, OthersKept
<1>3. OperationOf(c)'
  OBVIOUS
<1>4. RequestOf(c)'
  BY DEF RequestOf, Fresh
<1> QED BY <1>2, <1>3, <1>4, ClientSuffices

\* The client goes on to its request, on an open connection, or leaves.
LEMMA EndOpenEffect ==
    ASSUME SInv, NEW c \in Clients, EndOpenClient(c) \/ EndOpenConnection(c)
    PROVE  /\ job[c] = "open" /\ aborted' \in BOOLEAN
           /\ End(c)
           /\ \/ ctx[c] = "ok" /\ Goto(c, "request")
              \/ Leave(c, "failure")
<1>1. aborted \in BOOLEAN
  BY DEF SInv, TypeOK
<1>2. aborted' \in BOOLEAN
  BY <1>1, Zenon DEF EndOpenClient, EndOpenConnection
<1>3. OpenResult(c) \/ Leave(c, "failure")
  BY DEF EndOpenClient, EndOpenConnection
<1> QED BY <1>2, <1>3 DEF EndOpenClient, EndOpenConnection, OpenResult

LEMMA EndOpenClientKeeps ==
    ASSUME SInv, NEW c \in Clients, EndOpenClient(c) \/ EndOpenConnection(c)
    PROVE  SInv'
<1> USE EndOpenEffect, Names DEF SInv, End, Goto, Leave, request
<1>1. TypeOK' /\ OthersKept(c) /\ listening' = listening
  BY DEF TypeOK, OthersKept, OperationOf
<1>2. OperationOf(c)'
  BY DEF TypeOK, OperationOf
<1>3. RequestOf(c)'
  BY DEF TypeOK, RequestOf, Fresh, OperationOf
<1> QED BY <1>1, <1>2, <1>3, ClientSuffices

\* The client's own hop: what is left of Timeout after ms.
LEMMA SpendTimeout ==
    ASSUME SInv, NEW c \in Clients, NEW ms \in Nat, spent[c] = 0, Spend(c, Timeout, ms)
    PROVE  /\ budget' \in [Clients -> 0 .. DwordRange - 1] /\ spent' \in [Clients -> Nat]
           /\ budget'[c] > 0 => budget'[c] + spent'[c] <= Timeout
           /\ \A d \in Clients : d # c => budget'[d] = budget[d] /\ spent'[d] = spent[d]
<1>1. Left(Timeout, ms) \in 0 .. DwordRange - 1
  BY LeftBound, TimeAssumption
<1>2. Left(Timeout, ms) > 0 => Left(Timeout, ms) + ms <= Timeout
  BY LeftBound, TimeAssumption
<1> HIDE DEF Left
<1> QED BY <1>1, <1>2 DEF Spend, SInv, TypeOK

\* A hop of the server: what is left of a part of the budget after ms.
LEMMA SpendBudget ==
    ASSUME SInv, NEW c \in Clients, NEW ms \in Nat, NEW t \in 0 .. budget[c], Spend(c, t, ms)
    PROVE  /\ budget' \in [Clients -> 0 .. DwordRange - 1] /\ spent' \in [Clients -> Nat]
           /\ budget'[c] > 0 => budget'[c] + spent'[c] <= Timeout
           /\ \A d \in Clients : d # c => budget'[d] = budget[d] /\ spent'[d] = spent[d]
<1>1. budget[c] \in 0 .. DwordRange - 1 /\ spent[c] \in Nat
  BY DEF SInv, TypeOK
<1>2. t \in 0 .. DwordRange - 1 /\ t <= budget[c]
  BY <1>1, TimeAssumption
<1>3. Left(t, ms) \in 0 .. t /\ (Left(t, ms) > 0 => Left(t, ms) + ms <= t)
  BY <1>2, LeftBound
<1>4. budget[c] > 0 => budget[c] + spent[c] <= Timeout
  BY DEF SInv, RequestOf
<1>5. budget'[c] = Left(t, ms) /\ spent'[c] = spent[c] + ms
  BY DEF Spend, SInv, TypeOK
<1>6. budget'[c] > 0 => budget'[c] + spent'[c] <= Timeout
  BY <1>1, <1>2, <1>3, <1>4, <1>5, TimeAssumption
<1>7. Left(t, ms) \in 0 .. DwordRange - 1
  BY <1>2, <1>3, TimeAssumption
<1> QED BY <1>6, <1>7 DEF Spend, SInv, TypeOK

LEMMA SendRequestKeeps ==
    ASSUME SInv, NEW c \in Clients, BeginSayHelloClient(c) \/ SayHelloConnection(c)
    PROVE  SInv'
<1>1. /\ job[c] = "request" /\ pc[c] = "ready" /\ spent[c] = 0 /\ stage[c] = "none"
      /\ note[<<c, "connect">>] = "ended"
  BY DEF BeginSayHelloClient, SayHelloConnection, SendRequest, Begin, SInv, RequestOf, Fresh
<1>2. PICK ms \in Nat : Spend(c, Timeout, ms)
  BY TimeAssumption DEF BeginSayHelloClient, SayHelloConnection
<1>3. PICK code \in {"success", "failure"} :
         SendRequest(c, code) /\ (library[c] = "v2" \/ code = "failure")
  BY DEF BeginSayHelloClient, SayHelloConnection
<1>4. /\ Begin(c, code)
      /\ stage' = [stage EXCEPT ![c] = IF pc'[c] = "beginning" THEN "sent" ELSE @]
      /\ UNCHANGED <<listening, note, ran, aborted>>
  BY <1>3 DEF SendRequest
<1>5. /\ budget' \in [Clients -> 0 .. DwordRange - 1] /\ spent' \in [Clients -> Nat]
      /\ budget'[c] > 0 => budget'[c] + spent'[c] <= Timeout
      /\ \A d \in Clients : d # c => budget'[d] = budget[d] /\ spent'[d] = spent[d]
  BY <1>1, <1>2, SpendTimeout
<1>6. TypeOK' /\ OthersKept(c) /\ listening' = listening
  <2>1. /\ ProgramTypes' /\ library' = library
        /\ \A q \in Procs : q # c =>
             /\ job'[q] = job[q] /\ pc'[q] = pc[q] /\ ctx'[q] = ctx[q]
             /\ owed'[q] = owed[q] /\ bs_'[q] = bs_[q] /\ exit'[q] = exit[q]
    BY <1>1, <1>4, BeginEffect, Names
  <2>2. stage' \in [Clients -> {"none", "sent", "routed", "begun", "called", "answered"}]
    BY <1>4 DEF SInv, TypeOK
  <2>3. \A d \in Clients : d # c => stage'[d] = stage[d]
    BY <1>4 DEF SInv, TypeOK
  <2>4. TypeOK'
    BY <1>4, <1>5, <2>1, <2>2 DEF SInv, TypeOK, ProgramTypes
  <2>5. OthersKept(c)
    BY <1>4, <1>5, <2>1, <2>3 DEF OthersKept
  <2> QED BY <1>4, <2>4, <2>5 DEF SInv
<1>7. OperationOf(c)'
  BY <1>1, <1>4, BeginEffect, Names
<1>8. RequestOf(c)'
  BY <1>1, <1>3, <1>4, <1>5, BeginEffect, Names DEF SInv, TypeOK, RequestOf, Fresh, OperationOf
<1> QED BY <1>6, <1>7, <1>8, ClientSuffices

LEMMA EndSayHelloClientKeeps ==
    ASSUME SInv, NEW c \in Clients, EndSayHelloClient(c)
    PROVE  SInv'
<1> USE Names DEF SInv, EndSayHelloClient, End, Leave, request
<1>1. TypeOK' /\ OthersKept(c) /\ listening' = listening
  BY DEF TypeOK, OthersKept, OperationOf
<1>2. OperationOf(c)'
  BY DEF TypeOK, OperationOf
<1>3. RequestOf(c)'
  BY DEF TypeOK, RequestOf, Fresh, OperationOf
<1> QED BY <1>1, <1>2, <1>3, ClientSuffices

(***************************************************************************)
(* What clients and server do alike, and the transport.                    *)
(***************************************************************************)

LEMMA WaitKeeps ==
    ASSUME SInv, NEW p \in Procs, BeginReturns(p) \/ Wait(p) \/ Invoke(p)
    PROVE  SInv'
<1>1. /\ UNCHANGED <<ctx, sync, library, job, exit, listening, note, stage, budget, spent, ran, aborted>>
      /\ pc[p] = "ready" <=> pc'[p] = "ready"
  BY DEF BeginReturns, Wait, Invoke, SInv, TypeOK, program, request
<1>2. /\ pc' \in [Procs -> {"ready", "beginning", "waiting", "ending"}]
      /\ owed' \in [Procs -> BOOLEAN] /\ bs_' \in [Procs -> 0 .. 1]
      /\ \A q \in Procs : q # p => pc'[q] = pc[q] /\ owed'[q] = owed[q] /\ bs_'[q] = bs_[q]
      /\ OperationOf(p)'
  <2> USE <1>1 DEF SInv, TypeOK
  <2>1. CASE BeginReturns(p)
    BY <2>1 DEF BeginReturns, OperationOf
  <2>2. CASE Wait(p)
    BY <2>2 DEF Wait, OperationOf
  <2>3. CASE Invoke(p)
    <3>1. owed[p] /\ bs_[p] = 0
      BY <2>3 DEF Invoke, OperationOf
    <3>2. /\ ctx[p] \in Completed /\ pc' = pc
          /\ bs_' = [bs_ EXCEPT ![p] = 1] /\ owed' = [owed EXCEPT ![p] = FALSE]
      BY <2>3, <3>1 DEF Invoke
    <3>3. bs_' \in [Procs -> 0 .. 1] /\ owed' \in [Procs -> BOOLEAN]
      BY <3>2
    <3>4. bs_'[p] = 1 /\ ~owed'[p]
      BY <3>2
    <3>5. OperationOf(p)'
      BY <1>1, <3>1, <3>2, <3>4 DEF OperationOf, Completed
    <3> QED BY <3>2, <3>3, <3>5
  <2> QED BY <2>1, <2>2, <2>3
<1>3. TypeOK' /\ OthersKept(p) /\ OperationOf(p)'
  BY <1>1, <1>2 DEF SInv, TypeOK, OthersKept
<1>4. CASE p = Server
  <2>1. ListenerInv'
    BY <1>1, <1>4 DEF SInv, ListenerInv
  <2> QED BY <1>3, <1>4, <2>1, ServerSuffices
<1>5. CASE p \in Clients
  <2>1. RequestOf(p)' /\ listening' = listening
    BY <1>1, <1>5 DEF SInv, RequestOf, Fresh
  <2> QED BY <1>3, <1>5, <2>1, ClientSuffices
<1> QED BY <1>4, <1>5, Names

\* The context of p completes with code, and nothing else happens to programs
\* and requests.
CompleteEffect(p, code) ==
    /\ ctx[p] = "pending" /\ ctx' = [ctx EXCEPT ![p] = code]
    /\ sync' = [sync EXCEPT ![p] = pc[p] = "beginning"]
    /\ UNCHANGED <<library, job, exit, pc, owed, bs_, note, stage, budget, spent, ran, aborted>>

LEMMA CompleteTypes ==
    ASSUME SInv, NEW p \in Procs, NEW code \in Completed, CompleteEffect(p, code)
    PROVE  ctx' \in [Procs -> {"null", "pending"} \cup Completed] /\ sync' \in [Procs -> BOOLEAN]
<1>1. ctx' \in [Procs -> {"null", "pending"} \cup Completed]
  BY DEF CompleteEffect, SInv, TypeOK
<1>2. sync \in [Procs -> BOOLEAN] /\ (pc[p] = "beginning") \in BOOLEAN
  BY DEF SInv, TypeOK
<1>3. sync' \in [Procs -> BOOLEAN]
  BY <1>2, Zenon DEF CompleteEffect
<1> QED BY <1>1, <1>3

LEMMA CompleteListenerKeeps ==
    ASSUME SInv, NEW code \in Completed, CompleteListener(code)
    PROVE  SInv'
<1>1. /\ CompleteEffect(Server, code)
      /\ listening' = IF code = "ok" THEN job[Server] = "open" ELSE listening
  BY DEF CompleteListener, Complete, CompleteEffect, program, request
<1>2. listening' \in BOOLEAN
  BY <1>1, Zenon DEF SInv, TypeOK
<1>3. TypeOK'
  BY <1>1, <1>2, CompleteTypes, Names DEF CompleteEffect, SInv, TypeOK
<1>4. OthersKept(Server)
  BY <1>1, Names DEF CompleteEffect, SInv, TypeOK, OthersKept
<1>5. ctx[Server] = "pending" /\ ctx'[Server] = code
  BY <1>1, Names DEF CompleteEffect, SInv, TypeOK
<1>6. OperationOf(Server)'
  BY <1>1, <1>5, Names DEF CompleteEffect, SInv, Completed, OperationOf
<1>7. ListenerInv'
  BY <1>1, <1>5, Names DEF CompleteEffect, SInv, OperationOf, ListenerInv
<1> QED BY <1>3, <1>4, <1>6, <1>7, ServerSuffices

LEMMA CompleteOpenKeeps ==
    ASSUME SInv, NEW c \in Clients, NEW code \in Completed, CompleteOpen(c, code)
    PROVE  SInv'
<1>1. /\ job[c] = "open" /\ (code = "ok" => note[<<c, "connect">>] = "ended")
      /\ CompleteEffect(c, code) /\ listening' = listening
  BY DEF CompleteOpen, Complete, CompleteEffect, program, request
<1>2. ctx[c] = "pending" /\ ctx'[c] = code
  BY <1>1, Names DEF CompleteEffect, SInv, TypeOK
<1>3. TypeOK'
  BY <1>1, CompleteTypes, Names DEF CompleteEffect, SInv, TypeOK
<1>4. OthersKept(c)
  BY <1>1, Names DEF CompleteEffect, SInv, TypeOK, OthersKept
<1>5. OperationOf(c)'
  BY <1>1, <1>2, Names DEF CompleteEffect, SInv, OperationOf, Completed
<1>6. RequestOf(c)'
  BY <1>1, <1>2, Names DEF CompleteEffect, SInv, TypeOK, RequestOf, Fresh, OperationOf
<1> QED BY <1>1, <1>3, <1>4, <1>5, <1>6, ClientSuffices

LEMMA CompleteRequestKeeps ==
    ASSUME SInv, NEW c \in Clients, NEW code \in Completed, CompleteRequest(c, code)
    PROVE  SInv'
<1>1. /\ job[c] = "request" /\ (code = "ok" => stage[c] = "answered")
      /\ CompleteEffect(c, code) /\ listening' = listening
  BY DEF CompleteRequest, Complete, CompleteEffect, program, request
<1>2. ctx[c] = "pending" /\ ctx'[c] = code
  BY <1>1, Names DEF CompleteEffect, SInv, TypeOK
<1>3. TypeOK'
  BY <1>1, CompleteTypes, Names DEF CompleteEffect, SInv, TypeOK
<1>4. OthersKept(c)
  BY <1>1, Names DEF CompleteEffect, SInv, TypeOK, OthersKept
<1>5. OperationOf(c)'
  BY <1>1, <1>2, Names DEF CompleteEffect, SInv, OperationOf, Completed
<1>6. RequestOf(c)'
  BY <1>1, <1>2, Names DEF CompleteEffect, SInv, TypeOK, RequestOf, Fresh, OperationOf
<1> QED BY <1>1, <1>3, <1>4, <1>5, <1>6, ClientSuffices

(***************************************************************************)
(* The server's handlers.                                                  *)
(***************************************************************************)

LEMMA ReportsKeep ==
    ASSUME SInv, NEW c \in Clients, Reports(c)
    PROVE  SInv'
<1>1. PICK k \in {"connect", "disconnect"}, from \in {"idle", "begun", "called"},
           to \in {"begun", "called", "ended"} : Report(<<c, k>>, from, to)
  BY DEF Reports, BeginProcessConnect, EndProcessConnect, BeginProcessDisconnect,
         EndProcessDisconnect, sync_async_context
<1>2. <<c, k>> \in Notes
  BY DEF Notes
<1>3. /\ note[<<c, k>>] # "ended"
      /\ note' = [note EXCEPT ![<<c, k>>] = to]
      /\ UNCHANGED <<library, job, exit, pc, ctx, sync, owed, bs_, listening, stage, budget, spent, ran, aborted>>
  BY <1>1 DEF Report, program, operation, request
<1>4. TypeOK'
  BY <1>2, <1>3 DEF SInv, TypeOK
<1>5. \A d \in Clients : /\ d # c => note'[<<d, "connect">>] = note[<<d, "connect">>]
                         /\ note[<<d, "connect">>] = "ended" => note'[<<d, "connect">>] = "ended"
  BY <1>2, <1>3, Names DEF SInv, TypeOK
<1>6. OthersKept(c)
  BY <1>3, <1>5 DEF OthersKept
<1>7. OperationOf(c)' /\ RequestOf(c)'
  BY <1>3, <1>5, Names DEF SInv, OperationOf, RequestOf, Fresh
<1> QED BY <1>3, <1>4, <1>6, <1>7, ClientSuffices

LEMMA HopKeeps ==
    ASSUME SInv, NEW c \in Clients, BeginProcessRequest(c) \/ BeginOperation(c)
    PROVE  SInv'
<1>1. PICK t \in 0 .. budget[c], ms \in Nat : Spend(c, t, ms)
  BY TimeAssumption DEF BeginProcessRequest, BeginOperation, SInv, TypeOK
<1>2. /\ budget' \in [Clients -> 0 .. DwordRange - 1] /\ spent' \in [Clients -> Nat]
      /\ budget'[c] > 0 => budget'[c] + spent'[c] <= Timeout
      /\ \A d \in Clients : d # c => budget'[d] = budget[d] /\ spent'[d] = spent[d]
  BY <1>1, SpendBudget
<1>3. PICK to \in {"routed", "begun"} :
         /\ stage[c] \in {"sent", "routed"}
         /\ stage' = [stage EXCEPT ![c] = to]
         /\ UNCHANGED <<library, job, exit, pc, ctx, sync, owed, bs_, listening, note, ran, aborted>>
  BY DEF BeginProcessRequest, BeginOperation, Hop, program, operation
<1>4. TypeOK' /\ OthersKept(c) /\ listening' = listening
  BY <1>2, <1>3, Names DEF SInv, TypeOK, OthersKept
<1>5. OperationOf(c)'
  BY <1>3, Names DEF SInv, OperationOf
<1>6. RequestOf(c)'
  BY <1>2, <1>3, Names DEF SInv, TypeOK, RequestOf, Fresh
<1> QED BY <1>4, <1>5, <1>6, ClientSuffices

LEMMA SayHelloKeeps ==
    ASSUME SInv, NEW c \in Clients, BeginSayHello(c) \/ EndSayHello(c)
    PROVE  SInv'
<1>1. /\ ran[c] = IF stage[c] \in {"called", "answered"} THEN 1 ELSE 0
      /\ UNCHANGED <<library, job, exit, pc, ctx, sync, owed, bs_, listening, note, budget, spent, aborted>>
      /\ \/ /\ stage[c] = "begun" /\ stage' = [stage EXCEPT ![c] = "called"]
            /\ ran' = [ran EXCEPT ![c] = @ + 1]
         \/ /\ stage[c] = "called" /\ stage' = [stage EXCEPT ![c] = "answered"]
            /\ ran' = ran
  BY DEF BeginSayHello, EndSayHello, Hop, program, operation, SInv, RequestOf
<1>2. TypeOK' /\ OthersKept(c) /\ listening' = listening
  BY <1>1, Names DEF SInv, TypeOK, OthersKept
<1>3. OperationOf(c)'
  BY <1>1, Names DEF SInv, OperationOf
<1>4. RequestOf(c)'
  BY <1>1, Names DEF SInv, TypeOK, RequestOf, Fresh
<1> QED BY <1>2, <1>3, <1>4, ClientSuffices

(***************************************************************************)
(* Theorems.                                                               *)
(***************************************************************************)

LEMMA SNext == SInv /\ [Next]_vars => SInv'
<1> SUFFICES ASSUME SInv, [Next]_vars PROVE SInv'
  OBVIOUS
<1>1. CASE UNCHANGED vars
  BY <1>1 DEF vars, program, operation, request, SInv, TypeOK, OperationOf, RequestOf, Fresh,
              ListenerInv
<1>2. CASE ServerMain
  BY <1>2, Names, CreateListenerKeeps, WakeUpKeeps, BeginListenerKeeps, EndOpenListenerKeeps,
     EndCloseListenerKeeps, WaitKeeps DEF ServerMain
<1>3. ASSUME NEW c \in Clients, ClientMain(c) PROVE SInv'
  BY <1>3, Names, CreateClientKeeps, BeginOpenClientKeeps, EndOpenClientKeeps,
     SendRequestKeeps, EndSayHelloClientKeeps, WaitKeeps DEF ClientMain
<1>4. ASSUME NEW c \in Clients, Reports(c) \/ Handling(c) PROVE SInv'
  BY <1>4, ReportsKeep, HopKeeps, SayHelloKeeps DEF Handling
<1>5. ASSUME NEW p \in Procs, TransportOf(p) PROVE SInv'
  BY <1>5, Names, WaitKeeps, CompleteListenerKeeps, CompleteOpenKeeps, CompleteRequestKeeps
     DEF TransportOf
<1> QED BY <1>1, <1>2, <1>3, <1>4, <1>5 DEF Next

LEMMA SessionInvariant == Spec => []SInv
BY SInit, SNext, PTL DEF Spec

\* Every variable keeps its type; the semaphore of a waitable_callback, a
\* std::binary_semaphore, is never released twice.
THEOREM SessionTypes == Spec => []TypeOK
<1>1. SInv => TypeOK
  BY DEF SInv
<1> QED BY <1>1, SessionInvariant, PTL

\* No main() calls End... before its operation has completed and its
\* callback has run.
THEOREM SessionNoEarlyEnd == Spec => []NoEarlyEnd
<1>1. SInv => NoEarlyEnd
  BY DEF SInv, NoEarlyEnd, OperationOf
<1> QED BY <1>1, SessionInvariant, PTL

\* The timeouts handed down add up, for every width of a DWORD.
THEOREM SessionBudget == Spec => []BudgetKept
<1>1. SInv => BudgetKept
  BY DEF SInv, BudgetKept, RequestOf
<1> QED BY <1>1, SessionInvariant, PTL

\* No request reaches the server before its client's connect was acknowledged.
THEOREM SessionConnected == Spec => []ConnectedFirst
<1>1. SInv => ConnectedFirst
  BY DEF SInv, ConnectedFirst, RequestOf
<1> QED BY <1>1, SessionInvariant, PTL

\* Success that a program reports is success of what it asked for.
THEOREM SessionHonest == Spec => []HonestExit
<1>1. SInv => HonestExit
  BY DEF SInv, HonestExit, RequestOf, ListenerInv
<1> QED BY <1>1, SessionInvariant, PTL
=============================================================================
