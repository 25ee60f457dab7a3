-------------------------------- MODULE Wire --------------------------------
(***************************************************************************)
(* The messages of the protocol (protos/fabricrpc.proto) and the           *)
(* conversions both libraries apply to them: header serialization, status  *)
(* conversion, body chunks, and routing by url.                            *)
(*                                                                         *)
(* A blob is the function of the fields written in it.  A url is a         *)
(* sequence of name parts, so that one service name can be a prefix of     *)
(* another; a body is a sequence of bytes the transport may cut in chunks. *)
(* Headers come from one of the two libraries, so they always parse.       *)
(***************************************************************************)
EXTENDS Integers, Sequences, SequencesExt

CONSTANT Unparsable   \* bodies the receiving message type does not parse

OK == 0
UNKNOWN == 2
INVALID_ARGUMENT == 3
NOT_FOUND == 5
UNIMPLEMENTED == 12
FABRIC_TRANSPORT_ERROR == 50
MaxStatusCode == 20   \* kDoNotUseReservedForFutureExpansion...

Status(code, message) == [code |-> code, message |-> message]

(***************************************************************************)
(* Headers: proto3 does not write a field that has its default value.      *)
(***************************************************************************)

Default == [url |-> <<>>, status_code |-> 0, status_message |-> ""]

SerializeAsString(m) == [f \in {g \in DOMAIN m : m[g] # Default[g]} |-> m[f]]

ParseFromString(fields, blob) ==
    [f \in fields |-> IF f \in DOMAIN blob THEN blob[f] ELSE Default[f]]

IsEmpty(blob) == DOMAIN blob = {}

ParseStatus(blob) == ParseFromString({"status_code", "status_message"}, blob)

\* v1, through the converter that is compiled with the generated code.
SerializeRequestHeader(url) == SerializeAsString([url |-> url])

DeserializeRequestHeader(blob) == ParseFromString({"url"}, blob).url

SerializeReplyHeader(st) ==
    SerializeAsString([status_code |-> st.code, status_message |-> st.message])

\* Faulty variant: the message is not read.
DeserializeReplyCode(blob) == Status(ParseStatus(blob).status_code, "")

DeserializeReplyHeader(blob) ==
    LET h == ParseStatus(blob) IN Status(h.status_code, h.status_message)

\* v2.
request_header(url) == SerializeAsString([url |-> url])

parse_request_header(blob) == ParseFromString({"url"}, blob).url

\* Faulty variant: only the code is written.
serialize_reply_code(st) == SerializeAsString([status_code |-> st.code])

serialize_reply_header(st) ==
    SerializeAsString([status_code |-> st.code, status_message |-> st.message])

\* The v2 library checks the range of the code; absl drops the message of OK.
status_from_header(h) ==
    IF h.status_code \notin 0 .. MaxStatusCode
    THEN Status(INVALID_ARGUMENT, "unknown statuscode")
    ELSE Status(h.status_code, IF h.status_code = OK THEN "" ELSE h.status_message)

parse_reply_header(blob) == status_from_header(ParseStatus(blob))

(***************************************************************************)
(* Bodies: one blob is sent; the receiver joins whatever chunks it gets.   *)
(***************************************************************************)

Chunkings(body) ==
    {<<body>>} \cup {<<SubSeq(body, 1, k), SubSeq(body, k + 1, Len(body))>> : k \in 1 .. Len(body) - 1}

\* Faulty variant: only the first chunk is read.
FirstChunk(chunks) == Head(chunks)

get_body(chunks) == FlattenSeq(chunks)

(***************************************************************************)
(* Routing.  A service reports name(); its generated code compares the url *)
(* with "/" path "/" method for each of its methods.                       *)
(***************************************************************************)

Url(s, m) == <<"/">> \o s.path \o <<"/", m>>

\* What generator2 emits for a service of any name.
GeneratedService(path, methods) ==
    [name |-> <<"helloworld.FabricHello">>, path |-> path, methods |-> methods]

\* A service written by hand: its name is the first part of its routes.
OwnService(path, methods) == [name |-> path, path |-> path, methods |-> methods]

Matches(s, url) == {m \in s.methods : Url(s, m) = url}

Found(s, m) == [svc |-> s.path, method |-> m]
NotFound == [svc |-> <<>>, method |-> "none"]

\* Faulty variant: the router asks its first service only.
RouteV1FirstOnly(svcs, url) ==
    LET ms == Matches(svcs[1], url)
    IN  IF ms = {} THEN NotFound ELSE Found(svcs[1], CHOOSE m \in ms : TRUE)

\* v1, FRPCRouter::Route: the first service that knows the url.
RouteV1(svcs, url) ==
    LET knows == {i \in DOMAIN svcs : Matches(svcs[i], url) # {}}
        i == CHOOSE k \in knows : \A l \in knows : k <= l
    IN  IF knows = {} THEN NotFound
        ELSE Found(svcs[i], CHOOSE m \in Matches(svcs[i], url) : TRUE)

\* Faulty variant: the leading slash is compared with the name as well.
RouteV2KeepsSlash(svcs, url) ==
    LET named == {i \in DOMAIN svcs : IsPrefix(svcs[i].name, url)}
        i == CHOOSE k \in named : \A l \in named : k <= l
    IN  IF named = {} \/ Matches(svcs[i], url) = {} THEN NotFound
        ELSE Found(svcs[i], CHOOSE m \in Matches(svcs[i], url) : TRUE)

\* v2, middleware::execute_inner: the first service whose name is a prefix of
\* the url behind its slash decides alone.
RouteV2(svcs, url) ==
    LET named == {i \in DOMAIN svcs : IsPrefix(svcs[i].name, Tail(url))}
        i == CHOOSE k \in named : \A l \in named : k <= l
    IN  IF named = {} \/ Matches(svcs[i], url) = {} THEN NotFound
        ELSE Found(svcs[i], CHOOSE m \in Matches(svcs[i], url) : TRUE)

\* When the v2 router can tell services apart (a hypothesis of the theorems
\* about it): each is called like the first part of its routes, and no name is
\* the beginning of another one.
NamePart == STRING \ {"/"}
NamesTellApart(svcs) ==
    /\ DOMAIN svcs \subseteq Nat
    /\ \A i \in DOMAIN svcs : svcs[i].name = svcs[i].path /\ svcs[i].path \in Seq(NamePart)
    /\ \A i, j \in DOMAIN svcs : IsPrefix(svcs[i].name, svcs[j].name) => i = j
=============================================================================
