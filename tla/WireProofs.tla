----------------------------- MODULE WireProofs -----------------------------
(***************************************************************************)
(* Proofs about the conversions of Wire: what the receiver parses is what  *)
(* the sender serialized, and a url reaches the method it names.           *)
(***************************************************************************)
EXTENDS Wire, SequenceTheorems, WellFoundedInduction, TLAPS

(***************************************************************************)
(* Headers.                                                                *)
(***************************************************************************)

\* A request header is read as it was written, by either library.
LEMMA RequestHeader ==
    ASSUME NEW url
    PROVE  /\ DeserializeRequestHeader(SerializeRequestHeader(url)) = url
           /\ DeserializeRequestHeader(request_header(url)) = url
           /\ parse_request_header(SerializeRequestHeader(url)) = url
           /\ parse_request_header(request_header(url)) = url
           /\ IsEmpty(SerializeRequestHeader(url)) <=> url = <<>>
           /\ IsEmpty(request_header(url)) <=> url = <<>>
<1> DEFINE m == [url |-> url]
           blob == SerializeAsString(m)
<1>1. DOMAIN m = {"url"} /\ m["url"] = url /\ Default["url"] = <<>>
  BY DEF Default
<1>2. blob = [f \in {g \in DOMAIN m : m[g] # Default[g]} |-> m[f]]
  BY DEF SerializeAsString
<1> HIDE DEF m, blob
<1>3. /\ "url" \in DOMAIN blob <=> url # <<>>
      /\ DOMAIN blob \subseteq {"url"}
      /\ url # <<>> => blob["url"] = url
  BY <1>1, <1>2
<1>4. ParseFromString({"url"}, blob).url = url
  BY <1>1, <1>3 DEF ParseFromString
<1>5. IsEmpty(blob) <=> url = <<>>
  BY <1>3 DEF IsEmpty
<1> QED
  BY <1>4, <1>5 DEF blob, m, DeserializeRequestHeader, SerializeRequestHeader, parse_request_header, request_header

\* Both libraries write the same reply header ...
LEMMA SameReplyHeader ==
    ASSUME NEW st
    PROVE  SerializeReplyHeader(st) = serialize_reply_header(st)
BY DEF SerializeReplyHeader, serialize_reply_header

\* ... in which code and message can be read again, and which is empty for
\* success without a message only.
LEMMA ReplyHeader ==
    ASSUME NEW st
    PROVE  /\ DeserializeReplyHeader(SerializeReplyHeader(st)) = Status(st.code, st.message)
           /\ ParseStatus(SerializeReplyHeader(st)).status_code = st.code
           /\ ParseStatus(SerializeReplyHeader(st)).status_message = st.message
           /\ IsEmpty(SerializeReplyHeader(st)) <=> st.code = OK /\ st.message = ""
<1> DEFINE m == [status_code |-> st.code, status_message |-> st.message]
           blob == SerializeReplyHeader(st)
<1>1. /\ DOMAIN m = {"status_code", "status_message"}
      /\ m["status_code"] = st.code /\ m["status_message"] = st.message
      /\ Default["status_code"] = 0 /\ Default["status_message"] = ""
  BY DEF Default
<1>2. blob = [f \in {g \in DOMAIN m : m[g] # Default[g]} |-> m[f]]
  BY DEF SerializeReplyHeader, SerializeAsString
<1> HIDE DEF m, blob
<1>3. /\ "status_code" \in DOMAIN blob <=> st.code # 0
      /\ "status_message" \in DOMAIN blob <=> st.message # ""
      /\ DOMAIN blob \subseteq {"status_code", "status_message"}
      /\ st.code # 0 => blob["status_code"] = st.code
      /\ st.message # "" => blob["status_message"] = st.message
  BY <1>1, <1>2
<1>4. ParseStatus(blob).status_code = st.code /\ ParseStatus(blob).status_message = st.message
  BY <1>1, <1>3 DEF ParseStatus, ParseFromString
<1>5. DeserializeReplyHeader(blob) = Status(st.code, st.message)
  BY <1>4 DEF DeserializeReplyHeader
<1>6. IsEmpty(blob) <=> st.code = OK /\ st.message = ""
  BY <1>3 DEF IsEmpty, OK
<1> QED BY <1>4, <1>5, <1>6 DEF blob

\* The v2 library keeps code and message of a failure and the code of success.
LEMMA StatusKept ==
    ASSUME NEW st, st.code \in 0 .. MaxStatusCode
    PROVE  parse_reply_header(SerializeReplyHeader(st)) =
              Status(st.code, IF st.code = OK THEN "" ELSE st.message)
BY ReplyHeader DEF parse_reply_header, status_from_header

(***************************************************************************)
(* Bodies.                                                                 *)
(***************************************************************************)

LEMMA FlattenOne ==
    ASSUME NEW a
    PROVE  FlattenSeq(<<a>>) = a
<1> DEFINE step(f) == [i \in 1 .. Len(<<a>>) |-> IF i = 1 THEN <<a>>[i] ELSE f[i - 1] \o <<a>>[i]]
           flatten == CHOOSE f : f = step(f)
<1>1. [i \in 1 .. 1 |-> a] = step([i \in 1 .. 1 |-> a])
  OBVIOUS
<1>2. flatten = step(flatten)
  BY <1>1
<1>3. FlattenSeq(<<a>>) = flatten[1]
  BY DEF FlattenSeq
<1> HIDE DEF flatten
<1> QED BY <1>2, <1>3

LEMMA FlattenTwo ==
    ASSUME NEW a, NEW b
    PROVE  FlattenSeq(<<a, b>>) = a \o b
<1> DEFINE step(f) == [i \in 1 .. Len(<<a, b>>) |-> IF i = 1 THEN <<a, b>>[i] ELSE f[i - 1] \o <<a, b>>[i]]
           flatten == CHOOSE f : f = step(f)
           g == [i \in 1 .. 2 |-> IF i = 1 THEN a ELSE a \o b]
<1>1. g = step(g)
  <2>1. /\ step(g) = [i \in 1 .. 2 |-> IF i = 1 THEN <<a, b>>[i] ELSE g[i - 1] \o <<a, b>>[i]]
        /\ <<a, b>>[1] = a /\ <<a, b>>[2] = b
    OBVIOUS
  <2>2. g[1] = a
    OBVIOUS
  <2>3. \A i \in 1 .. 2 : g[i] = IF i = 1 THEN <<a, b>>[i] ELSE g[i - 1] \o <<a, b>>[i]
    <3> SUFFICES ASSUME NEW i \in 1 .. 2
                 PROVE  g[i] = IF i = 1 THEN <<a, b>>[i] ELSE g[i - 1] \o <<a, b>>[i]
      OBVIOUS
    <3>1. CASE i = 1
      BY <2>1, <3>1
    <3>2. CASE i = 2
      BY <2>1, <2>2, <3>2
    <3> QED BY <3>1, <3>2
  <2> QED BY <2>1, <2>3
<1>2. flatten = step(flatten)
  <2> HIDE DEF g
  <2> QED BY <1>1
<1>3. FlattenSeq(<<a, b>>) = flatten[2]
  BY DEF FlattenSeq
<1> HIDE DEF flatten
<1>4. \A i \in 1 .. 2 : flatten[i] = IF i = 1 THEN <<a, b>>[i] ELSE flatten[i - 1] \o <<a, b>>[i]
  BY <1>2
<1> HIDE DEF step
<1>5. flatten[1] = a
  BY <1>4
<1>6. flatten[2] = flatten[1] \o b
  <2>1. flatten[2] = flatten[2 - 1] \o <<a, b>>[2]
    BY <1>4
  <2> QED BY <2>1
<1> QED BY <1>3, <1>5, <1>6

\* However the transport cuts a body, the receiver joins it.
LEMMA BodyJoined ==
    ASSUME NEW S, NEW body \in Seq(S), NEW chunks \in Chunkings(body)
    PROVE  get_body(chunks) = body
<1>1. CASE chunks = <<body>>
  BY <1>1, FlattenOne DEF get_body
<1>2. CASE chunks # <<body>>
  <2>1. PICK k \in 1 .. Len(body) - 1 :
           chunks = <<SubSeq(body, 1, k), SubSeq(body, k + 1, Len(body))>>
    BY <1>2 DEF Chunkings
  <2>2. get_body(chunks) = SubSeq(body, 1, k) \o SubSeq(body, k + 1, Len(body))
    BY <2>1, FlattenTwo DEF get_body
  <2>3. Len(body) \in Nat
    BY LenProperties
  <2>4. SubSeq(body, 1, k) \o SubSeq(body, k + 1, Len(body)) = SubSeq(body, 1, Len(body))
    <3>1. /\ 1 \in 1 .. Len(body) + 1
          /\ k \in 1 - 1 .. Len(body)
          /\ Len(body) \in k .. Len(body)
      BY <2>3
    <3> QED BY <3>1, ConcatAdjacentSubSeq
  <2>5. SubSeq(body, 1, Len(body)) = body
    BY SubSeqFull
  <2> QED BY <2>2, <2>4, <2>5
<1> QED BY <1>1, <1>2

(***************************************************************************)
(* Routing.                                                                *)
(***************************************************************************)

\* The parts of the url of a method: a slash, the path, a slash, the method.
UrlParts(s, m) ==
    LET n == Len(s.path)
        u == Url(s, m)
    IN  /\ n \in Nat /\ Len(u) = n + 3
        /\ u[1] = "/" /\ u[n + 2] = "/" /\ u[n + 3] = m
        /\ \A i \in 1 .. n : u[i + 1] = s.path[i]

LEMMA UrlShape ==
    ASSUME NEW P, NEW s, NEW m, s.path \in Seq(P)
    PROVE  UrlParts(s, m) /\ Url(s, m) \in Seq(P \cup {"/", m})
<1> DEFINE S == P \cup {"/", m}
           p == s.path
           n == Len(p)
           v == <<"/">> \o p
           u == v \o <<"/", m>>
<1>1. n \in Nat /\ p \in Seq(S)
  BY LenProperties, SeqMonotonic
<1>2. /\ <<"/">> \in Seq(S) /\ Len(<<"/">>) = 1 /\ <<"/">>[1] = "/"
      /\ <<"/", m>> \in Seq(S) /\ Len(<<"/", m>>) = 2 /\ <<"/", m>>[1] = "/" /\ <<"/", m>>[2] = m
  OBVIOUS
<1> HIDE DEF S, p
<1>3. /\ v \in Seq(S) /\ Len(v) = 1 + n
      /\ \A i \in 1 .. 1 + n : v[i] = IF i <= 1 THEN <<"/">>[i] ELSE p[i - 1]
  BY <1>1, <1>2, ConcatProperties
<1> HIDE DEF v
<1>4. /\ u \in Seq(S) /\ Len(u) = 1 + n + 2
      /\ \A i \in 1 .. 1 + n + 2 : u[i] = IF i <= 1 + n THEN v[i] ELSE <<"/", m>>[i - (1 + n)]
  BY <1>1, <1>2, <1>3, ConcatProperties
<1> HIDE DEF u, n
<1>5. u[1] = "/"
  BY <1>1, <1>2, <1>3, <1>4
<1>6. u[n + 2] = "/" /\ u[n + 3] = m
  <2>1. n + 2 \in 1 .. 1 + n + 2 /\ n + 3 \in 1 .. 1 + n + 2
        /\ ~(n + 2 <= 1 + n) /\ ~(n + 3 <= 1 + n) /\ n + 2 - (1 + n) = 1 /\ n + 3 - (1 + n) = 2
    BY <1>1
  <2> DEFINE tail == <<"/", m>>
  <2> HIDE DEF tail
  <2>2. \A i \in 1 .. 1 + n + 2 : ~(i <= 1 + n) => u[i] = tail[i - (1 + n)]
    BY <1>4 DEF tail
  <2>3. u[n + 2] = tail[n + 2 - (1 + n)] /\ u[n + 3] = tail[n + 3 - (1 + n)]
    <3>1. u[n + 2] = tail[n + 2 - (1 + n)]
      BY <1>1, <2>1, <2>2
    <3>2. u[n + 3] = tail[n + 3 - (1 + n)]
      BY <1>1, <2>1, <2>2
    <3> QED BY <3>1, <3>2
  <2>4. u[n + 2] = tail[1] /\ u[n + 3] = tail[2]
    BY <1>1, <2>1, <2>3
  <2> QED BY <2>4, <1>2 DEF tail
<1>7. ASSUME NEW i \in 1 .. n PROVE u[i + 1] = p[i]
  <2>1. i + 1 \in 1 .. 1 + n /\ i + 1 \in 1 .. 1 + n + 2 /\ ~(i + 1 <= 1) /\ i + 1 - 1 = i /\ i + 1 <= 1 + n
    BY <1>1
  <2> QED BY <2>1, <1>3, <1>4
<1>8. Url(s, m) = u
  BY DEF Url, u, v, p
<1>9. Len(u) = n + 3
  BY <1>1, <1>4
<1> QED BY <1>1, <1>4, <1>5, <1>6, <1>7, <1>8, <1>9 DEF UrlParts, n, p, S

\* A url names one path and one method.
LEMMA UrlInjective ==
    ASSUME NEW P, NEW s, NEW t, NEW m, NEW k, s.path \in Seq(P), t.path \in Seq(P),
           Url(s, m) = Url(t, k)
    PROVE  s.path = t.path /\ m = k
<1> DEFINE u == Url(s, m)
           n == Len(s.path)
<1>1. /\ n \in Nat /\ Len(u) = n + 3 /\ u[n + 3] = m
      /\ \A i \in 1 .. n : u[i + 1] = s.path[i]
  <2>1. UrlParts(s, m)
    BY UrlShape, Zenon
  <2> QED BY <2>1 DEF UrlParts
<1>2. /\ Len(t.path) \in Nat /\ Len(u) = Len(t.path) + 3 /\ u[Len(t.path) + 3] = k
      /\ \A i \in 1 .. Len(t.path) : u[i + 1] = t.path[i]
  <2>1. UrlParts(t, k)
    BY UrlShape, Zenon
  <2> QED BY <2>1 DEF UrlParts
<1>3. Len(t.path) = n
  BY <1>1, <1>2
<1>4. \A i \in 1 .. n : s.path[i] = t.path[i]
  BY <1>1, <1>2, <1>3
<1> HIDE DEF u
<1>5. s.path = t.path
  BY <1>3, <1>4, SeqEqual
<1> QED BY <1>1, <1>2, <1>3, <1>5

\* Any non-empty set of positions has a first one.
LEMMA FirstOf ==
    ASSUME NEW I, I \subseteq Nat, I # {}
    PROVE  LET i == CHOOSE k \in I : \A l \in I : k <= l
           IN  i \in I /\ \A l \in I : i <= l
<1> DEFINE R == OpToRel(<, Nat)
<1>1. IsWellFoundedOn(R, Nat)
  BY NatLessThanWellFounded, Zenon
<1>2. ASSUME NEW i \in Nat, NEW l \in Nat, l < i PROVE <<l, i>> \in R
  <2>1. <<l, i>> \in Nat \X Nat /\ <<l, i>>[1] < <<l, i>>[2]
    BY <1>2
  <2> QED BY <2>1, Zenon DEF OpToRel
<1> HIDE DEF R
<1>3. \E i \in I : \A l \in I : ~ (<<l, i>> \in R)
  BY <1>1, WFMin, Zenon
<1>4. \E i \in I : \A l \in I : i <= l
  <2>1. PICK i \in I : \A l \in I : ~ (<<l, i>> \in R)
    BY <1>3
  <2>2. ASSUME NEW l \in I PROVE i <= l
    <3>1. i \in Nat /\ l \in Nat
      OBVIOUS
    <3>2. ~(l < i)
      BY <1>2, <2>1, <3>1
    <3> QED BY <3>1, <3>2
  <2> QED BY <2>2
<1> QED BY <1>4

\* Services registered one after the other, whose paths have parts in P.
Registered(svcs, P) ==
    DOMAIN svcs \subseteq Nat /\ \A i \in DOMAIN svcs : svcs[i].path \in Seq(P)

\* The v1 router dispatches the url of a method to that method, whatever the
\* services are called and in whatever order they are registered.
THEOREM RouteV1Reaches ==
    ASSUME NEW P, NEW svcs, Registered(svcs, P),
           NEW j \in DOMAIN svcs, NEW m \in svcs[j].methods
    PROVE  RouteV1(svcs, Url(svcs[j], m)) = Found(svcs[j], m)
<1> DEFINE url == Url(svcs[j], m)
           knows == {i \in DOMAIN svcs : Matches(svcs[i], url) # {}}
           i == CHOOSE k \in knows : \A l \in knows : k <= l
           k == CHOOSE x \in Matches(svcs[i], url) : TRUE
<1>1. j \in knows
  BY DEF Matches
<1>2. i \in knows
  BY <1>1, FirstOf DEF Registered
<1>3. k \in svcs[i].methods /\ Url(svcs[i], k) = url /\ i \in DOMAIN svcs
  BY <1>2 DEF Matches
<1>4. svcs[i].path = svcs[j].path /\ k = m
  <2> HIDE DEF i, k
  <2> QED BY <1>3, UrlInjective DEF Registered
<1>5. RouteV1(svcs, url) = Found(svcs[i], k)
  BY <1>1 DEF RouteV1
<1> QED BY <1>4, <1>5 DEF Found

LEMMA PrefixByParts ==
    ASSUME NEW S, NEW s \in Seq(S), NEW t \in Seq(S)
    PROVE  IsPrefix(s, t) <=> Len(s) <= Len(t) /\ \A i \in 1 .. Len(s) : s[i] = t[i]
<1>1. Len(s) \in Nat /\ Len(t) \in Nat
  BY LenProperties
<1> SUFFICES ASSUME Len(s) <= Len(t)
             PROVE  SubSeq(s, 1, Len(s)) = SubSeq(t, 1, Len(s)) <=> \A i \in 1 .. Len(s) : s[i] = t[i]
  BY DEF IsPrefix
<1> DEFINE r == SubSeq(t, 1, Len(s))
<1>2. SubSeq(s, 1, Len(s)) = s
  BY SubSeqFull
<1>3. \A i \in 1 .. Len(s) : t[i] \in S
  BY <1>1, ElementOfSeq
<1>4. r \in Seq(S) /\ Len(r) = Len(s)
  BY <1>1, <1>3, SubSeqProperties
<1>5. \A i \in 1 .. Len(s) : r[i] = t[i]
  <2>1. \A i \in 1 .. Len(s) - 1 + 1 : r[i] = t[1 + i - 1]
    BY <1>1, <1>3, SubSeqProperties
  <2> HIDE DEF r
  <2> QED BY <1>1, <2>1
<1> HIDE DEF r
<1>6. (\A i \in 1 .. Len(s) : s[i] = t[i]) => s = r
  <2> SUFFICES ASSUME \A i \in 1 .. Len(s) : s[i] = t[i]
               PROVE  s = r
    OBVIOUS
  <2> QED BY <1>4, <1>5, SeqEqual
<1>7. s = r => \A i \in 1 .. Len(s) : s[i] = t[i]
  BY <1>5
<1> QED BY <1>2, <1>6, <1>7 DEF r

\* The v2 middleware's comparison of names finds the service of a url only.
LEMMA NamedOnce ==
    ASSUME NEW svcs, NamesTellApart(svcs),
           NEW i \in DOMAIN svcs, NEW j \in DOMAIN svcs, NEW m
    PROVE  IsPrefix(svcs[i].name, Tail(Url(svcs[j], m))) <=> i = j
<1> DEFINE u == Url(svcs[j], m)
           t == Tail(u)
           p == svcs[j].path
           q == svcs[i].path
           P == NamePart
           S == P \cup {"/", m}
<1>1. /\ p \in Seq(P) /\ q \in Seq(P) /\ "/" \notin P
      /\ svcs[i].name = q /\ svcs[j].name = p
      /\ IsPrefix(q, p) => i = j
      /\ i = j => q = p
  BY DEF NamesTellApart, NamePart
<1>2. UrlParts(svcs[j], m) /\ u \in Seq(S)
  BY <1>1, UrlShape, Zenon
<1>3. /\ Len(p) \in Nat /\ Len(u) = Len(p) + 3 /\ u[Len(p) + 2] = "/"
      /\ \A x \in 1 .. Len(p) : u[x + 1] = p[x]
  BY <1>2 DEF UrlParts
<1>4. p \in Seq(S) /\ q \in Seq(S) /\ Len(q) \in Nat
  BY <1>1, SeqMonotonic, LenProperties
<1>5. \A x \in 1 .. Len(q) : q[x] # "/"
  BY <1>1, ElementOfSeq
<1> HIDE DEF u, p, q, S, P
<1>6. u # <<>>
  BY <1>3
<1>7. t \in Seq(S) /\ Len(t) = Len(u) - 1 /\ \A x \in 1 .. Len(t) : t[x] = u[x + 1]
  BY <1>2, <1>6, HeadTailProperties
<1> HIDE DEF t
<1>8. Len(t) = Len(p) + 2 /\ \A x \in 1 .. Len(p) : t[x] = p[x]
  BY <1>3, <1>7
<1>9. t[Len(p) + 1] = "/"
  <2>1. Len(p) + 1 \in 1 .. Len(t) /\ Len(p) + 1 + 1 = Len(p) + 2
    BY <1>3, <1>8
  <2> QED BY <2>1, <1>3, <1>7
<1>10. IsPrefix(q, t) <=> Len(q) <= Len(t) /\ \A x \in 1 .. Len(q) : q[x] = t[x]
  BY <1>4, <1>7, PrefixByParts
<1>11. IsPrefix(q, p) <=> Len(q) <= Len(p) /\ \A x \in 1 .. Len(q) : q[x] = p[x]
  BY <1>4, PrefixByParts
<1>12. IsPrefix(q, t) => IsPrefix(q, p)
  <2> SUFFICES ASSUME IsPrefix(q, t) PROVE Len(q) <= Len(p)
    BY <1>3, <1>4, <1>8, <1>10, <1>11
  <2>1. ASSUME Len(p) + 1 <= Len(q) PROVE FALSE
    <3>1. Len(p) + 1 \in 1 .. Len(q)
      BY <2>1, <1>3, <1>4
    <3> QED BY <3>1, <1>5, <1>9, <1>10
  <2> QED BY <2>1, <1>3, <1>4
<1>13. IsPrefix(q, p) => IsPrefix(q, t)
  BY <1>3, <1>4, <1>8, <1>10, <1>11
<1>14. i = j => IsPrefix(q, p)
  BY <1>1, <1>3, <1>11
<1> QED BY <1>1, <1>12, <1>13, <1>14 DEF t, u

\* The v2 middleware and the service it finds dispatch the url of a method to
\* that method, when names tell the services apart: the hypothesis that the
\* run prefix_route shows to be needed.
THEOREM RouteV2Reaches ==
    ASSUME NEW svcs, NamesTellApart(svcs),
           NEW j \in DOMAIN svcs, NEW m \in svcs[j].methods
    PROVE  RouteV2(svcs, Url(svcs[j], m)) = Found(svcs[j], m)
<1> DEFINE url == Url(svcs[j], m)
           named == {i \in DOMAIN svcs : IsPrefix(svcs[i].name, Tail(url))}
           i == CHOOSE k \in named : \A l \in named : k <= l
           k == CHOOSE x \in Matches(svcs[i], url) : TRUE
<1>1. named = {j}
  <2>1. \A x \in DOMAIN svcs : IsPrefix(svcs[x].name, Tail(url)) <=> x = j
    BY NamedOnce, Zenon
  <2> QED BY <2>1
<1>2. i = j
  <2>1. j \in Nat
    BY DEF NamesTellApart
  <2> HIDE DEF named
  <2> QED BY <1>1, <2>1
<1>3. m \in Matches(svcs[j], url)
  BY DEF Matches
<1>4. k \in svcs[j].methods /\ Url(svcs[j], k) = url
  <2>1. Matches(svcs[i], url) # {} /\ Matches(svcs[i], url) = Matches(svcs[j], url)
    BY <1>2, <1>3, Zenon
  <2> HIDE DEF i
  <2> QED BY <2>1 DEF Matches
<1>5. k = m
  <2>1. svcs[j].path \in Seq(NamePart)
    BY DEF NamesTellApart
  <2>2. ASSUME NEW x, Url(svcs[j], x) = Url(svcs[j], m) PROVE x = m
    BY <2>1, <2>2, UrlInjective
  <2> HIDE DEF k
  <2> QED BY <1>4, <2>2
<1>6. RouteV2(svcs, url) = Found(svcs[i], k)
  <2>1. ~(named = {} \/ Matches(svcs[i], url) = {})
    <3> HIDE DEF named, i
    <3> QED BY <1>1, <1>2, <1>3
  <2> QED BY <2>1, Zenon DEF RouteV2
<1> QED
  <2> HIDE DEF i, k
  <2> QED BY <1>2, <1>5, <1>6
=============================================================================
