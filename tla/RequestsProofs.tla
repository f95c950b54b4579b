--------------------------- MODULE RequestsProofs ---------------------------
(***************************************************************************)
(* Requests, for any calls, proofs and configuration: only what was signed *)
(* is acted upon, which answers can leave a body unread, and that the      *)
(* check turns no honest request away.                                     *)
(***************************************************************************)
EXTENDS Requests, TLAPS

\* Canonicalisation keeps of a query what the protocol says it means.
LEMMA QueryKept ==
  ASSUME NEW r
  PROVE  CanonicalQuery(r.query) = Meaning(r).query
<1> DEFINE q == r.query
           pairs == {<<q[i].name, q[i].value>> : i \in DOMAIN q}
<1>1. DOMAIN Decoded(q) = DOMAIN q /\ \A i \in DOMAIN q : Decoded(q)[i] = <<q[i].name, q[i].value>>
  BY DEF Decoded
<1>2. Range(Decoded(q)) = pairs
  BY <1>1 DEF Range
<1>3. ASSUME NEW p \in pairs
      PROVE  {i \in DOMAIN Decoded(q) : Decoded(q)[i] = p}
               = {i \in DOMAIN q : q[i].name = p[1] /\ q[i].value = p[2]}
  BY <1>1
<1>4. \A p \in pairs : Cardinality({i \in DOMAIN Decoded(q) : Decoded(q)[i] = p}) = Occurrences(q, p)
  BY <1>3 DEF Occurrences
<1>5. ToBag(Decoded(q)) = [p \in pairs |-> Cardinality({i \in DOMAIN Decoded(q) : Decoded(q)[i] = p})]
  BY <1>2 DEF ToBag
<1>6. ToBag(Decoded(q)) = [p \in pairs |-> Occurrences(q, p)]
  BY <1>4, <1>5
<1>7. Meaning(r).query = [p \in pairs |-> Occurrences(q, p)]
  BY DEF Meaning
<1> QED BY <1>6, <1>7 DEF CanonicalQuery

\* What the server signs of a request is what it means, but for the headers.
LEMMA TextIsMeaning ==
  ASSUME NEW r
  PROVE  [StringToSign(r) EXCEPT !.headers = << >>] = [Meaning(r) EXCEPT !.headers = << >>]
<1> DEFINE text(query, payload) ==
             [method |-> r.method, path |-> r.path, query |-> query, headers |-> << >>,
              payload |-> payload, date |-> r.auth.date, scope |-> r.auth.scope,
              url |-> Parameters(r)]
<1>1. [StringToSign(r) EXCEPT !.headers = << >>] = text(CanonicalQuery(r.query), PayloadHash(r))
  BY DEF StringToSign
<1>2. [Meaning(r) EXCEPT !.headers = << >>] = text(Meaning(r).query, Meaning(r).payload)
  <2> DEFINE q == Meaning(r).query
             p == Meaning(r).payload
             h == Meaning(r).headers
  <2>1. Meaning(r) = [method |-> r.method, path |-> r.path, query |-> q, headers |-> h,
                      payload |-> p, date |-> r.auth.date, scope |-> r.auth.scope,
                      url |-> Parameters(r)]
    BY DEF Meaning
  <2> HIDE DEF q, p, h
  <2>2. [Meaning(r) EXCEPT !.headers = << >>] = text(q, p)
    BY <2>1
  <2> QED BY <2>2 DEF q, p
<1>3. PayloadHash(r) = Meaning(r).payload
  BY DEF PayloadHash, Meaning
<1>4. CanonicalQuery(r.query) = Meaning(r).query
  BY QueryKept
<1> QED BY <1>1, <1>2, <1>3, <1>4

\* Headers of which every line is there and at least one
WellFormed(headers) ==
  \A n \in DOMAIN headers :
    DOMAIN headers[n] = 1..Len(headers[n]) /\ Len(headers[n]) \in Nat \ {0}

\* Of a header that came once the check and a handler take what it is.
LEMMA OnceIsRead ==
  ASSUME NEW r, NEW n, WellFormed(r.headers), Once(r, n)
  PROVE  TextOf(r, n) = Texts(r, n) /\ Read(r, n) = Texts(r, n)
<1>1. CASE n \notin DOMAIN r.headers
  BY <1>1 DEF TextOf, Texts, Read
<1>2. CASE n \in DOMAIN r.headers
  <2> DEFINE lines == r.headers[n]
  <2>1. Len(lines) = 1 /\ DOMAIN lines = 1..1
    BY <1>2 DEF Once, WellFormed
  <2>2. Last(lines) = lines[1] /\ Head(lines) = lines[1]
    BY <2>1 DEF Last
  <2>3. [i \in DOMAIN lines |-> lines[i].text] = <<lines[1].text>>
    BY <2>1
  <2> QED BY <1>2, <2>2, <2>3 DEF TextOf, Texts, Read
<1> QED BY <1>1, <1>2

\* When no signed header is repeated, what the server signs is what a request means.
LEMMA OnceIsMeaning ==
  ASSUME NEW r, WellFormed(r.headers), SignedOnce(r)
  PROVE  StringToSign(r) = Meaning(r)
<1>1. \A i \in DOMAIN r.auth.names : TextOf(r, r.auth.names[i]) = Texts(r, r.auth.names[i])
  BY OnceIsRead DEF SignedOnce
<1>2. CanonicalHeaders(r) = Meaning(r).headers
  BY <1>1 DEF CanonicalHeaders, Meaning
<1>3. StringToSign(r).headers = CanonicalHeaders(r)
  BY DEF StringToSign
<1>4. PayloadHash(r) = Meaning(r).payload /\ CanonicalQuery(r.query) = Meaning(r).query
  BY QueryKept DEF PayloadHash, Meaning
<1> QED BY <1>2, <1>4 DEF StringToSign, Meaning

\* The signature is no part of what is signed.
LEMMA SignedVouches ==
  ASSUME NEW c, NEW auth, NEW secret
  PROVE  /\ Signed(c, auth, secret).signature
              = [secret |-> secret, text |-> Meaning(Signed(c, auth, secret))]
         /\ Signed(c, auth, secret).auth = auth
<1> DEFINE sent == Signed(c, auth, secret)
           plain == With(c, auth, Empty)
<1>1. /\ sent.method = plain.method /\ sent.path = plain.path /\ sent.query = plain.query
      /\ sent.headers = plain.headers /\ sent.body = plain.body /\ sent.auth = plain.auth
      /\ sent.signature = [secret |-> secret, text |-> Meaning(plain)]
  BY DEF Signed, With
<1>2. Meaning(sent) = Meaning(plain)
  BY <1>1 DEF Meaning, IsUrl, Occurrences, Texts, Parameters
<1>3. plain.auth = auth
  BY DEF With
<1> QED BY <1>1, <1>2, <1>3

\* A request that verify lets pass has the configured key and the secret's signature, over
\* the hash of the body it came with if it gives a hash.
LEMMA VerifiedIsSigned ==
  ASSUME NEW r, NEW t, Verify(r, t) = "ok"
  PROVE  /\ r.auth.key = AccessKey
         /\ r.signature = [secret |-> SecretKey, text |-> StringToSign(r)]
         /\ PayloadHash(r) \in {Unsigned, Streaming, Sha256(r.body)}
<1>1. /\ Presented(r, t) = "ok" /\ r.auth.key = AccessKey
      /\ r.signature = [secret |-> SecretKey, text |-> StringToSign(r)]
  BY DEF Verify
<1>2. ASSUME ~IsUrl(r)
      PROVE  r.auth.payload \in {Empty, Unsigned, Streaming, Sha256(r.body)}
  <2>1. ~HashWrong(r)
    BY <1>1, <1>2 DEF Presented
  <2> QED BY <2>1 DEF HashWrong
<1> QED BY <1>1, <1>2 DEF PayloadHash

\* Two texts that are the same are of the same parts.
LEMMA SameText ==
  ASSUME NEW r, NEW sent, StringToSign(r) = Meaning(sent)
  PROVE  /\ [Meaning(r) EXCEPT !.headers = << >>] = [Meaning(sent) EXCEPT !.headers = << >>]
         /\ CanonicalHeaders(r) = Meaning(sent).headers
         /\ PayloadHash(r) = Meaning(sent).payload
<1>1. [Meaning(r) EXCEPT !.headers = << >>] = [Meaning(sent) EXCEPT !.headers = << >>]
  BY TextIsMeaning
<1>2. StringToSign(r).headers = CanonicalHeaders(r) /\ StringToSign(r).payload = PayloadHash(r)
  BY DEF StringToSign
<1> QED BY <1>1, <1>2

\* A signed header that came in one line is read as it was signed.
LEMMA HeadersAsSigned ==
  ASSUME NEW r, NEW sent, WellFormed(r.headers), CanonicalHeaders(r) = Meaning(sent).headers,
         NEW i \in DOMAIN sent.auth.names, Once(r, sent.auth.names[i])
  PROVE  Texts(sent, sent.auth.names[i]) = Read(r, sent.auth.names[i])
<1> DEFINE n == sent.auth.names[i]
<1>1. DOMAIN Meaning(sent).headers = DOMAIN sent.auth.names
      /\ Meaning(sent).headers[i] = <<n, Texts(sent, n)>>
  BY DEF Meaning
<1>2. DOMAIN CanonicalHeaders(r) = DOMAIN r.auth.names
      /\ \A j \in DOMAIN r.auth.names :
           CanonicalHeaders(r)[j] = <<r.auth.names[j], TextOf(r, r.auth.names[j])>>
  BY DEF CanonicalHeaders
<1>3. i \in DOMAIN r.auth.names
  BY <1>1, <1>2
<1>4. <<r.auth.names[i], TextOf(r, r.auth.names[i])>> = <<n, Texts(sent, n)>>
  BY <1>1, <1>2, <1>3
<1>5. r.auth.names[i] = n /\ TextOf(r, n) = Texts(sent, n)
  BY <1>4
<1>6. TextOf(r, n) = Read(r, n)
  BY OnceIsRead
<1> QED BY <1>5, <1>6

\* A hash that was signed for a body is the hash of the body that came.
LEMMA BodyAsSigned ==
  ASSUME NEW r, NEW sent, Sha256(sent.body) \notin {Empty, Unsigned, Streaming},
         PayloadHash(r) \in {Unsigned, Streaming, Sha256(r.body)},
         PayloadHash(r) = Meaning(sent).payload, BodySigned(sent)
  PROVE  Meaning(sent).payload = Sha256(r.body)
<1>1. ~IsUrl(sent) /\ sent.auth.payload \notin {Unsigned, Streaming}
  BY DEF BodySigned
<1>2. Meaning(sent).payload = IF sent.auth.payload = Empty THEN Sha256(sent.body) ELSE sent.auth.payload
  BY <1>1 DEF Meaning
<1>3. Meaning(sent).payload \notin {Unsigned, Streaming}
  BY <1>1, <1>2
<1> QED BY <1>3
-----------------------------------------------------------------------------
Vouched ==
  /\ call.sent.signature = [secret |-> call.secret, text |-> Meaning(call.sent)]
  /\ call.got.signature = call.sent.signature
  /\ Sha256(call.sent.body) \notin {Empty, Unsigned, Streaming}
  /\ WellFormed(call.got.headers)

\* The conclusion of HandledWasSigned
WasAsked ==
  /\ call.secret = SecretKey
  /\ [Meaning(Request) EXCEPT !.headers = << >>] = [Meaning(call.sent) EXCEPT !.headers = << >>]
  /\ \A i \in DOMAIN call.sent.auth.names :
       LET n == call.sent.auth.names[i] IN
       Once(Request, n) => Texts(call.sent, n) = Read(Request, n)
  /\ BodySigned(call.sent) => Meaning(call.sent).payload = Sha256(Request.body)

ConnType == conn = [stage |-> conn.stage, body |-> conn.body, by |-> conn.by]

\* The inductive invariant: a request carries the proof it was sent with, and is past the
\* check only if that was good.
SignInv ==
  /\ ConnType
  /\ conn.stage # "none" => Vouched
  /\ conn.stage = "routing" /\ app.auth /\ ~WithoutChecks => WasAsked
  /\ conn.stage \in {"arrived", "checking", "routing"} => conn.by = "nobody"
  /\ HandledWasSigned

LEMMA SignStep == SignInv /\ [Next]_requestVars => SignInv'
<1> SUFFICES ASSUME SignInv, [Next]_requestVars PROVE SignInv'
  OBVIOUS
<1> USE DEF ConnType
<1>1. CASE Send
  <2> PICK c \in Calls : \E d \in Ways[c], p \in Proofs, secret \in {SecretKey, OtherSecret},
        expect \in BOOLEAN, at \in 0..now : SendAs(c, d, p, secret, expect, at)
    BY <1>1 DEF Send
  <2> PICK d \in Ways[c], p \in Proofs, secret \in {SecretKey, OtherSecret},
           expect \in BOOLEAN, at \in 0..now : SendAs(c, d, p, secret, expect, at)
    OBVIOUS
  <2> DEFINE sent == Signed(c, [p EXCEPT !.date = at \div TicksPerSecond], secret)
  <2>0. /\ \E got \in {sent.auth} \cup Forged :
             call' = [sent |-> sent, got |-> With(d, got, sent.signature),
                      secret |-> secret, at |-> at]
        /\ conn'.stage = "arrived" /\ conn'.by = "nobody" /\ ConnType'
    BY DEF SendAs
  <2>d. d \in Calls
    BY RequestsAssumption
  <2>1. Vouched'
    <3> HIDE DEF sent
    <3>1. /\ call'.sent = sent /\ call'.secret = secret
          /\ call'.got.signature = sent.signature /\ call'.got.headers = d.headers
      BY <2>0 DEF With
    <3>4. sent.body = c.body
      BY DEF sent, Signed, With
    <3>5. Sha256(c.body) \notin {Empty, Unsigned, Streaming} /\ WellFormed(d.headers)
      BY <2>d, RequestsAssumption DEF WellFormed
    <3>6. (Sha256(call.sent.body) \notin {Empty, Unsigned, Streaming})'
      BY <3>1, <3>4, <3>5 DEF Sha256
    <3>7. WellFormed(call.got.headers)'
      BY <3>1, <3>5 DEF WellFormed
    <3>2. sent.signature = [secret |-> secret, text |-> Meaning(sent)]
      BY SignedVouches DEF sent
    <3>3. Meaning(call.sent)' = Meaning(sent)
      BY <3>1 DEF Meaning, IsUrl, Occurrences, Texts, Parameters
    <3> QED BY <3>1, <3>2, <3>3, <3>6, <3>7 DEF Vouched
  <2> QED BY <2>0, <2>1 DEF SignInv, HandledWasSigned, Handled
<1>2. CASE SlowDown
  BY <1>2 DEF SlowDown, Answer, Step, SignInv, HandledWasSigned, Handled, Vouched
<1>3. CASE Admitted
  BY <1>3 DEF Admitted, Reading, Step, SignInv, HandledWasSigned, Handled, Vouched, WithoutChecks, Request
<1>4. CASE Check
  <2>1. CASE Verify(Request, now) = "ok"
    <3>1. Vouched
      BY <1>4 DEF Check, SignInv
    <3>2. /\ Request.signature = [secret |-> SecretKey, text |-> StringToSign(Request)]
          /\ PayloadHash(Request) \in {Unsigned, Streaming, Sha256(Request.body)}
      BY <2>1, VerifiedIsSigned
    <3>3. call.secret = SecretKey /\ StringToSign(Request) = Meaning(call.sent)
      BY <3>1, <3>2 DEF Vouched, Request
    <3>4. /\ [Meaning(Request) EXCEPT !.headers = << >>] = [Meaning(call.sent) EXCEPT !.headers = << >>]
          /\ CanonicalHeaders(Request) = Meaning(call.sent).headers
          /\ PayloadHash(Request) = Meaning(call.sent).payload
      BY <3>3, SameText
    <3>6. WellFormed(Request.headers) /\ Sha256(call.sent.body) \notin {Empty, Unsigned, Streaming}
      BY <3>1 DEF Vouched, Request
    <3>7. \A i \in DOMAIN call.sent.auth.names :
            Once(Request, call.sent.auth.names[i]) =>
              Texts(call.sent, call.sent.auth.names[i]) = Read(Request, call.sent.auth.names[i])
      BY <3>4, <3>6, HeadersAsSigned
    <3>8. BodySigned(call.sent) => Meaning(call.sent).payload = Sha256(Request.body)
      BY <3>2, <3>4, <3>6, BodyAsSigned
    <3>5. WasAsked
      BY <3>3, <3>4, <3>7, <3>8 DEF WasAsked
    <3> QED BY <2>1, <1>4, <3>5
        DEF Check, Step, SignInv, HandledWasSigned, Handled, Vouched, WasAsked, Request, WithoutChecks
  <2>2. CASE Verify(Request, now) # "ok"
    <3>1. Answer("framework") \/ Answer("check")
      BY <2>2, <1>4 DEF Check
    <3> QED BY <3>1, <1>4 DEF Check, Answer, Step, SignInv, HandledWasSigned, Handled, Vouched
  <2> QED BY <2>1, <2>2
<1>5. CASE Handle
  BY <1>5 DEF Handle, Operation, BucketOperation, ObjectOperation, Reading, Step, SignInv, HandledWasSigned,
     Handled, Vouched, WasAsked, Request, WithoutChecks
<1>6. CASE Finish
  BY <1>6 DEF Finish, Free, SignInv, HandledWasSigned, Handled
<1>7. CASE Impatient
  BY <1>7 DEF Impatient, Step, SignInv, HandledWasSigned, Handled, Vouched, WasAsked, Request, WithoutChecks
<1>8. CASE Tick
  BY <1>8 DEF Tick, SignInv, HandledWasSigned, Handled, Vouched, WasAsked, Request, WithoutChecks
<1>9. CASE UNCHANGED requestVars
  BY <1>9 DEF requestVars, SignInv, HandledWasSigned, Handled, Vouched, WasAsked, Request, WithoutChecks
<1> QED BY <1>1, <1>2, <1>3, <1>4, <1>5, <1>6, <1>7, <1>8, <1>9 DEF Next

\* Whatever happens to a request on its way, a handler acts upon it only if the secret
\* signed what it means and vouches for its body.
THEOREM OnlySignedHandled == Spec => []HandledWasSigned
<1>1. Init => SignInv
  BY DEF Init, Free, SignInv, ConnType, HandledWasSigned, Handled
<1>2. SignInv => HandledWasSigned
  BY DEF SignInv
<1> QED BY <1>1, <1>2, SignStep, PTL DEF Spec
-----------------------------------------------------------------------------
\* The inductive invariant: a body that is held back belongs to a method that takes one,
\* and once there is an answer only two may have left it.
BodyInv ==
  /\ ConnType
  /\ conn.stage \in {"arrived", "checking", "routing"} =>
       Request.method \in {"GET", "HEAD", "POST", "PUT", "DELETE", "PATCH"}
  /\ conn.stage \in {"arrived", "checking", "routing"} /\ conn.body = "held" =>
       Request.method \notin {"GET", "HEAD"}
  /\ conn.stage = "checking" => conn.body # "held"
  /\ conn.stage = "answered" /\ conn.body = "held" => conn.by \in {"shaper", "framework"}
  /\ KeepsStep
  /\ ~inStep => conn.stage = "none"

LEMMA BodyStep == BodyInv /\ [Next]_requestVars => BodyInv'
<1> SUFFICES ASSUME BodyInv, [Next]_requestVars PROVE BodyInv'
  OBVIOUS
<1> USE DEF ConnType
<1>1. CASE Send
  <2> PICK c \in Calls : \E d \in Ways[c], p \in Proofs, secret \in {SecretKey, OtherSecret},
        expect \in BOOLEAN, at \in 0..now : SendAs(c, d, p, secret, expect, at)
    BY <1>1 DEF Send
  <2> PICK d \in Ways[c], p \in Proofs, secret \in {SecretKey, OtherSecret},
           expect \in BOOLEAN, at \in 0..now : SendAs(c, d, p, secret, expect, at)
    OBVIOUS
  <2>1. /\ call'.got.method = d.method
        /\ conn'.stage = "arrived" /\ ConnType' /\ inStep'
        /\ conn'.body = "held" => d.method \notin {"GET", "HEAD"}
    BY <1>1 DEF Send, SendAs, With
  <2>2. d \in Calls
    BY RequestsAssumption
  <2> QED BY <2>1, <2>2, RequestsAssumption DEF BodyInv, Request, KeepsStep
<1>2. CASE SlowDown
  BY <1>2 DEF SlowDown, Answer, Step, BodyInv, KeepsStep, Request
<1>3. CASE Admitted
  BY <1>3 DEF Admitted, Reading, Step, BodyInv, KeepsStep, Request
<1>4. CASE Check
  BY <1>4 DEF Check, Answer, Step, BodyInv, KeepsStep, Request
<1>5. CASE Handle
  <2>1. conn'.body = "held" => Operation(Request) = "none"
    BY <1>5 DEF Handle, Reads, Reading, Step, Operation, BodyInv, WriteMethods
  <2> QED BY <2>1, <1>5 DEF Handle, Operation, BucketOperation, ObjectOperation, Reading, Step, BodyInv,
         KeepsStep, Request
<1>6. CASE Finish
  BY <1>6 DEF Finish, Free, BodyInv, KeepsStep
<1>7. CASE Impatient
  BY <1>7 DEF Impatient, Step, BodyInv, KeepsStep, Request
<1>8. CASE Tick
  BY <1>8 DEF Tick, BodyInv, KeepsStep, Request
<1>9. CASE UNCHANGED requestVars
  BY <1>9 DEF requestVars, BodyInv, KeepsStep, Request
<1> QED BY <1>1, <1>2, <1>3, <1>4, <1>5, <1>6, <1>7, <1>8, <1>9 DEF Next

\* No answer but the shaper's and the framework's own leaves a body behind on the
\* connection.
THEOREM BodiesRead == Spec => []KeepsStep
<1>1. Init => BodyInv
  BY DEF Init, Free, BodyInv, ConnType, KeepsStep
<1>2. BodyInv => KeepsStep
  BY DEF BodyInv
<1> QED BY <1>1, <1>2, BodyStep, PTL DEF Spec
-----------------------------------------------------------------------------
\* A request has the date of the clock it was signed by, rounded down.
Dated ==
  /\ call.at \in Nat
  /\ call.sent.auth.kind \in {"none", "header", "url"}
  /\ call.sent.auth.date = call.at \div TicksPerSecond

\* The inductive invariant: an honest request that the check turned away was late then,
\* and time does not go back.
HonestInv ==
  /\ now \in Nat
  /\ conn.stage # "none" => Vouched /\ Dated
  /\ conn.stage \in {"arrived", "checking", "routing"} => conn.by = "nobody"
  /\ HonestPasses

\* A date that a URL gives is at most a second before it was signed.
LEMMA DateRounds ==
  ASSUME NEW t \in Nat
  PROVE  /\ t \div TicksPerSecond \in Nat
         /\ t - (TicksPerSecond - 1) <= (t \div TicksPerSecond) * TicksPerSecond
<1>1. TicksPerSecond \in Nat \ {0}
  BY SigV4Assumption
<1> QED BY <1>1

\* A URL that is in time has not expired.
LEMMA InTimeNotExpired ==
  ASSUME Dated, IsUrl(call.sent), now \in Nat, InTime(now)
  PROVE  /\ call.sent.auth.expires # Forever
         /\ ~Expired(call.sent.auth, now)
<1> DEFINE s == call.at \div TicksPerSecond
           e == call.sent.auth.expires
<1>1. e \in Nat /\ now - call.at <= e * TicksPerSecond - (TicksPerSecond - 1)
  BY DEF InTime
<1>2. s \in Nat /\ call.at - (TicksPerSecond - 1) <= s * TicksPerSecond /\ call.at \in Nat
  BY DateRounds DEF Dated
<1>3. call.sent.auth.date = s
  BY DEF Dated
<1> HIDE DEF s, e
<1>4. TicksPerSecond \in Nat /\ s * TicksPerSecond \in Nat /\ e * TicksPerSecond \in Nat
  BY <1>1, <1>2, SigV4Assumption
<1>5. (s + e) * TicksPerSecond = s * TicksPerSecond + e * TicksPerSecond
  BY <1>1, <1>2, <1>4
<1>6. ~(now > (s + e) * TicksPerSecond)
  BY <1>1, <1>2, <1>4, <1>5
<1> QED BY <1>1, <1>3, <1>6, SigV4Assumption DEF Expired, e

\* Verify lets an honest request that is in time pass.
LEMMA HonestVerifies ==
  ASSUME Vouched, Dated, Honest, SignedOnce(Request), now \in Nat
  PROVE  Verify(Request, now) = "ok"
<1>1. Request.auth = call.sent.auth /\ Request.signature = call.sent.signature /\ InTime(now)
  BY DEF Vouched, Request, Honest
<1>0. StringToSign(Request) = Meaning(Request)
  BY OnceIsMeaning DEF Vouched, Request
<1>2. Request.signature = [secret |-> SecretKey, text |-> StringToSign(Request)]
  BY <1>0, <1>1 DEF Vouched, Honest
<1>3. ~HashWrong(Request)
  BY <1>1 DEF Honest, HashWrong
<1>4. Presented(Request, now) = "ok"
  <2>1. CASE IsUrl(call.sent)
    BY <1>1, <2>1, InTimeNotExpired DEF Presented, IsUrl, Honest
  <2>2. CASE ~IsUrl(call.sent)
    BY <1>1, <1>3, <2>2 DEF Presented, IsUrl, Honest, Dated
  <2> QED BY <2>1, <2>2
<1> QED BY <1>1, <1>2, <1>4 DEF Verify, Honest

LEMMA HonestStep == HonestInv /\ SignInv /\ BodyInv /\ [Next]_requestVars => HonestInv'
<1> SUFFICES ASSUME HonestInv, SignInv, BodyInv, [Next]_requestVars PROVE HonestInv'
  OBVIOUS
<1>0. ConnType /\ SignInv'
  BY SignStep DEF SignInv
<1> USE DEF ConnType
<1>1. CASE Send
  <2> PICK c \in Calls : \E d \in Ways[c], p \in Proofs, secret \in {SecretKey, OtherSecret},
        expect \in BOOLEAN, at \in 0..now : SendAs(c, d, p, secret, expect, at)
    BY <1>1 DEF Send
  <2> PICK d \in Ways[c], p \in Proofs, secret \in {SecretKey, OtherSecret},
           expect \in BOOLEAN, at \in 0..now : SendAs(c, d, p, secret, expect, at)
    OBVIOUS
  <2> DEFINE auth == [p EXCEPT !.date = at \div TicksPerSecond]
             sent == Signed(c, auth, secret)
  <2>1. /\ call'.sent = sent /\ call'.at = at /\ now' = now
        /\ conn'.stage = "arrived" /\ conn'.by = "nobody"
    BY DEF SendAs
  <2>2. auth.kind = p.kind /\ auth.date = at \div TicksPerSecond
    BY RequestsAssumption
  <2> HIDE DEF auth
  <2>3. sent.auth = auth
    BY DEF Signed, With
  <2> HIDE DEF sent
  <2>4. Dated'
    BY <2>1, <2>2, <2>3, RequestsAssumption DEF Dated, HonestInv
  <2>5. Vouched'
    BY <1>0, <2>1 DEF SignInv
  <2> QED BY <2>1, <2>4, <2>5 DEF HonestInv, HonestPasses
<1>2. CASE SlowDown
  BY <1>2 DEF SlowDown, Answer, Step, HonestInv, HonestPasses, Vouched, Dated
<1>3. CASE Admitted
  BY <1>0, <1>3 DEF Admitted, Reading, Step, HonestInv, HonestPasses, Vouched, Dated
<1>4. CASE Check
  <2>1. conn.stage = "checking" /\ Vouched /\ Dated /\ now \in Nat /\ conn.by = "nobody"
        /\ now' = now /\ call' = call
    BY <1>4 DEF Check, Answer, Step, HonestInv
  <2>2. Vouched' /\ Dated'
    BY <2>1 DEF Vouched, Dated
  <2>3. conn'.by = "check" => ~(Honest /\ SignedOnce(Request))
    BY <1>0, <1>4, <2>1, HonestVerifies DEF Check, Answer, Step
  <2>4. conn'.stage # "none" /\ (conn'.stage \in {"arrived", "checking", "routing"} => conn'.by = "nobody")
    BY <1>0, <1>4, <2>1 DEF Check, Answer, Step
  <2>5. HonestPasses'
    BY <2>1, <2>3 DEF HonestPasses, Honest, InTime, IsUrl, Request, SignedOnce, Once
  <2> QED BY <2>1, <2>2, <2>4, <2>5 DEF HonestInv
<1>5. CASE Handle
  <2>1. Request.method \in {"GET", "HEAD", "POST", "PUT", "DELETE", "PATCH"}
    BY <1>5 DEF Handle, BodyInv
  <2>2. Operation(Request) # "check"
    BY <2>1 DEF Operation, BucketOperation, ObjectOperation, WriteMethods
  <2>3. /\ conn'.by # "check" /\ conn'.stage = "answered"
        /\ call' = call /\ now' = now /\ conn.stage # "none"
    BY <1>5, <2>2 DEF Handle, Step
  <2> QED BY <2>3 DEF HonestInv, HonestPasses, Vouched, Dated
<1>6. CASE Finish
  BY <1>0, <1>6 DEF Finish, Free, HonestInv, HonestPasses
<1>7. CASE Impatient
  BY <1>0, <1>7 DEF Impatient, Step, HonestInv, HonestPasses, Honest, Vouched, Dated, Request, InTime, IsUrl, SignedOnce, Once
<1>8. CASE Tick
  <2>1. now \in Nat /\ now' = now + 1 /\ call' = call /\ conn' = conn
    BY <1>8 DEF Tick, HonestInv
  <2>2. ASSUME conn.stage # "none", InTime(now)' PROVE InTime(now)
    <3>1. CASE ~IsUrl(call.sent)
      BY <3>1 DEF InTime
    <3>2. CASE IsUrl(call.sent)
      <4> DEFINE most == call.sent.auth.expires * TicksPerSecond - (TicksPerSecond - 1)
      <4>1. call.at \in Nat /\ call.sent.auth.expires \in Nat /\ now + 1 - call.at <= most
        BY <2>1, <2>2, <3>2 DEF InTime, IsUrl, HonestInv, Dated
      <4>2. most \in Int
        BY <4>1, SigV4Assumption
      <4> HIDE DEF most
      <4>3. now - call.at <= most
        BY <2>1, <4>1, <4>2
      <4> QED BY <4>1, <4>3 DEF InTime, most
    <3> QED BY <3>1, <3>2
  <2>3. HonestPasses'
    BY <2>1, <2>2 DEF HonestInv, HonestPasses, Honest, Request, SignedOnce, Once
  <2> QED BY <2>1, <2>3 DEF HonestInv, Vouched, Dated
<1>9. CASE UNCHANGED requestVars
  BY <1>9 DEF requestVars, HonestInv, HonestPasses, Honest, Vouched, Dated, Request, InTime, IsUrl, SignedOnce, Once
<1> QED BY <1>1, <1>2, <1>3, <1>4, <1>5, <1>6, <1>7, <1>8, <1>9 DEF Next

\* The check turns no request away that was signed with the secret, means what it meant
\* when it was signed and is in time, whatever was changed on its way besides.
THEOREM HonestPass == Spec => []HonestPasses
<1>1. Init => SignInv /\ BodyInv /\ HonestInv
  BY DEF Init, Free, SignInv, ConnType, HandledWasSigned, Handled, BodyInv, KeepsStep,
         HonestInv, HonestPasses
<1>2. HonestInv => HonestPasses
  BY DEF HonestInv
<1> QED BY <1>1, <1>2, SignStep, BodyStep, HonestStep, PTL DEF Spec
=============================================================================
