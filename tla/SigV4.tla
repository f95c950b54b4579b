-------------------------------- MODULE SigV4 --------------------------------
(***************************************************************************)
(* verify (auth.py): is a request signed with the configured key?  The     *)
(* signature is in the Authorization header or in the query of a presigned *)
(* URL.  Hashes are injective: a digest is a record of what was digested,  *)
(* a signature one of the secret and the text it was made from.  Of texts  *)
(* only what canonicalisation does to them is kept: a pair of the query    *)
(* can be spelled, and a header be spaced, in several ways.                *)
(***************************************************************************)
EXTENDS Integers, SequencesExt

CONSTANTS
  AccessKey, SecretKey,   \* what the server is configured with
  Empty,                  \* the empty text; a header that is not there
  Unsigned,               \* UNSIGNED-PAYLOAD
  Streaming,              \* a payload hash that begins with STREAMING-
  Forever,                \* an X-Amz-Expires that no date can be
  TicksPerSecond          \* how much finer the server's clock is than a date

ASSUME SigV4Assumption ==
  /\ TicksPerSecond \in Nat \ {0}
  /\ Forever \notin Nat

(***************************************************************************)
(* A request is a call, that is its method and path, its query, a sequence *)
(* of [name, value, spelling], its headers, name -> the lines in which it  *)
(* came, each a [text, spacing] with no comma in its text, and its body;   *)
(* with a signature and with auth, the rest of what proves it: the kind    *)
(* ("none", "header" or "url") and the flaw in its form ("none",           *)
(* "algorithm", "fields", "scope", or "letters" for a signature that is    *)
(* not ASCII), the key and scope of its credential, the date and, of a     *)
(* URL, expires, in seconds, the names of the signed headers and the hash  *)
(* of the body that a header gives.  The parameters of a URL that are not  *)
(* its signature are signed with its query; stray are such parameters in   *)
(* the query of a request that is proved by a header.                      *)
(***************************************************************************)
With(c, auth, signature) ==
  [method |-> c.method, path |-> c.path, query |-> c.query, headers |-> c.headers,
   body |-> c.body, auth |-> auth, signature |-> signature]

IsUrl(r) == r.auth.kind = "url"
Parameters(r) == IF IsUrl(r) THEN <<r.auth.key, r.auth.expires>> ELSE r.auth.stray
Sha256(body) == [digest |-> body]
-----------------------------------------------------------------------------
\* parse_qsl of the query, with the values that are blank
Decoded(query) == [i \in DOMAIN query |-> <<query[i].name, query[i].value>>]

\* Sorted: as good as in a bag
CanonicalQuery(query) == ToBag(Decoded(query))

\* ' '.join(headers.get(name, '').split()) for the signed names: of a header that came
\* in several lines the dictionary has the last.  What a text is joined of is a sequence.
TextOf(r, n) == IF n \in DOMAIN r.headers THEN <<Last(r.headers[n]).text>> ELSE <<Empty>>
CanonicalHeaders(r) ==
  [i \in DOMAIN r.auth.names |-> <<r.auth.names[i], TextOf(r, r.auth.names[i])>>]

PayloadHash(r) ==
  IF IsUrl(r) THEN Unsigned
  ELSE IF r.auth.payload = Empty THEN Sha256(r.body) ELSE r.auth.payload

StringToSign(r) ==
  [method |-> r.method, path |-> r.path,
   query |-> CanonicalQuery(r.query), headers |-> CanonicalHeaders(r),
   payload |-> PayloadHash(r), date |-> r.auth.date, scope |-> r.auth.scope,
   url |-> Parameters(r)]

\* A bug for HonestPasses: the last second does not count.
ExpiredEarly(auth, now) == now >= (auth.date + auth.expires) * TicksPerSecond
Expired(auth, now) == now > (auth.date + auth.expires) * TicksPerSecond

\* A bug for HandledWasSigned: the hash in the header is believed.
HashBelieved(r) == FALSE
HashWrong(r) == r.auth.payload \notin {Empty, Unsigned, Streaming, Sha256(r.body)}

\* What is wrong with how the request proves itself, before its credential is looked
\* at: the code of the S3Error, "ok", or an exception of another kind when the date
\* cannot be computed.
Presented(r, now) ==
  CASE IsUrl(r) /\ r.auth.flaw \in {"algorithm", "fields"} -> "AuthorizationQueryParametersError"
    [] IsUrl(r) /\ r.auth.flaw \notin {"algorithm", "fields"} ->
         IF r.auth.expires = Forever THEN "OverflowError"
         ELSE IF Expired(r.auth, now) THEN "AccessDenied" ELSE "ok"
    [] r.auth.kind = "header" ->
         IF r.auth.flaw = "algorithm" THEN "InvalidRequest"
         ELSE IF r.auth.flaw = "fields" THEN "AuthorizationHeaderMalformed"
         ELSE IF HashWrong(r) THEN "XAmzContentSHA256Mismatch" ELSE "ok"
    [] OTHER -> "AccessDenied"

Verify(r, now) ==
  IF Presented(r, now) # "ok" THEN Presented(r, now)
  ELSE IF r.auth.flaw = "scope" THEN "AuthorizationHeaderMalformed"
  ELSE IF r.auth.key # AccessKey THEN "InvalidAccessKeyId"
  ELSE IF r.auth.flaw = "letters" THEN "TypeError"
  ELSE IF r.signature # [secret |-> SecretKey, text |-> StringToSign(r)]
    THEN "SignatureDoesNotMatch"
  ELSE "ok"
-----------------------------------------------------------------------------
(* What a client signs (the protocol's rule): every pair of the query,     *)
(* blank or not, as often as it is there, a header with all its lines, and *)
(* the rest as it is meant.                                                *)

Occurrences(query, p) ==
  Cardinality({i \in DOMAIN query : query[i].name = p[1] /\ query[i].value = p[2]})

Texts(r, n) ==
  IF n \in DOMAIN r.headers THEN [i \in DOMAIN r.headers[n] |-> r.headers[n][i].text]
  ELSE <<Empty>>

Meaning(r) ==
  [method |-> r.method, path |-> r.path,
   query |-> [p \in {<<r.query[i].name, r.query[i].value>> : i \in DOMAIN r.query} |->
                Occurrences(r.query, p)],
   headers |-> [i \in DOMAIN r.auth.names |->
                  <<r.auth.names[i], Texts(r, r.auth.names[i])>>],
   payload |-> IF IsUrl(r) THEN Unsigned
               ELSE IF r.auth.payload = Empty THEN Sha256(r.body) ELSE r.auth.payload,
   date |-> r.auth.date, scope |-> r.auth.scope, url |-> Parameters(r)]

Signed(c, auth, secret) ==
  With(c, auth, [secret |-> secret, text |-> Meaning(With(c, auth, Empty))])

\* The signature vouches for the body as well.
BodySigned(r) == ~IsUrl(r) /\ r.auth.payload \notin {Unsigned, Streaming}

Once(r, n) == n \in DOMAIN r.headers => Len(r.headers[n]) = 1
SignedOnce(r) == \A i \in DOMAIN r.auth.names : Once(r, r.auth.names[i])
=============================================================================
