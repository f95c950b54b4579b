----------------------------- MODULE MCRequests -----------------------------
(* Calls that differ in what canonicalisation forgets and in what it must  *)
(* not, and one or two for every route, for TLC.                           *)
EXTENDS Requests

CONSTANTS key, otherKey, secret, otherSecret, empty, unsigned, streaming, forever, one, two

Pair(n, v, s) == [name |-> n, value |-> v, spelling |-> s]
Text(text, spacing) == [text |-> text, spacing |-> spacing]
NoAuth == [kind |-> "none", flaw |-> "none", key |-> key, scope |-> "eu", date |-> 0, expires |-> 0,
           names |-> << >>, payload |-> empty, stray |-> << >>]
Ask(method, path, query, headers, body) ==
  [method |-> method, path |-> path, query |-> query, headers |-> headers, body |-> body]

Plain == [host |-> <<Text("h", 1)>>]
Twice == Pair("acl", empty, 1)
Listings ==
  {Ask("GET", "/bucket", q, Plain, empty) :
     q \in { << >>, <<Pair("a", "1", 1), Twice>>, <<Twice, Pair("a", "1", 2)>>,
             <<Pair("a", "1", 1), Twice, Twice>>, <<Pair("a", "2", 1), Twice>> }}
Spaced == {Ask("GET", "/bucket", << >>, h, empty) :
             h \in {[host |-> <<Text("h", 2)>>], [host |-> <<Text("g", 1)>>]}
                   \cup {[host |-> <<Text("h", 1)>>, range |-> lines] :
                           lines \in {<<Text("p", 1)>>, <<Text("q", 1), Text("p", 1)>>,
                                     <<Text("p", 1), Text("q", 1)>>}}}
WithBodies == {Ask("POST", p, << >>, Plain, b) : p \in {"/", "/bucket", "/bucket/key"}, b \in {one, two}}
Rest == {Ask("PUT", "/bucket/key", << >>, Plain, one), Ask("POST", "/health", << >>, Plain, one),
         Ask("GET", "/health", << >>, Plain, empty), Ask("HEAD", "/bucket/key", << >>, Plain, empty),
         Ask("POST", "/bucket/key", <<Pair("select", empty, 1)>>, Plain, one),
         Ask("GET", "/bucket", <<Pair("location", empty, 1)>>, Plain, empty),
         Ask("HEAD", "/health", << >>, Plain, empty), Ask("GET", "/", << >>, Plain, empty)}
SomeCalls == Listings \cup Spaced \cup WithBodies \cup Rest

\* One thing about a call may change on the way.
OneChange == [c \in SomeCalls |-> {d \in SomeCalls : Cardinality({f \in DOMAIN c : c[f] # d[f]}) < 2}]

HeaderAuth == [NoAuth EXCEPT !.kind = "header", !.names = <<"host">>]
UrlAuth == [HeaderAuth EXCEPT !.kind = "url", !.expires = 1]
SomeProofs ==
  {NoAuth, HeaderAuth, UrlAuth, [UrlAuth EXCEPT !.expires = 2], [UrlAuth EXCEPT !.expires = forever],
   [HeaderAuth EXCEPT !.key = otherKey], [HeaderAuth EXCEPT !.names = <<"host", "range">>]}
  \cup {[HeaderAuth EXCEPT !.payload = h] : h \in {unsigned, streaming, Sha256(one)}}
  \cup {[a EXCEPT !.flaw = f] : a \in {HeaderAuth, UrlAuth}, f \in {"algorithm", "fields", "scope"}}

\* Proofs altered on the way: another key and date, another hash, fewer signed headers, a
\* signature of other letters, a later date of a URL, and a URL's proof as a header.
SomeForged ==
  {[HeaderAuth EXCEPT !.key = key, !.date = 1], [HeaderAuth EXCEPT !.payload = Sha256(two)],
   HeaderAuth, [HeaderAuth EXCEPT !.flaw = "letters"], [UrlAuth EXCEPT !.date = 1],
   [HeaderAuth EXCEPT !.payload = unsigned, !.stray = <<key, 1>>]}
=============================================================================
