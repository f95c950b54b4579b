------------------------------ MODULE Listing ------------------------------
(***************************************************************************)
(* ListObjects and ListObjectsV2 (list_objects in api/buckets.py) over a   *)
(* local directory (list_objects in storage/local.py), called by a client  *)
(* that follows the tokens from page to page.  The files come and go all   *)
(* the time: while the directories are walked, while the files found are   *)
(* looked at one by one, and between pages.                                *)
(*                                                                         *)
(* A name, of an object or of a common prefix, is its place in the order   *)
(* of names; NoName, which is before all of them, is the empty string.     *)
(* The prefix and the delimiter are the same for all pages, so a function  *)
(* gives the common prefix that a key is grouped under.                    *)
(***************************************************************************)
EXTENDS Integers, FiniteSets, SequencesExt

CONSTANTS
  Names,    \* the names of objects and common prefixes, as places in their order
  Keys,     \* those that a file may have
  Common,   \* the common prefix of each key; NoName: it has none
  Dir,      \* the directory each file is in
  MaxKeys,  \* MAX_KEYS
  Asked,    \* what clients give as max-keys
  Starts    \* the start-after (or marker) of the first page

NoName == 0

ASSUME ListingAssumption ==
  /\ Names \subseteq Nat \ {NoName} /\ IsFiniteSet(Names)
  /\ Keys \subseteq Names /\ Starts \subseteq Names \cup {NoName}
  /\ DOMAIN Dir = Keys
  /\ MaxKeys \in Nat \ {0} /\ Asked \subseteq Int
  /\ Common \in [Keys -> Names \cup {NoName}]
  \* A common prefix is a prefix of its keys, and the names that begin with it are
  \* together in the order, from the prefix itself on.
  /\ \A k \in Keys : Common[k] <= k
  /\ \A j, k \in Keys : Common[k] <= j /\ j <= k => Common[j] = Common[k] \/ Common[k] = NoName

VARIABLES
  bucket,     \* whether there is the bucket
  store,      \* the files in it
  stage,      \* the client and its request: "asked", "walking", "paging",
              \* "answered", "done", "refused" or "broken"
  asked,      \* max-keys
  start,      \* start-after
  pivot,      \* the name this page begins after
  unread,     \* the directories still to be walked
  found,      \* the keys found and not yet looked at
  contents, prefixes,  \* the two lists of the page
  last,       \* the last name put on it
  truncated,  \* whether there is more
  listed,     \* the names on the pages before
  steady,     \* for the properties: the files there were all the time
  seen        \* and those there were at some time

listVars == <<bucket, store, stage, asked, start, pivot, unread, found, contents, prefixes, last,
              truncated, listed, steady, seen>>

Init ==
  /\ bucket \in BOOLEAN
  /\ store \in SUBSET Keys /\ steady = store /\ seen = store
  /\ store # {} => bucket
  /\ stage = "asked" /\ asked \in Asked
  /\ start \in Starts /\ pivot = start
  /\ unread = {} /\ found = {}
  /\ contents = << >> /\ prefixes = << >> /\ last = NoName /\ truncated = FALSE
  /\ listed = {}
-----------------------------------------------------------------------------
\* max_keys
Limit == IF asked < MaxKeys THEN asked ELSE MaxKeys

\* A page is asked for.  A max-keys that is negative, or no number at all, is refused,
\* and then a bucket that is not there, or the walk begins.
Ask ==
  /\ stage = "asked"
  /\ stage' = IF Limit < 0 \/ ~bucket THEN "refused" ELSE "walking"
  /\ unread' = {Dir[k] : k \in Keys}
  /\ found' = {} /\ contents' = << >> /\ prefixes' = << >> /\ last' = NoName
  /\ truncated' = FALSE
  /\ UNCHANGED <<bucket, store, asked, start, pivot, listed, steady, seen>>

\* os.walk reads one directory.
Walk(d) ==
  /\ stage = "walking" /\ d \in unread
  /\ unread' = unread \ {d}
  /\ found' = found \cup {k \in store : Dir[k] = d}
  /\ stage' = IF unread' = {} THEN "paging" ELSE "walking"
  /\ UNCHANGED <<bucket, store, asked, start, pivot, contents, prefixes, last, truncated, listed,
                 steady, seen>>

\* The key, or the prefix it is grouped under, is not for this page: it is before
\* the page, or the prefix was reported already.
\* Two bugs for OnceInOrder: a prefix at the end of the page before is not remembered,
BeforePage(k) ==
  \/ pivot # NoName /\ k <= pivot
  \/ Common[k] # NoName /\ Common[k] = last
\* or the prefix that was just put on the page is not.
AtPivot(k) == pivot # NoName /\ (k <= pivot \/ Common[k] = pivot)
Skipped(k) ==
  \/ pivot # NoName /\ k <= pivot
  \/ Common[k] # NoName /\ (Common[k] = last \/ (pivot # NoName /\ Common[k] = pivot))

\* A bug for TypeOK: one name too many.
Over == Len(contents) + Len(prefixes) > Limit
Full == Len(contents) + Len(prefixes) >= Limit

Added(k) ==
  IF Common[k] # NoName
    THEN prefixes' = Append(prefixes, Common[k]) /\ last' = Common[k] /\ UNCHANGED contents
    ELSE contents' = Append(contents, k) /\ last' = k /\ UNCHANGED prefixes

\* What is left to look at after file k, which was removed since it was found.
\* A bug for ReportsSteady: the listing ends there.
NothingAfter(k) == {}
RestAfter(k) == found \ {k}

\* The next file, in the order of the keys: it is gone, not for this page, too much
\* for it, or put on it.
Look(k) ==
  /\ stage = "paging" /\ k \in found /\ \A j \in found : k <= j
  /\ IF k \notin store
       THEN found' = RestAfter(k) /\ UNCHANGED <<stage, contents, prefixes, last, truncated>>
     ELSE IF Skipped(k)
       THEN found' = found \ {k} /\ UNCHANGED <<stage, contents, prefixes, last, truncated>>
     ELSE IF Full
       THEN truncated' = TRUE /\ stage' = "answered" /\ found' = {}
            /\ UNCHANGED <<contents, prefixes, last>>
     ELSE Added(k) /\ found' = found \ {k} /\ UNCHANGED <<stage, truncated>>
  /\ UNCHANGED <<bucket, store, asked, start, pivot, unread, listed, steady, seen>>

\* stat() of the next file raises another error than FileNotFoundError, because it may
\* not be looked at or a directory above it is one no more, and there is no answer.
Break ==
  /\ stage = "paging" /\ found # {}
  /\ stage' = "broken"
  /\ found' = {} /\ contents' = << >> /\ prefixes' = << >>
  /\ UNCHANGED <<bucket, store, asked, start, pivot, unread, last, truncated, listed,
                 steady, seen>>

EndOfFiles ==
  /\ stage = "paging" /\ found = {}
  /\ stage' = "answered"
  /\ UNCHANGED <<bucket, store, asked, start, pivot, unread, found, contents, prefixes,
                 last, truncated, listed, steady, seen>>

\* Whether the page has a token, which is the last name on it
\* A bug for ListingEnds: a page on which there is no room has one too.
AlwaysToken == truncated
HasToken == truncated /\ last # NoName

\* The names on the page
OnPage == ToSet(contents) \cup ToSet(prefixes)

\* The client goes on from the token.
Follow ==
  /\ stage = "answered"
  /\ listed' = listed \cup OnPage
  /\ IF HasToken
       THEN stage' = "asked" /\ pivot' = last
       ELSE stage' = "done" /\ UNCHANGED pivot
  /\ contents' = << >> /\ prefixes' = << >>
  /\ UNCHANGED <<bucket, store, asked, start, unread, found, last, truncated, steady, seen>>

\* The listing is over: the client has it all or was turned away.
Ended == {"done", "refused", "broken"}

\* A file is written or removed, the bucket made or, when it is empty, removed.
Change(k) ==
  /\ stage \notin Ended /\ bucket
  /\ store' = IF k \in store THEN store \ {k} ELSE store \cup {k}
  /\ steady' = steady \ {k}
  /\ seen' = seen \cup {k}
  /\ UNCHANGED <<bucket, stage, asked, start, pivot, unread, found, contents, prefixes,
                 last, truncated, listed>>
ChangeBucket ==
  /\ stage \notin Ended /\ store = {}
  /\ bucket' = ~bucket
  /\ UNCHANGED <<store, stage, asked, start, pivot, unread, found, contents, prefixes,
                 last, truncated, listed, steady, seen>>

Page == \/ Ask \/ (\E d \in unread : Walk(d)) \/ (\E k \in found : Look(k)) \/ EndOfFiles \/ Follow

Next == Page \/ Break \/ (\E k \in Keys : Change(k)) \/ ChangeBucket
Spec == Init /\ [][Next]_listVars
\* The server answers and the client goes on; nobody has to change the files, and no file
\* has to fail.
FairSpec == Spec /\ WF_listVars(Page)
-----------------------------------------------------------------------------
\* Every variable has its type, and a page has at most max-keys names.
TypeOK ==
  /\ {store, found, steady, seen} \subseteq SUBSET Keys
  /\ contents \in Seq(Keys) /\ prefixes \in Seq(Names) /\ listed \subseteq Names
  /\ stage \in {"asked", "walking", "paging", "answered"} \cup Ended
  /\ bucket \in BOOLEAN /\ asked \in Asked
  /\ {start, pivot, last} \subseteq Names \cup {NoName}
  /\ unread \subseteq {Dir[k] : k \in Keys}
  /\ truncated \in BOOLEAN
  /\ Len(contents) + Len(prefixes) <= Limit \/ Limit < 0

Increasing(names) == \A i, j \in DOMAIN names : i < j => names[i] < names[j]

\* No name comes twice: the two lists of a page are in order and share none, and they come
\* after all names on the pages before, so that no common prefix is listed once for every
\* key of it, nor once more with the keys of it that came later.
OnceInOrder ==
  /\ Increasing(contents) /\ Increasing(prefixes)
  /\ ToSet(contents) \cap ToSet(prefixes) = {}
  /\ \A n \in OnPage, m \in listed : m < n

\* The names a listing of the files in S gives.
ListingOf(S) ==
  {IF Common[k] = NoName THEN k ELSE Common[k] :
     k \in {j \in S : j > start /\ (start = NoName \/ Common[j] # start)}}

\* A finished listing of pages with room for a name has that of every file that was
\* there all the time, alone or by its common prefix, and none has a name without a file
\* that was there at some time.
ReportsSteady ==
  stage = "done" =>
    /\ Limit > 0 => ListingOf(steady) \subseteq listed
    /\ listed \subseteq ListingOf(seen)

\* The client that follows the tokens comes to an end, or is turned away, though files
\* come and go.
ListingEnds == <>(stage \in Ended)
=============================================================================
