--------------------------- MODULE UrlNormalizer ----------------------------
(***************************************************************************)
(* app/domain_logic/url_normalizer.py: which spellings of a URL share one  *)
(* row of t_crawl_url.  A URL is a record of its parts, as far as the      *)
(* normaliser tells them apart; sha256 is taken to be injective, so the    *)
(* normalised URL stands for its url_hash.  urlparse raises for a host     *)
(* that it cannot split, and so does normalize.                            *)
(***************************************************************************)
EXTENDS Integers, Sequences, FiniteSets, Functions

CONSTANTS
  Host,         \* host names as written
  Malformed,    \* those that make urlparse raise
  Lower,        \* Lower[h]: h in lower case
  Port,         \* what may follow the host: "", ":", ":80", ":8080" ...
  DefaultPort,  \* "", ":", ":80" and ":443"
  NoPort,       \* ""
  Path,         \* paths without trailing slashes and without a last ";..."
  Params,       \* what may follow the path's last ";"
  NoParams,     \* the path has no ";"
  Name, Value,  \* of query parameters
  Tracking,     \* names that _STRIP_PARAMS matches: five utm_ names, fbclid ...
  Utm,          \* names that start with "utm_"
  Blank,        \* the value of "a=" and of a bare "a"
  Decoded       \* Decoded[v]: v read as UTF-8, with the rest replaced

ASSUME UrlAssumption ==
  /\ Malformed \subseteq Host
  /\ Lower \in [Host -> Host]
  /\ DefaultPort \subseteq Port /\ NoPort \in DefaultPort
  /\ NoParams \in Params
  /\ Tracking \subseteq Name /\ Utm \subseteq Name
  /\ Blank \in Value
  /\ Decoded \in [Value -> Value]

Arg == [name : Name, value : Value]

\* slashed: does the path end in a slash (with params, "/path;params/")?
Url == [scheme : {"http", "https"}, host : Host, port : Port, path : Path,
        params : Params, slashed : BOOLEAN,
        query : Seq(Arg), fragment : BOOLEAN]

-----------------------------------------------------------------------------
(* normalize *)

\* How often each value of f occurs; a sorted query says no more than that.
Tally(f) ==
  [x \in {f[i] : i \in DOMAIN f} |-> Cardinality({i \in DOMAIN f : f[i] = x})]

\* Lower case, without a default port whatever the scheme.
Netloc(u) ==
  <<Lower[u.host], IF u.port \in DefaultPort THEN NoPort ELSE u.port>>

\* urlparse splits ";..." off the last segment and normalize drops it; behind a
\* trailing slash the last segment is empty, and nothing is split off.
PathKept(u) == <<u.path, IF u.slashed THEN u.params ELSE NoParams>>

\* parse_qsl leaves blank values out, the filter after it the tracking ones.
Keeps(a) == a.name \notin Tracking /\ a.value # Blank

KeptArgs(q) ==
  [i \in {j \in DOMAIN q : Keeps(q[j])} |->
     [name |-> q[i].name, value |-> Decoded[q[i].value]]]

Normalize(u) ==
  [netloc |-> Netloc(u), path |-> PathKept(u), args |-> Tally(KeptArgs(u.query))]

-----------------------------------------------------------------------------
(* What the design document wants it to ignore *)

\* docs/discovery-worker-design.md:246: `utm_*`, `fbclid` and the like.
Meant(a) == a.name \notin Tracking \cup Utm

MeantAt(q) == {i \in DOMAIN q : Meant(q[i])}

\* docs/discovery-worker-design.md:245-250: scheme, case of the host, default
\* port, trailing slash, fragment, tracking parameters, and (so that the order
\* of a query does not matter) any rearrangement of the others.
SameArticle(u, v) ==
  /\ Lower[u.host] = Lower[v.host]
  /\ u.port = v.port \/ {u.port, v.port} \subseteq DefaultPort
  /\ u.path = v.path /\ u.params = v.params
  /\ \E m \in Bijection(MeantAt(u.query), MeantAt(v.query)) :
       \A i \in MeantAt(u.query) : u.query[i] = v.query[m[i]]

\* No utm_ name in the query but the five that the code knows.
KnownUtm(u) ==
  \A i \in DOMAIN u.query : u.query[i].name \in Utm => u.query[i].name \in Tracking

\* A URL from which normalize takes nothing else: no ";..." and only values
\* that are there and survive decoding.
Plain(u) ==
  /\ u.params = NoParams
  /\ \A i \in MeantAt(u.query) :
       LET v == u.query[i].value IN v # Blank /\ Decoded[v] = v
=============================================================================
