------------------------------ MODULE Delivery ------------------------------
(***************************************************************************)
(* The site over HTTP, from its build to a visitor's screen: deploys that  *)
(* replace all assets at once, route and serve_asset, and one visitor's    *)
(* browser with its cache.                                                 *)
(*                                                                         *)
(* The visitor opens Page, over and over; the browser then wants what the  *)
(* page names. Requests and answers take any time, and deploys happen in   *)
(* between. Content stands for its hash, so it is its own ETag.            *)
(***************************************************************************)
EXTENDS Site

CONSTANTS Trees,      \* what builds find in public/: sets of files, or NoPublic
          Unreadable, \* bound: the sets of files a build may fail to read
          Page,       \* the path the visitor opens
          Paths,      \* Page and the paths that pages name
          Names,      \* the paths a page's content names
          Accepts,    \* the sets of encodings browsers name
          PageAge,    \* max-age of pages and everything else, in ticks
          LongAge,    \* max-age of long-lived assets
          MaxDeploys, \* bound: stops of the server
          NoPublic,   \* there is no public/
          None        \* no entry, no request, no answer, nothing shown

Contents == {f.content : f \in HttpFiles(UNION (Trees \ {NoPublic}))}
Cap == LongAge + 1       \* older is as good as this old
Never == LongAge + 2     \* the age of what was never served
Forever == LongAge + 3   \* stands for 31536000, immutable

Missing == "missing"   \* answered 404
Failed == "failed"     \* the server was down

(* What is cached, answered and under way. *)
Encodings == {"identity", "gzip", "br"}
TTLs == {PageAge, LongAge, Forever}
Replies ==
    [status : {304, 404}]
    \cup [status : {200}, body : Contents, enc : Encodings, ttl : TTLs]
Entries == [body : Contents, enc : Encodings, ttl : TTLs, age : 0 .. Cap]
Flights == [reply : {None} \cup Replies, age : 0 .. Cap]

(* Directory entries have names: only a path has an empty segment.         *)
Named == (STRING \X STRING) \ {Empty}

ASSUME DeliveryAssumption ==
    /\ {PageAge, LongAge, MaxDeploys} \subseteq Nat
    /\ PageAge <= LongAge
    /\ \A t \in Trees \ {NoPublic} : \A f \in t :
          f.dir \in Seq(Named) /\ <<f.name, f.ext>> \in Named
    /\ Paths \subseteq Seq(STRING \X STRING) \ {NoPath} /\ Page \in Paths
    /\ {Missing, Failed} \cap Contents = {}
    /\ None \notin Contents \cup Replies \cup Entries \cup Flights \cup {Missing, Failed}
    /\ DOMAIN Names \subseteq Contents /\ \A c \in DOMAIN Names : Names[c] \subseteq Paths

VARIABLES
    site,     \* the maps of the binary that is installed
    up,       \* it is running
    stops,    \* times it was stopped
    accept,   \* the encodings this browser names
    cache,    \* per path: an entry, or None
    flight,   \* per path: the request under way, or None
    used,     \* per path: what the visitor was shown of it
    stale,    \* history: time since a content was last to be had at a path
    pageFrom  \* history: the stops there had been when Page was last answered

server == <<site, up, stops>>
browser == <<cache, flight, used>>
vars == <<server, accept, browser, stale, pageFrom>>

(* What is to be had at a path. *)
Live(s, p) ==
    IF HttpKey(s.http, p) = NoPath THEN None
    ELSE s.http[HttpKey(s.http, p)].content

----------------------------------------------------------------------------
(* A build of the files it could read: a file that cannot be read is       *)
(* skipped with a warning. What does not compile is not installed.         *)
Readable(tree) == IF tree = NoPublic THEN {{}} ELSE {tree \ fs : fs \in Unreadable}
Builds ==
    UNION {Sites(files) : files \in
             UNION {{fs \in Readable(t) : Compiles(t # NoPublic, fs)} : t \in Trees}}

Init ==
    /\ site \in Builds
    /\ up = TRUE /\ stops = 0
    /\ accept \in Accepts
    /\ cache = [p \in Paths |-> None]
    /\ flight = [p \in Paths |-> None]
    /\ used = [p \in Paths |-> None]
    /\ stale = [p \in Paths |-> [c \in Contents |-> IF Live(site, p) = c THEN 0 ELSE Never]]
    /\ pageFrom = 0

(* systemctl stop, or a crash. *)
Stop ==
    /\ up /\ stops < MaxDeploys
    /\ up' = FALSE
    /\ stops' = stops + 1
    /\ UNCHANGED <<site, accept, browser, stale, pageFrom>>

(* systemctl start, of a new binary or, after a crash, of the old one. *)
Start ==
    /\ ~up
    /\ site' \in Builds
    /\ up' = TRUE
    /\ stale' = [p \in Paths |-> [c \in Contents |->
                    IF Live(site', p) = c THEN 0 ELSE stale[p][c]]]
    /\ UNCHANGED <<stops, accept, browser, pageFrom>>

----------------------------------------------------------------------------
(* Faulty: every answer may be kept for ever; none may be kept. *)
ForeverMaxAge(key) == Forever
NoMaxAge(key) == 0

MaxAge(key) ==
    LET file == key[Len(key)]
    IN  IF file[1] \in Fingerprinted THEN Forever
        ELSE IF file[2] \in LongLived THEN LongAge
        ELSE PageAge

(* Faulty: any ETag will do. *)
FaultyMatches(f, inm) == inm # None

(* If-None-Match names the asset's ETag. *)
Matches(f, inm) == f.content = inm

(* route and serve_asset: the answer to a request for p with the ETag inm. *)
Reply(p, inm) ==
    LET key == HttpKey(site.http, p)
        f == site.http[key]
    IN  IF key = NoPath THEN [status |-> 404]
        ELSE IF Matches(f, inm) THEN [status |-> 304]
        ELSE [status |-> 200, body |-> f.content, enc |-> Encoding(f, accept),
              ttl |-> MaxAge(key)]

ETag(p) == IF cache[p] = None THEN None ELSE cache[p].body

Answer(p) ==
    /\ up
    /\ flight[p] # None /\ flight[p].reply = None
    /\ flight' = [flight EXCEPT ![p] = [reply |-> Reply(p, ETag(p)), age |-> @.age]]
    /\ pageFrom' = IF p = Page THEN stops ELSE pageFrom
    /\ UNCHANGED <<server, accept, cache, used, stale>>

(* Nobody listens, and the reverse proxy says so. *)
Refuse(p) ==
    /\ ~up
    /\ flight[p] # None /\ flight[p].reply = None
    /\ flight' = [flight EXCEPT ![p] = None]
    /\ used' = [used EXCEPT ![p] = Failed]
    /\ UNCHANGED <<server, accept, cache, stale, pageFrom>>

----------------------------------------------------------------------------
(* The browser. An entry is used without a request while it is younger     *)
(* than the max-age it came with, counted from when it was asked for; then *)
(* it is asked for again with its ETag.                                    *)
Wanted(p) ==
    /\ used[p] = None /\ flight[p] = None
    /\ p = Page \/ (used[Page] \in DOMAIN Names /\ p \in Names[used[Page]])
Fresh(p) == cache[p] # None /\ cache[p].age < cache[p].ttl

Open ==
    /\ used[Page] # None
    /\ \A p \in Paths : flight[p] = None
    /\ used' = [p \in Paths |-> None]
    /\ UNCHANGED <<server, accept, cache, flight, stale, pageFrom>>

UseCached(p) ==
    /\ Wanted(p) /\ Fresh(p)
    /\ used' = [used EXCEPT ![p] = cache[p].body]
    /\ UNCHANGED <<server, accept, cache, flight, stale, pageFrom>>

Ask(p) ==
    /\ Wanted(p) /\ ~Fresh(p)
    /\ flight' = [flight EXCEPT ![p] = [reply |-> None, age |-> 0]]
    /\ UNCHANGED <<server, accept, cache, used, stale, pageFrom>>

Receive(p) ==
    /\ flight[p] # None /\ flight[p].reply # None
    /\ LET r == flight[p].reply
           age == flight[p].age
       IN  /\ cache' = [cache EXCEPT ![p] =
                          CASE r.status = 200 -> [body |-> r.body, enc |-> r.enc,
                                                  ttl |-> r.ttl, age |-> age]
                            [] r.status = 304 -> [@ EXCEPT !.age = age]
                            [] r.status = 404 -> None]
           /\ used' = [used EXCEPT ![p] =
                         IF r.status = 404 THEN Missing ELSE cache'[p].body]
    /\ flight' = [flight EXCEPT ![p] = None]
    /\ UNCHANGED <<server, accept, stale, pageFrom>>

Evict(p) ==
    /\ cache[p] # None /\ flight[p] = None
    /\ cache' = [cache EXCEPT ![p] = None]
    /\ UNCHANGED <<server, accept, flight, used, stale, pageFrom>>

Older(a) == IF a < Cap THEN a + 1 ELSE a
Aged(e) == IF e = None THEN None ELSE [e EXCEPT !.age = Older(@)]
Tick ==
    /\ cache' = [p \in Paths |-> Aged(cache[p])]
    /\ flight' = [p \in Paths |-> Aged(flight[p])]
    /\ stale' = [p \in Paths |-> [c \in Contents |->
                    IF Live(site, p) = c THEN 0 ELSE Older(stale[p][c])]]
    /\ UNCHANGED <<server, accept, used, pageFrom>>

Load(p) == UseCached(p) \/ Ask(p) \/ Receive(p)
Next ==
    \/ Stop \/ Start \/ Open \/ Tick
    \/ \E p \in Paths : Answer(p) \/ Refuse(p) \/ Load(p) \/ Evict(p)

Spec == Init /\ [][Next]_vars

(* The deploy script starts what it stopped, the server answers, browsers  *)
(* load what they want, time passes, and the visitor comes back. Nothing   *)
(* is assumed of stops and evictions.                                      *)
FairSpec ==
    /\ Spec
    /\ WF_vars(Start) /\ WF_vars(Open) /\ WF_vars(Tick)
    /\ WF_vars(\E p \in Paths : Answer(p) \/ Refuse(p))
    /\ WF_vars(\E p \in Paths : Load(p))

----------------------------------------------------------------------------
TypeOK ==
    /\ site \in Builds
    /\ up \in BOOLEAN /\ stops \in 0 .. MaxDeploys /\ pageFrom \in 0 .. stops
    /\ accept \in Accepts
    /\ cache \in [Paths -> {None} \cup Entries]
    /\ flight \in [Paths -> {None} \cup Flights]
    /\ used \in [Paths -> Contents \cup {None, Missing, Failed}]
    /\ stale \in [Paths -> [Contents -> 0 .. Never]]

(* An answer of 304 vouches for the very content the browser holds, so an  *)
(* entry is never older than its age says, however the deploys fall, and   *)
(* it is in an encoding the browser named.                                 *)
CacheIsHonest ==
    \A p \in Paths : cache[p] # None =>
        /\ stale[p][cache[p].body] <= cache[p].age
        /\ cache[p].enc \in accept \cup {"identity"}

(* What a visitor is shown at a path was to be had there less than its     *)
(* max-age ago (five minutes, or a month for images and fonts), or when it *)
(* was asked for; only what has its hash in its name is kept for ever.     *)
Allowed(p) ==
    LET file == IF EndsInSlash(p) /\ p # Root THEN p[Len(p) - 1] ELSE p[Len(p)]
    IN  IF file[1] \in Fingerprinted THEN Never
        ELSE IF file[2] \in LongLived THEN LongAge ELSE PageAge
ShownIsRecent ==
    [][\A p \in Paths : used'[p] # used[p] /\ used'[p] \in Contents =>
          \/ stale[p][used'[p]] < Allowed(p)
          \/ flight[p] # None /\ stale[p][used'[p]] <= flight[p].age]_vars

(* An asset that a page names is missing only if the server has been       *)
(* replaced since it last answered for the page, or was built without a    *)
(* file.                                                                   *)
Whole(s) ==
    \A k \in DOMAIN s.http : LET c == s.http[k].content
                            IN  c \in DOMAIN Names => Names[c] \subseteq DOMAIN s.http
MissingOnlyAfterDeploy ==
    Whole(site) =>
        \A p \in Paths \ {Page} : used[p] = Missing => pageFrom < stops

(* Once the deploys are over, a visitor who keeps coming is, from some     *)
(* time on, only shown the page that is deployed and, unless the build     *)
(* skipped a file, all that it names as it is deployed.                    *)
VisitorsCatchUp ==
    <>[](/\ used[Page] \in {None, IF Live(site, Page) = None THEN Missing ELSE Live(site, Page)}
         /\ Whole(site) => \A p \in Paths \ {Page} : used[p] \in {None, Live(site, p)})

(* A page is found under its directory's path, with and without the slash  *)
(* at the end, over HTTP and over Gemini; only a file whose own route is   *)
(* that path comes first.                                                  *)
PagesFound ==
    /\ \A k \in DOMAIN site.http :
         k[Len(k)] = <<"index", "html">> =>
            LET p == CutLast(k)
            IN  /\ HttpKey(site.http, Append(p, Empty)) = k
                /\ p # << >> /\ p \notin DOMAIN site.http => HttpKey(site.http, p) = k
    /\ \A k \in DOMAIN site.gemini :
         EndsInSlash(k) =>
            /\ GeminiKey(site.gemini, k) = k
            /\ CutLast(k) \notin DOMAIN site.gemini => GeminiKey(site.gemini, CutLast(k)) = k
=============================================================================
