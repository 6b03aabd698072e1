--------------------------- MODULE DeliveryProofs ---------------------------
(***************************************************************************)
(* Proofs about Delivery, for any trees, paths, ages and any number of     *)
(* deploys: what a browser holds is as recent as its age says, what a      *)
(* visitor is shown is as recent as its max-age says, and a miss of an     *)
(* asset means that the server was replaced since it answered for the page.*)
(***************************************************************************)
EXTENDS Delivery, SequenceTheorems, TLAPS

(* Everything that a build can be asked for is the content of a file. *)
LEMMA TablesHoldFiles ==
    ASSUME NEW s \in Builds
    PROVE  \A k \in DOMAIN s.http : s.http[k].content \in Contents
<1>1. PICK t \in Trees : \E files \in Readable(t) :
          Compiles(t # NoPublic, files) /\ s \in Sites(files)
  BY DEF Builds
<1>2. PICK files \in Readable(t) : s \in Sites(files)
  BY <1>1
<1>3. files = {} \/ (t # NoPublic /\ files \subseteq t)
  BY <1>2 DEF Readable
<1>4. HttpFiles(files) \subseteq HttpFiles(UNION (Trees \ {NoPublic}))
  BY <1>3 DEF HttpFiles
<1>5. s.http \in Tables([f \in HttpFiles(files) |-> HttpRoute(f)])
  BY <1>2 DEF Sites
<1>6. \A k \in DOMAIN s.http : s.http[k] \in HttpFiles(files)
  BY <1>5 DEF Tables
<1> QED
  BY <1>4, <1>6 DEF Contents

LEMMA LiveType ==
    ASSUME NEW s \in Builds, NEW p
    PROVE  Live(s, p) \in Contents \cup {None}
<1>1. HttpKey(s.http, p) = NoPath \/ HttpKey(s.http, p) \in DOMAIN s.http
  BY DEF HttpKey
<1> QED
  BY <1>1, TablesHoldFiles DEF Live

----------------------------------------------------------------------------
(* The ages, as numbers. *)
LEMMA Ages ==
    /\ Cap \in Nat /\ Never \in Nat /\ Forever \in Nat
    /\ PageAge \in Nat /\ LongAge \in Nat
    /\ PageAge <= LongAge /\ LongAge < Cap /\ Cap < Never /\ Never < Forever
BY DeliveryAssumption DEF Cap, Never, Forever

LEMMA OlderType ==
    /\ \A a \in 0 .. Cap : Older(a) \in 0 .. Cap
    /\ \A a \in 0 .. Never : Older(a) \in 0 .. Never
    /\ \A a \in 0 .. Never, b \in 0 .. Cap : a <= b => Older(a) <= Older(b)
BY Ages DEF Older

(* What may be kept for ever or for a month is what has its hash in its    *)
(* name, or an image or a font, whichever of the three keys is found.      *)
MayKeep(ttl, p) == IF ttl = Forever THEN Allowed(p) = Never ELSE ttl <= Allowed(p)

Segments == (STRING \X STRING) \cup {Empty, <<"index", "html">>}

(* The last segment of a path that has been cut or extended. *)
LEMMA LastOfAppend ==
    ASSUME NEW s \in Seq(Segments), NEW e \in Segments
    PROVE  Append(s, e)[Len(Append(s, e))] = e
BY AppendProperties

LEMMA LastOfCut ==
    ASSUME NEW p \in Seq(Segments), p # << >>, EndsInSlash(p), p # Root
    PROVE  /\ Len(CutLast(p)) = Len(p) - 1
           /\ CutLast(p)[Len(p) - 1] = p[Len(p) - 1]
<1>1. Len(p) \in Nat /\ Len(p) # 0
  BY EmptySeq, LenProperties
<1>2. Len(p) # 1
  <2> SUFFICES ASSUME Len(p) = 1 PROVE FALSE
    OBVIOUS
  <2>1. Empty \in Segments
    BY DEF Segments
  <2>2. Root \in Seq(Segments) /\ Len(Root) = 1 /\ Root[1] = Empty
    BY <2>1 DEF Root
  <2>3. p[1] = Empty
    BY DEF EndsInSlash
  <2>4. Len(p) = Len(Root) /\ \A i \in 1 .. Len(p) : p[i] = Root[i]
    BY <2>2, <2>3
  <2>5. p = Root
    BY <2>2, <2>4, SeqEqual
  <2> QED
    BY <2>5
<1>3. \A i \in 1 .. Len(p) - 1 : p[i] \in Segments
  BY <1>1, ElementOfSeq
<1> DEFINE n == Len(p) - 1
<1>4. n \in Int /\ 1 \in Int /\ 1 <= n /\ n - 1 + 1 = n
  <2>1. n \in Int
    BY <1>1
  <2>2. 1 \in Int
    OBVIOUS
  <2>3. \A k \in Nat : k # 0 /\ k # 1 => 1 <= k - 1
    OBVIOUS
  <2>4. 1 <= n
    BY <1>1, <1>2, <2>3, Zenon
  <2>5. n - 1 + 1 = n
    BY <2>1
  <2> QED
    BY <2>1, <2>2, <2>4, <2>5
<1> HIDE DEF n
<1>5. /\ Len(SubSeq(p, 1, n)) = n - 1 + 1
      /\ \A i \in 1 .. n - 1 + 1 : SubSeq(p, 1, n)[i] = p[1 + i - 1]
  <2>1. \A i \in 1 .. n : p[i] \in Segments
    BY <1>3 DEF n
  <2> QED
    BY <1>4, <2>1, SubSeqProperties
<1>6. n \in 1 .. n - 1 + 1 /\ 1 + n - 1 = n
  BY <1>4
<1> QED
  BY <1>4, <1>5, <1>6 DEF CutLast, n

LEMMA CutLastType ==
    ASSUME NEW p \in Seq(Segments), p # << >>
    PROVE  CutLast(p) \in Seq(Segments)
<1>1. Len(p) \in Nat /\ Len(p) # 0
  BY EmptySeq, LenProperties
<1>2. \A i \in 1 .. Len(p) - 1 : p[i] \in Segments
  BY <1>1, ElementOfSeq
<1> QED
  BY <1>1, <1>2, SubSeqProperties DEF CutLast

LEMMA MaxAgeIsAllowed ==
    ASSUME NEW p \in Paths, NEW table, HttpKey(table, p) # NoPath
    PROVE  /\ MaxAge(HttpKey(table, p)) \in TTLs
           /\ MayKeep(MaxAge(HttpKey(table, p)), p)
<1> DEFINE key == HttpKey(table, p)
           last == key[Len(key)]
<1>1. p \in Seq(Segments) /\ p # << >>
  <2>1. p \in Seq(STRING \X STRING) /\ p # << >>
    BY DeliveryAssumption DEF NoPath
  <2>2. STRING \X STRING \subseteq Segments
    BY DEF Segments
  <2> QED
    BY <2>1, <2>2, SeqMonotonic
<1>2. /\ "" \notin Fingerprinted /\ "index" \notin Fingerprinted
      /\ "" \notin LongLived /\ "html" \notin LongLived
  BY SiteAssumption DEF LongLived
<1>3. <<"index", "html">> \in Segments
  BY DEF Segments
<1>4. key = WithIndex(p) => last = <<"index", "html">>
  BY <1>1, <1>3, CutLastType, LastOfAppend DEF WithIndex
<1>5. EndsInSlash(p) /\ p # Root /\ key = CutLast(p) => last = p[Len(p) - 1]
  BY <1>1, LastOfCut
<1>6. \/ key = p
      \/ key = WithIndex(p)
      \/ EndsInSlash(p) /\ p # Root /\ key = CutLast(p)
  BY DEF HttpKey
<1>7. \/ last = <<"index", "html">>
      \/ last = p[Len(p)] /\ (EndsInSlash(p) => last = Empty)
      \/ EndsInSlash(p) /\ p # Root /\ last = p[Len(p) - 1]
  BY <1>4, <1>5, <1>6 DEF EndsInSlash
<1> HIDE DEF last
<1> DEFINE file == IF EndsInSlash(p) /\ p # Root THEN p[Len(p) - 1] ELSE p[Len(p)]
<1>8. (last[1] \notin Fingerprinted /\ last[2] \notin LongLived) \/ last = file
  <2>1. CASE last = <<"index", "html">>
    BY <1>2, <2>1
  <2>2. CASE last = Empty
    BY <1>2, <2>2 DEF Empty
  <2>3. CASE last = file
    BY <2>3
  <2> QED
    BY <1>7, <2>1, <2>2, <2>3
<1> HIDE DEF file
<1>9. Allowed(p) = IF file[1] \in Fingerprinted THEN Never
                   ELSE IF file[2] \in LongLived THEN LongAge ELSE PageAge
  BY DEF Allowed, file
<1>10. MaxAge(key) = IF last[1] \in Fingerprinted THEN Forever
                     ELSE IF last[2] \in LongLived THEN LongAge ELSE PageAge
  BY DEF MaxAge, last
<1> HIDE DEF key
<1>11. MaxAge(key) \in TTLs /\ MayKeep(MaxAge(key), p)
  BY <1>8, <1>9, <1>10, Ages DEF TTLs, MayKeep
<1> QED
  BY <1>11 DEF key

(* A reply of 200 hands out what is to be had at the path, in an encoding  *)
(* the browser named and to be kept no longer than allowed; one of 304     *)
(* says that the browser has it already.                                   *)
Fits(p, e) == e.enc \in accept \cup {"identity"} /\ MayKeep(e.ttl, p)

LEMMA ReplyIsLive ==
    ASSUME site \in Builds, NEW p \in Paths, NEW inm, NEW r, r = Reply(p, inm)
    PROVE  /\ r \in Replies
           /\ r.status = 200 => r.body = Live(site, p) /\ r.body \in Contents /\ Fits(p, r)
           /\ r.status = 304 => inm = Live(site, p) /\ inm \in Contents
<1> DEFINE key == HttpKey(site.http, p)
           f == site.http[key]
<1>1. CASE key = NoPath
  <2>1. r = [status |-> 404]
    BY <1>1 DEF Reply
  <2> QED
    BY <2>1 DEF Replies
<1>2. CASE key # NoPath
  <2>1. f.content = Live(site, p)
    BY <1>2 DEF Live
  <2>2. f.content \in Contents
    <3>1. key \in DOMAIN site.http
      BY <1>2 DEF HttpKey
    <3> QED
      BY <3>1, TablesHoldFiles
  <2>3. MaxAge(key) \in TTLs /\ MayKeep(MaxAge(key), p)
    BY <1>2, MaxAgeIsAllowed
  <2>4. Encoding(f, accept) \in Encodings \cap (accept \cup {"identity"})
    BY DEF Encoding, Encodings
  <2>5. CASE Matches(f, inm)
    <3>1. r = [status |-> 304]
      BY <1>2, <2>5 DEF Reply
    <3> QED
      BY <2>1, <2>2, <2>5, <3>1 DEF Replies, Matches
  <2>6. CASE ~Matches(f, inm)
    <3>1. r = [status |-> 200, body |-> f.content, enc |-> Encoding(f, accept),
               ttl |-> MaxAge(key)]
      BY <1>2, <2>6 DEF Reply
    <3> HIDE DEF key, f
    <3> QED
      BY <2>1, <2>2, <2>3, <2>4, <3>1 DEF Replies, Fits, TTLs
  <2> QED
    BY <2>5, <2>6
<1> QED
  BY <1>1, <1>2

----------------------------------------------------------------------------
(* The inductive invariant: what is to be had now is of no age; an entry,  *)
(* and an answer on its way, is as recent as its age says.                 *)
LiveIsNew ==
    \A p \in Paths : Live(site, p) \in Contents => stale[p][Live(site, p)] = 0
EntryHolds(p) ==
    cache[p] # None => stale[p][cache[p].body] <= cache[p].age /\ Fits(p, cache[p])
ReplyHolds(p) ==
    flight[p] # None /\ flight[p].reply # None =>
        /\ flight[p].reply.status = 200 =>
             /\ stale[p][flight[p].reply.body] <= flight[p].age
             /\ Fits(p, flight[p].reply)
        /\ flight[p].reply.status = 304 =>
             cache[p] # None /\ stale[p][cache[p].body] <= flight[p].age
Inv == TypeOK /\ LiveIsNew /\ \A p \in Paths : EntryHolds(p) /\ ReplyHolds(p)

LEMMA InitInv == Init => Inv
<1> SUFFICES ASSUME Init PROVE Inv
  OBVIOUS
<1>1. TypeOK
  BY Ages, DeliveryAssumption DEF Init, TypeOK
<1>2. LiveIsNew
  BY DEF Init, LiveIsNew
<1>3. \A p \in Paths : EntryHolds(p) /\ ReplyHolds(p)
  BY DEF Init, EntryHolds, ReplyHolds
<1> QED
  BY <1>1, <1>2, <1>3 DEF Inv

(* The server's steps leave the browser as it is; a start may make a       *)
(* content new again, and none older.                                      *)
LEMMA StopInv == ASSUME Inv, Stop PROVE Inv'
<1>1. UNCHANGED <<site, accept, cache, flight, used, stale, pageFrom>>
  BY DEF Stop, browser
<1>2. up' \in BOOLEAN /\ stops' \in 0 .. MaxDeploys /\ pageFrom' \in 0 .. stops'
  <2>1. stops \in 0 .. MaxDeploys /\ pageFrom \in 0 .. stops /\ MaxDeploys \in Nat
    BY DeliveryAssumption DEF Inv, TypeOK
  <2>2. stops < MaxDeploys /\ stops' = stops + 1
    BY DEF Stop
  <2>3. up' \in BOOLEAN
    BY DEF Stop
  <2> QED
    BY <1>1, <2>1, <2>2, <2>3
<1>3. TypeOK'
  BY <1>1, <1>2 DEF Inv, TypeOK
<1>4. LiveIsNew'
  BY <1>1 DEF Inv, LiveIsNew, Live
<1>5. \A p \in Paths : EntryHolds(p)' /\ ReplyHolds(p)'
  BY <1>1 DEF Inv, EntryHolds, ReplyHolds, Fits
<1> QED
  BY <1>3, <1>4, <1>5 DEF Inv

LEMMA StartInv == ASSUME Inv, Start PROVE Inv'
<1>1. UNCHANGED <<accept, cache, flight, used, stops, pageFrom>>
  BY DEF Start, browser
<1>2. \A p \in Paths : stale'[p] = [c \in Contents |->
          IF Live(site', p) = c THEN 0 ELSE stale[p][c]]
  BY DEF Start
<1>3. stale' \in [Paths -> [Contents -> 0 .. Never]]
  BY Ages DEF Inv, TypeOK, Start
<1>4. TypeOK'
  BY <1>1, <1>3 DEF Inv, TypeOK, Start
<1>5. LiveIsNew'
  BY <1>2 DEF LiveIsNew
<1>6. ASSUME NEW p \in Paths, NEW c \in Contents, NEW n \in 0 .. Cap,
             stale[p][c] <= n
      PROVE  stale'[p][c] <= n
  <2>1. stale[p][c] \in 0 .. Never /\ (stale'[p][c] = 0 \/ stale'[p][c] = stale[p][c])
    BY <1>2 DEF Inv, TypeOK
  <2> QED
    BY <1>6, <2>1, Ages
<1>7. ASSUME NEW p \in Paths PROVE EntryHolds(p)'
  <2> SUFFICES ASSUME cache[p] # None
               PROVE  stale'[p][cache[p].body] <= cache[p].age /\ Fits(p, cache[p])'
    BY <1>1 DEF EntryHolds
  <2>1. cache[p].body \in Contents /\ cache[p].age \in 0 .. Cap
    BY DEF Inv, TypeOK, Entries
  <2>2. stale[p][cache[p].body] <= cache[p].age /\ Fits(p, cache[p])
    BY DEF Inv, EntryHolds
  <2>3. Fits(p, cache[p])'
    BY <1>1, <2>2 DEF Fits
  <2> QED
    BY <1>6, <2>1, <2>2, <2>3
<1>8. ASSUME NEW p \in Paths PROVE ReplyHolds(p)'
  <2> SUFFICES ASSUME flight[p] # None, flight[p].reply # None PROVE ReplyHolds(p)'
    BY <1>1 DEF ReplyHolds
  <2>1. flight[p].reply \in Replies /\ flight[p].age \in 0 .. Cap
    BY DEF Inv, TypeOK, Flights
  <2>2. ReplyHolds(p)
    BY DEF Inv
  <2>3. ASSUME flight[p].reply.status = 200
        PROVE  stale'[p][flight[p].reply.body] <= flight[p].age /\ Fits(p, flight[p].reply)'
    <3>1. flight[p].reply.body \in Contents
      BY <2>1, <2>3 DEF Replies
    <3>2. stale[p][flight[p].reply.body] <= flight[p].age /\ Fits(p, flight[p].reply)
      BY <2>2, <2>3 DEF ReplyHolds
    <3>3. Fits(p, flight[p].reply)'
      BY <1>1, <3>2 DEF Fits
    <3> QED
      BY <1>6, <2>1, <3>1, <3>2, <3>3
  <2>4. ASSUME flight[p].reply.status = 304
        PROVE  cache[p] # None /\ stale'[p][cache[p].body] <= flight[p].age
    <3>1. cache[p] # None /\ stale[p][cache[p].body] <= flight[p].age
      BY <2>2, <2>4 DEF ReplyHolds
    <3>2. cache[p].body \in Contents
      BY <3>1 DEF Inv, TypeOK, Entries
    <3> QED
      BY <1>6, <2>1, <3>1, <3>2
  <2> QED
    BY <1>1, <2>3, <2>4 DEF ReplyHolds
<1> QED
  BY <1>4, <1>5, <1>7, <1>8 DEF Inv

(* Time passes: what is not to be had grows older with the entries. *)
LEMMA AgedEntry ==
    ASSUME NEW e \in Entries
    PROVE  Aged(e) = [body |-> e.body, enc |-> e.enc, ttl |-> e.ttl, age |-> Older(e.age)]
BY DeliveryAssumption DEF Aged, Entries

LEMMA AgedFlight ==
    ASSUME NEW e \in Flights, e # None
    PROVE  Aged(e) = [reply |-> e.reply, age |-> Older(e.age)]
BY DEF Aged, Flights

LEMMA TickAges ==
    ASSUME Inv, Tick
    PROVE  /\ \A p \in Paths : cache[p] # None =>
                /\ cache[p] \in Entries /\ cache'[p] \in Entries /\ cache'[p] # None
                /\ cache'[p].body = cache[p].body /\ cache'[p].age = Older(cache[p].age)
                /\ cache'[p].enc = cache[p].enc /\ cache'[p].ttl = cache[p].ttl
           /\ \A p \in Paths : flight[p] # None =>
                /\ flight[p] \in Flights /\ flight'[p] \in Flights
                /\ flight'[p].reply = flight[p].reply /\ flight'[p].age = Older(flight[p].age)
<1>1. \A p \in Paths : cache'[p] = Aged(cache[p]) /\ flight'[p] = Aged(flight[p])
  BY DEF Tick
<1>2. \A p \in Paths : cache[p] # None =>
          /\ cache[p] \in Entries /\ cache'[p] \in Entries /\ cache'[p] # None
          /\ cache'[p].body = cache[p].body /\ cache'[p].age = Older(cache[p].age)
          /\ cache'[p].enc = cache[p].enc /\ cache'[p].ttl = cache[p].ttl
  <2> TAKE p \in Paths
  <2> HAVE cache[p] # None
  <2>1. cache[p] \in Entries
    BY DEF Inv, TypeOK
  <2>2. Older(cache[p].age) \in 0 .. Cap
    BY <2>1, OlderType DEF Entries
  <2> QED
    <3>1. cache'[p] = [body |-> cache[p].body, enc |-> cache[p].enc, ttl |-> cache[p].ttl,
                       age |-> Older(cache[p].age)]
      BY <1>1, <2>1, AgedEntry
    <3>2. cache'[p] \in Entries
      BY <2>1, <2>2, <3>1 DEF Entries
    <3> QED
      BY <2>1, <3>1, <3>2, DeliveryAssumption
<1>3. \A p \in Paths : flight[p] # None =>
          /\ flight[p] \in Flights /\ flight'[p] \in Flights
          /\ flight'[p].reply = flight[p].reply /\ flight'[p].age = Older(flight[p].age)
  <2> TAKE p \in Paths
  <2> HAVE flight[p] # None
  <2>1. flight[p] \in Flights
    BY DEF Inv, TypeOK
  <2>2. Older(flight[p].age) \in 0 .. Cap
    BY <2>1, OlderType DEF Flights
  <2> QED
    <3>1. flight'[p] = [reply |-> flight[p].reply, age |-> Older(flight[p].age)]
      BY <1>1, <2>1, AgedFlight
    <3>2. flight'[p] \in Flights
      BY <2>1, <2>2, <3>1 DEF Flights
    <3> QED
      BY <2>1, <3>1, <3>2
<1> QED
  BY <1>2, <1>3

LEMMA TickInv == ASSUME Inv, Tick PROVE Inv'
<1>1. UNCHANGED <<site, up, stops, accept, used, pageFrom>>
  BY DEF Tick, server
<1>2. \A p \in Paths :
          /\ cache'[p] = Aged(cache[p]) /\ flight'[p] = Aged(flight[p])
          /\ stale'[p] = [c \in Contents |->
                IF Live(site, p) = c THEN 0 ELSE Older(stale[p][c])]
  BY DEF Tick
<1>3. stale' \in [Paths -> [Contents -> 0 .. Never]]
  BY Ages, OlderType DEF Inv, TypeOK, Tick
<1>4. \A p \in Paths : cache[p] # None =>
          /\ cache[p] \in Entries /\ cache'[p] \in Entries /\ cache'[p] # None
          /\ cache'[p].body = cache[p].body /\ cache'[p].age = Older(cache[p].age)
          /\ cache'[p].enc = cache[p].enc /\ cache'[p].ttl = cache[p].ttl
  BY TickAges
<1>5. \A p \in Paths : flight[p] # None =>
          /\ flight[p] \in Flights /\ flight'[p] \in Flights
          /\ flight'[p].reply = flight[p].reply /\ flight'[p].age = Older(flight[p].age)
  BY TickAges
<1>6. TypeOK'
  <2>1. cache' \in [Paths -> {None} \cup Entries]
    BY <1>2, <1>4 DEF Tick, Aged
  <2>2. flight' \in [Paths -> {None} \cup Flights]
    BY <1>2, <1>5 DEF Tick, Aged
  <2> QED
    BY <1>1, <1>3, <2>1, <2>2 DEF Inv, TypeOK
<1>7. LiveIsNew'
  BY <1>1, <1>2 DEF LiveIsNew, Live
<1>8. ASSUME NEW p \in Paths, NEW c \in Contents, NEW n \in 0 .. Cap,
             stale[p][c] <= n
      PROVE  stale'[p][c] <= Older(n)
  <2>1. /\ stale[p][c] \in 0 .. Never
        /\ stale'[p][c] = 0 \/ stale'[p][c] = Older(stale[p][c])
    BY <1>2 DEF Inv, TypeOK
  <2>2. Older(n) \in 0 .. Cap /\ Older(stale[p][c]) <= Older(n)
    BY <1>8, <2>1, OlderType
  <2> QED
    BY <2>1, <2>2, Ages
<1>9. ASSUME NEW p \in Paths PROVE EntryHolds(p)'
  <2>1. CASE cache[p] = None
    BY <1>2, <2>1 DEF EntryHolds, Aged
  <2>2. CASE cache[p] # None
    <3>1. cache[p].body \in Contents /\ cache[p].age \in 0 .. Cap
      BY <1>4, <2>2 DEF Entries
    <3>2. stale[p][cache[p].body] <= cache[p].age /\ Fits(p, cache[p])
      BY <2>2 DEF Inv, EntryHolds
    <3>3. Fits(p, cache[p])'
      BY <1>1, <1>4, <2>2, <3>2 DEF Fits
    <3>4. stale'[p][cache[p].body] <= Older(cache[p].age)
      BY <1>8, <3>1, <3>2
    <3> QED
      BY <1>4, <2>2, <3>3, <3>4 DEF EntryHolds
  <2> QED
    BY <2>1, <2>2
<1>10. ASSUME NEW p \in Paths PROVE ReplyHolds(p)'
  <2>1. CASE flight[p] = None
    BY <1>2, <2>1 DEF ReplyHolds, Aged
  <2>2. CASE flight[p] # None /\ flight[p].reply = None
    BY <1>5, <2>2 DEF ReplyHolds
  <2>3. CASE flight[p] # None /\ flight[p].reply # None
    <3> DEFINE r == flight[p].reply
    <3>1. r \in Replies /\ flight[p].age \in 0 .. Cap
      BY <1>5, <2>3 DEF Flights
    <3>2. ReplyHolds(p)
      BY DEF Inv
    <3>3. ASSUME r.status = 200
          PROVE  stale'[p][r.body] <= Older(flight[p].age) /\ Fits(p, r)'
      <4>1. r.body \in Contents
        BY <3>1, <3>3 DEF Replies
      <4>2. stale[p][r.body] <= flight[p].age /\ Fits(p, r)
        BY <2>3, <3>2, <3>3 DEF ReplyHolds
      <4>3. Fits(p, r)'
        BY <1>1, <1>5, <2>3, <4>2 DEF Fits
      <4> QED
        BY <1>8, <3>1, <4>1, <4>2, <4>3
    <3>4. ASSUME r.status = 304
          PROVE  /\ cache'[p] # None
                 /\ stale'[p][cache'[p].body] <= Older(flight[p].age)
      <4>1. cache[p] # None /\ stale[p][cache[p].body] <= flight[p].age
        BY <2>3, <3>2, <3>4 DEF ReplyHolds
      <4>2. cache[p].body \in Contents
        BY <1>4, <4>1 DEF Entries
      <4>3. stale'[p][cache[p].body] <= Older(flight[p].age)
        BY <1>8, <3>1, <4>1, <4>2
      <4> QED
        BY <1>4, <4>1, <4>3
    <3> QED
      BY <1>5, <2>3, <3>3, <3>4 DEF ReplyHolds
  <2> QED
    BY <2>1, <2>2, <2>3
<1> QED
  BY <1>6, <1>7, <1>9, <1>10 DEF Inv

----------------------------------------------------------------------------
(* An answer is about what is to be had while it is given. *)
LEMMA AnswerInv == ASSUME Inv, NEW p \in Paths, Answer(p) PROVE Inv'
<1> DEFINE r == Reply(p, ETag(p))
<1>1. UNCHANGED <<site, up, stops, accept, cache, used, stale>>
  BY DEF Answer, server
<1>2. flight[p] \in Flights /\ flight[p] # None /\ flight[p].age \in 0 .. Cap
  BY DEF Inv, TypeOK, Answer, Flights
<1>3. site \in Builds
  BY DEF Inv, TypeOK
<1>4. /\ r \in Replies
      /\ r.status = 200 => r.body = Live(site, p) /\ r.body \in Contents /\ Fits(p, r)
      /\ r.status = 304 => ETag(p) = Live(site, p) /\ ETag(p) \in Contents
  BY <1>3, ReplyIsLive
<1> HIDE DEF r
<1>5. \A q \in Paths : flight'[q] =
          IF q = p THEN [reply |-> r, age |-> flight[p].age] ELSE flight[q]
  BY DEF Inv, TypeOK, Answer, r
<1>6. [reply |-> r, age |-> flight[p].age] \in Flights
  BY <1>2, <1>4 DEF Flights
<1>7. TypeOK'
  <2>1. flight' \in [Paths -> {None} \cup Flights]
    BY <1>5, <1>6 DEF Inv, TypeOK, Answer
  <2>2. stops \in Nat /\ pageFrom' \in 0 .. stops
    BY DeliveryAssumption DEF Inv, TypeOK, Answer
  <2> QED
    BY <1>1, <2>1, <2>2 DEF Inv, TypeOK
<1>8. LiveIsNew'
  BY <1>1 DEF Inv, LiveIsNew, Live
<1>9. ASSUME NEW q \in Paths PROVE EntryHolds(q)' /\ ReplyHolds(q)'
  <2>1. EntryHolds(q)'
    BY <1>1 DEF Inv, EntryHolds, Fits
  <2>2. CASE q # p
    BY <1>1, <1>5, <2>1, <2>2 DEF Inv, ReplyHolds, Fits
  <2>3. CASE q = p
    <3>1. flight'[p].reply = r /\ flight'[p].age = flight[p].age
      BY <1>5
    <3>2. r.status = 200 => stale[p][r.body] <= flight[p].age /\ Fits(p, r)
      BY <1>2, <1>4 DEF Inv, LiveIsNew
    <3>3. r.status = 304 => cache[p] # None /\ stale[p][cache[p].body] <= flight[p].age
      BY <1>2, <1>4, DeliveryAssumption DEF Inv, LiveIsNew, ETag
    <3> QED
      BY <1>1, <2>1, <2>3, <3>1, <3>2, <3>3 DEF ReplyHolds, Fits
  <2> QED
    BY <2>2, <2>3
<1> QED
  BY <1>7, <1>8, <1>9 DEF Inv

(* Steps that take a path's request away, or make one, and those that only *)
(* change what is shown.                                                   *)
LEMMA RefuseInv == ASSUME Inv, NEW p \in Paths, Refuse(p) PROVE Inv'
<1>1. UNCHANGED <<site, up, stops, accept, cache, stale, pageFrom>>
  BY DEF Refuse, server
<1>2. \A q \in Paths : flight'[q] = IF q = p THEN None ELSE flight[q]
  BY DEF Inv, TypeOK, Refuse
<1>3. TypeOK'
  BY <1>1 DEF Inv, TypeOK, Refuse
<1>4. LiveIsNew'
  BY <1>1 DEF Inv, LiveIsNew, Live
<1>5. \A q \in Paths : EntryHolds(q)' /\ ReplyHolds(q)'
  BY <1>1, <1>2 DEF Inv, EntryHolds, ReplyHolds, Fits
<1> QED
  BY <1>3, <1>4, <1>5 DEF Inv

LEMMA AskInv == ASSUME Inv, NEW p \in Paths, Ask(p) PROVE Inv'
<1>1. UNCHANGED <<site, up, stops, accept, cache, used, stale, pageFrom>>
  BY DEF Ask, server
<1>2. \A q \in Paths : flight'[q] = IF q = p THEN [reply |-> None, age |-> 0] ELSE flight[q]
  BY DEF Inv, TypeOK, Ask
<1>3. [reply |-> None, age |-> 0] \in Flights
  BY Ages DEF Flights
<1>4. TypeOK'
  BY <1>1, <1>3 DEF Inv, TypeOK, Ask
<1>5. LiveIsNew'
  BY <1>1 DEF Inv, LiveIsNew, Live
<1>6. \A q \in Paths : EntryHolds(q)' /\ ReplyHolds(q)'
  BY <1>1, <1>2 DEF Inv, EntryHolds, ReplyHolds, Fits
<1> QED
  BY <1>4, <1>5, <1>6 DEF Inv

LEMMA ShowInv ==
    ASSUME Inv, Open \/ \E p \in Paths : UseCached(p) PROVE Inv'
<1>1. UNCHANGED <<site, up, stops, accept, cache, flight, stale, pageFrom>>
  BY DEF Open, UseCached, server
<1>2. used' \in [Paths -> Contents \cup {None, Missing, Failed}]
  BY DEF Inv, TypeOK, Entries, Open, UseCached, Fresh
<1>3. TypeOK'
  BY <1>1, <1>2 DEF Inv, TypeOK
<1>4. LiveIsNew'
  BY <1>1 DEF Inv, LiveIsNew, Live
<1>5. \A q \in Paths : EntryHolds(q)' /\ ReplyHolds(q)'
  BY <1>1 DEF Inv, EntryHolds, ReplyHolds, Fits
<1> QED
  BY <1>3, <1>4, <1>5 DEF Inv

(* An entry is not thrown away under a request: a 304 finds it there. *)
LEMMA EvictInv == ASSUME Inv, NEW p \in Paths, Evict(p) PROVE Inv'
<1>1. UNCHANGED <<site, up, stops, accept, flight, used, stale, pageFrom>>
  BY DEF Evict, server
<1>2. \A q \in Paths : cache'[q] = IF q = p THEN None ELSE cache[q]
  BY DEF Inv, TypeOK, Evict
<1>3. flight[p] = None
  BY DEF Evict
<1>4. TypeOK'
  BY <1>1 DEF Inv, TypeOK, Evict
<1>5. LiveIsNew'
  BY <1>1 DEF Inv, LiveIsNew, Live
<1>6. \A q \in Paths : EntryHolds(q)' /\ ReplyHolds(q)'
  BY <1>1, <1>2, <1>3 DEF Inv, EntryHolds, ReplyHolds, Fits
<1> QED
  BY <1>4, <1>5, <1>6 DEF Inv

(* What is received is kept, if there is anything, and shown. *)
LEMMA ReceiveShows ==
    ASSUME Inv, NEW p \in Paths, Receive(p)
    PROVE  /\ cache'[p] \in {None} \cup Entries
           /\ EntryHolds(p)'
           /\ used'[p] \in Contents \cup {Missing}
           /\ used'[p] \in Contents => stale[p][used'[p]] <= flight[p].age
<1> DEFINE r == flight[p].reply
           age == flight[p].age
<1>1. UNCHANGED <<site, up, stops, accept, stale, pageFrom>>
  BY DEF Receive, server
<1>2. r \in Replies /\ age \in 0 .. Cap
  BY DEF Inv, TypeOK, Receive, Flights
<1>3. ReplyHolds(p) /\ EntryHolds(p) /\ flight[p] # None /\ r # None
  BY DEF Inv, Receive
<1>4. /\ cache'[p] \in {None} \cup Entries
      /\ EntryHolds(p)'
      /\ used'[p] \in Contents \cup {Missing}
      /\ used'[p] \in Contents => stale[p][used'[p]] <= age
  <2>1. p \in DOMAIN cache /\ p \in DOMAIN used
    BY DEF Inv, TypeOK
  <2>2. CASE r.status = 200
    <3>1. cache'[p] = [body |-> r.body, enc |-> r.enc, ttl |-> r.ttl, age |-> age]
      BY <2>1, <2>2 DEF Receive
    <3>2. used'[p] = r.body
      BY <2>1, <2>2, <3>1 DEF Receive
    <3>3. r.body \in Contents /\ r.enc \in Encodings /\ r.ttl \in TTLs
      BY <1>2, <2>2 DEF Replies
    <3>4. stale[p][r.body] <= age /\ Fits(p, r)
      BY <1>3, <2>2 DEF ReplyHolds
    <3>5. cache'[p] \in Entries
      BY <1>2, <3>1, <3>3 DEF Entries
    <3> HIDE DEF r, age
    <3>6. EntryHolds(p)'
      BY <1>1, <3>1, <3>4 DEF EntryHolds, Fits
    <3> QED
      BY <3>2, <3>3, <3>4, <3>5, <3>6
  <2>3. CASE r.status = 304
    <3>1. cache[p] \in Entries /\ stale[p][cache[p].body] <= age /\ Fits(p, cache[p])
      BY <1>3, <2>3 DEF Inv, TypeOK, ReplyHolds, EntryHolds
    <3>2. cache'[p] = [body |-> cache[p].body, enc |-> cache[p].enc, ttl |-> cache[p].ttl,
                       age |-> age]
      BY <2>1, <2>3, <3>1 DEF Receive, Entries
    <3>3. used'[p] = cache[p].body
      BY <2>1, <2>3, <3>2 DEF Receive
    <3>4. cache'[p] \in Entries
      BY <1>2, <3>1, <3>2 DEF Entries
    <3> HIDE DEF r, age
    <3>5. EntryHolds(p)'
      BY <1>1, <3>1, <3>2 DEF EntryHolds, Fits
    <3> QED
      BY <3>1, <3>3, <3>4, <3>5 DEF Entries
  <2>4. CASE r.status = 404
    <3>1. cache'[p] = None /\ used'[p] = Missing
      BY <2>1, <2>4 DEF Receive
    <3> QED
      BY <3>1, DeliveryAssumption DEF EntryHolds
  <2> QED
    BY <1>2, <2>2, <2>3, <2>4 DEF Replies
<1> QED
  BY <1>4

LEMMA ReceiveInv == ASSUME Inv, NEW p \in Paths, Receive(p) PROVE Inv'
<1>1. UNCHANGED <<site, up, stops, accept, stale, pageFrom>>
  BY DEF Receive, server
<1>2. \A q \in Paths : flight'[q] = IF q = p THEN None ELSE flight[q]
  BY DEF Inv, TypeOK, Receive
<1>3. \A q \in Paths : q # p => cache'[q] = cache[q]
  BY DEF Inv, TypeOK, Receive
<1>4. cache'[p] \in {None} \cup Entries /\ EntryHolds(p)' /\ used'[p] \in Contents \cup {Missing}
  BY ReceiveShows
<1>5. TypeOK'
  <2>1. cache' \in [Paths -> {None} \cup Entries]
    BY <1>3, <1>4 DEF Inv, TypeOK, Receive
  <2>2. flight' \in [Paths -> {None} \cup Flights]
    BY <1>2 DEF Inv, TypeOK, Receive
  <2>3. used' \in [Paths -> Contents \cup {None, Missing, Failed}]
    <3>1. PICK v : used' = [used EXCEPT ![p] = v]
      BY DEF Receive
    <3>2. v = used'[p]
      BY <3>1 DEF Inv, TypeOK
    <3> QED
      BY <1>4, <3>1, <3>2 DEF Inv, TypeOK
  <2> QED
    BY <1>1, <2>1, <2>2, <2>3 DEF Inv, TypeOK
<1>6. LiveIsNew'
  BY <1>1 DEF Inv, LiveIsNew, Live
<1>7. \A q \in Paths : EntryHolds(q)'
  BY <1>1, <1>3, <1>4 DEF Inv, EntryHolds, Fits
<1>8. \A q \in Paths : ReplyHolds(q)'
  BY <1>1, <1>2, <1>3 DEF Inv, ReplyHolds, Fits
<1> QED
  BY <1>5, <1>6, <1>7, <1>8 DEF Inv

----------------------------------------------------------------------------
LEMMA NextInv == Inv /\ [Next]_vars => Inv'
<1> SUFFICES ASSUME Inv, [Next]_vars PROVE Inv'
  OBVIOUS
<1>1. CASE UNCHANGED vars
  BY <1>1 DEF vars, server, browser, Inv, TypeOK, LiveIsNew, Live, EntryHolds, ReplyHolds, Fits
<1> QED
  BY <1>1, StopInv, StartInv, TickInv, AnswerInv, RefuseInv, AskInv, ShowInv, EvictInv,
     ReceiveInv DEF Next, Load

(* Every state is of its type. *)
THEOREM TypeCorrect == Spec => []TypeOK
<1>1. Inv => TypeOK
  BY DEF Inv
<1> QED
  BY <1>1, InitInv, NextInv, PTL DEF Spec

(* However deploys, answers and revalidations interleave, an entry of the  *)
(* browser's cache is as recent as its age says, and in an encoding the    *)
(* browser named: route's 304 never vouches for a content that is gone.    *)
THEOREM CacheStaysHonest == Spec => []CacheIsHonest
<1>1. Inv => CacheIsHonest
  BY DEF Inv, EntryHolds, Fits, CacheIsHonest
<1> QED
  BY <1>1, InitInv, NextInv, PTL DEF Spec

LEMMA CachedIsRecent ==
    ASSUME Inv, NEW p \in Paths, NEW q \in Paths, UseCached(q), used'[p] # used[p]
    PROVE  stale[p][used'[p]] < Allowed(p)
<1>1. q = p /\ used'[p] = cache[p].body
  BY DEF Inv, TypeOK, UseCached
<1>2. cache[p] # None /\ cache[p] \in Entries /\ cache[p].age < cache[p].ttl
  BY <1>1 DEF Inv, TypeOK, UseCached, Fresh
<1>3. stale[p][cache[p].body] <= cache[p].age /\ MayKeep(cache[p].ttl, p)
  BY <1>2 DEF Inv, EntryHolds, Fits
<1>4. /\ cache[p].body \in Contents /\ cache[p].age \in 0 .. Cap
      /\ cache[p].ttl \in TTLs
  BY <1>2 DEF Entries
<1>5. stale[p][cache[p].body] \in 0 .. Never
  BY <1>4 DEF Inv, TypeOK
<1>6. Allowed(p) \in {Never, LongAge, PageAge}
  BY DEF Allowed
<1>7. ASSUME NEW n \in 0 .. Never, NEW a \in 0 .. Cap, NEW t \in TTLs,
             n <= a, a < t, MayKeep(t, p)
      PROVE  n < Allowed(p)
  BY <1>6, <1>7, Ages DEF TTLs, MayKeep
<1> QED
  BY <1>1, <1>2, <1>3, <1>4, <1>5, <1>7

LEMMA ReceivedIsRecent ==
    ASSUME Inv, NEW p \in Paths, NEW q \in Paths, Receive(q),
           used'[p] # used[p], used'[p] \in Contents
    PROVE  flight[p] # None /\ stale[p][used'[p]] <= flight[p].age
<1>1. q = p /\ flight[p] # None
  BY DEF Inv, TypeOK, Receive
<1> QED
  BY <1>1, ReceiveShows

(* What a visitor is shown is no older than serve_asset's max-age for its  *)
(* path allows, for any deploys; only a name with a hash is kept for ever. *)
THEOREM ShownStaysRecent == Spec => ShownIsRecent
<1>1. Inv /\ [Next]_vars =>
        [\A p \in Paths : used'[p] # used[p] /\ used'[p] \in Contents =>
            \/ stale[p][used'[p]] < Allowed(p)
            \/ flight[p] # None /\ stale[p][used'[p]] <= flight[p].age]_vars
  <2> SUFFICES ASSUME Inv, Next, NEW p \in Paths,
                      used'[p] # used[p], used'[p] \in Contents
               PROVE  \/ stale[p][used'[p]] < Allowed(p)
                      \/ flight[p] # None /\ stale[p][used'[p]] <= flight[p].age
    OBVIOUS
  <2>1. CASE Stop \/ Start \/ Tick
    BY <2>1 DEF Stop, Start, Tick, browser
  <2>2. CASE Open
    BY <2>2, DeliveryAssumption DEF Open
  <2>3. ASSUME NEW q \in Paths, Answer(q) \/ Ask(q) \/ Evict(q) PROVE FALSE
    BY <2>3 DEF Answer, Ask, Evict
  <2>4. ASSUME NEW q \in Paths, Refuse(q) PROVE FALSE
    BY <2>4, DeliveryAssumption DEF Refuse, Inv, TypeOK
  <2>5. ASSUME NEW q \in Paths, UseCached(q) PROVE stale[p][used'[p]] < Allowed(p)
    BY <2>5, CachedIsRecent
  <2>6. ASSUME NEW q \in Paths, Receive(q)
        PROVE  flight[p] # None /\ stale[p][used'[p]] <= flight[p].age
    BY <2>6, ReceivedIsRecent
  <2> QED
    BY <2>1, <2>2, <2>3, <2>4, <2>5, <2>6 DEF Next, Load
<1> QED
  BY <1>1, InitInv, NextInv, PTL DEF Spec, ShownIsRecent

----------------------------------------------------------------------------
(* Misses across deploys. *)
Answered(p) == flight[p] # None /\ flight[p].reply # None

(* While the server is down the page's answer is from before.              *)
DownIsNews == ~up => pageFrom < stops

(* What is under way is not shown yet, and an asset is only wanted for a   *)
(* page that names it.                                                     *)
AskedOnce == \A p \in Paths : flight[p] # None => used[p] = None
NamedByPage ==
    \A p \in Paths \ {Page} : flight[p] # None \/ used[p] # None =>
        used[Page] \in DOMAIN Names /\ p \in Names[used[Page]]

(* Since the server's last answer for the page, the page is what it said.  *)
PageIsLive ==
    pageFrom = stops =>
        /\ used[Page] \in Contents => used[Page] = Live(site, Page)
        /\ cache[Page] # None /\ ~Answered(Page) => cache[Page].body = Live(site, Page)
        /\ Answered(Page) /\ flight[Page].reply.status = 200 =>
              flight[Page].reply.body = Live(site, Page)
        /\ Answered(Page) /\ flight[Page].reply.status = 304 =>
              cache[Page] # None /\ cache[Page].body = Live(site, Page)

(* No asset is missing, or about to be.                                    *)
NoneMissing ==
    Whole(site) /\ pageFrom = stops =>
        \A p \in Paths \ {Page} :
            used[p] # Missing /\ (Answered(p) => flight[p].reply.status # 404)

DeployInv ==
    DownIsNews /\ AskedOnce /\ NamedByPage /\ PageIsLive /\ NoneMissing

LEMMA DeployInit == Init => DeployInv
<1> SUFFICES ASSUME Init PROVE DeployInv
  OBVIOUS
<1>1. Page \in Paths /\ None \notin Contents /\ None # Missing
  BY DeliveryAssumption
<1>2. up = TRUE /\ \A p \in Paths : cache[p] = None /\ flight[p] = None /\ used[p] = None
  BY DEF Init
<1> QED
  BY <1>1, <1>2 DEF DeployInv, DownIsNews, AskedOnce, NamedByPage, PageIsLive, NoneMissing,
                    Answered

(* A whole site has what its page names. *)
LEMMA WholeHasNames ==
    ASSUME Inv, Whole(site), NEW p \in Paths, Live(site, Page) \in DOMAIN Names,
           p \in Names[Live(site, Page)]
    PROVE  HttpKey(site.http, p) # NoPath
<1>1. HttpKey(site.http, Page) # NoPath
  BY DeliveryAssumption DEF Live
<1>2. HttpKey(site.http, Page) \in DOMAIN site.http
  BY <1>1 DEF HttpKey
<1>3. p \in DOMAIN site.http
  BY <1>1, <1>2 DEF Whole, Live
<1>4. p # NoPath
  BY DeliveryAssumption
<1> QED
  BY <1>3, <1>4 DEF HttpKey

(* A stop, and a start, that find the page's answer from before. *)
LEMMA Numbers ==
    ASSUME Inv PROVE stops \in Nat /\ pageFrom \in Nat /\ pageFrom <= stops
BY DeliveryAssumption DEF Inv, TypeOK

LEMMA StopDeploy == ASSUME Inv, DeployInv, Stop PROVE DeployInv'
<1>1. UNCHANGED <<site, accept, cache, flight, used, stale, pageFrom>> /\ stops' = stops + 1
  BY DEF Stop, browser
<1>2. pageFrom' < stops' /\ pageFrom' # stops'
  BY <1>1, Numbers
<1> QED
  BY <1>1, <1>2 DEF DeployInv, DownIsNews, AskedOnce, NamedByPage, PageIsLive, NoneMissing

LEMMA StartDeploy == ASSUME Inv, DeployInv, Start PROVE DeployInv'
<1>1. UNCHANGED <<stops, accept, cache, flight, used, pageFrom>> /\ up' = TRUE
  BY DEF Start, browser
<1>2. pageFrom' < stops'
  BY <1>1 DEF Start, DeployInv, DownIsNews
<1>3. pageFrom' # stops'
  BY <1>1, <1>2, Numbers
<1> QED
  BY <1>1, <1>3 DEF DeployInv, DownIsNews, AskedOnce, NamedByPage, PageIsLive, NoneMissing

LEMMA TickDeploy == ASSUME Inv, DeployInv, Tick PROVE DeployInv'
<1>1. UNCHANGED <<site, up, stops, accept, used, pageFrom>>
  BY DEF Tick, server
<1>2. Page \in Paths
  BY DeliveryAssumption
<1>3. \A p \in Paths :
          /\ cache'[p] # None <=> cache[p] # None
          /\ cache[p] # None => cache'[p].body = cache[p].body
  BY TickAges DEF Tick, Aged
<1>4. \A p \in Paths : flight'[p] # None => flight[p] # None /\ flight'[p].reply = flight[p].reply
  BY TickAges DEF Tick, Aged
<1>5. \A p \in Paths : Answered(p)' => Answered(p) /\ flight'[p].reply = flight[p].reply
  BY <1>4 DEF Answered
<1>6. DownIsNews' /\ AskedOnce'
  BY <1>1, <1>4 DEF DeployInv, DownIsNews, AskedOnce
<1>7. NamedByPage'
  BY <1>1, <1>4 DEF DeployInv, NamedByPage
<1>8. PageIsLive'
  <2>1. Answered(Page)' <=> Answered(Page)
    BY <1>2, <1>5, TickAges, DeliveryAssumption DEF Answered
  <2>2. Live(site', Page) = Live(site, Page)
    BY <1>1
  <2> QED
    BY <1>1, <1>2, <1>3, <1>5, <2>1, <2>2 DEF DeployInv, PageIsLive
<1>9. NoneMissing'
  BY <1>1, <1>5 DEF DeployInv, NoneMissing
<1> QED
  BY <1>6, <1>7, <1>8, <1>9 DEF DeployInv

(* The answer for the page makes it live; one for an asset finds it.       *)
LEMMA AnswerDeploy == ASSUME Inv, DeployInv, NEW p \in Paths, Answer(p) PROVE DeployInv'
<1> DEFINE r == Reply(p, ETag(p))
<1>1. UNCHANGED <<site, up, stops, accept, cache, used, stale>> /\ up = TRUE
  BY DEF Answer, server
<1>2. Page \in Paths
  BY DeliveryAssumption
<1>3. flight[p] # None /\ used[p] = None
  BY DEF Answer, DeployInv, AskedOnce
<1>4. /\ r \in Replies
      /\ r.status = 200 => r.body = Live(site, p)
      /\ r.status = 304 => ETag(p) = Live(site, p) /\ ETag(p) \in Contents
      /\ r.status = 404 => HttpKey(site.http, p) = NoPath
  <2>1. site \in Builds
    BY DEF Inv, TypeOK
  <2>2. r.status = 404 => HttpKey(site.http, p) = NoPath
    BY DEF Reply
  <2> QED
    BY <2>1, <2>2, ReplyIsLive
<1> HIDE DEF r
<1>5. flight' = [flight EXCEPT ![p] = [reply |-> r, age |-> flight[p].age]]
  BY DEF Answer, r
<1>6. /\ flight'[p].reply = r
      /\ \A q \in Paths : q # p => flight'[q] = flight[q]
      /\ \A q \in Paths : flight'[q] # None => flight[q] # None
  BY <1>3, <1>5 DEF Inv, TypeOK
<1>7. DownIsNews' /\ AskedOnce'
  BY <1>1, <1>6 DEF DeployInv, DownIsNews, AskedOnce
<1>8. NamedByPage'
  BY <1>1, <1>6 DEF DeployInv, NamedByPage
<1>9. CASE p = Page
  <2>1. pageFrom' = stops'
    BY <1>1, <1>9 DEF Answer
  <2>2. used[Page] = None /\ None \notin Contents /\ None \notin DOMAIN Names
    BY <1>3, <1>9, DeliveryAssumption
  <2>3. \A q \in Paths \ {Page} : flight[q] = None /\ used[q] = None
    BY <2>2 DEF DeployInv, NamedByPage
  <2>4. Answered(Page)'
    <3>1. flight'[Page] = [reply |-> r, age |-> flight[Page].age]
      BY <1>2, <1>5, <1>9 DEF Inv, TypeOK
    <3>2. flight'[Page] \in Flights
      BY <1>2, <1>3, <1>4, <1>9, <3>1 DEF Inv, TypeOK, Flights
    <3> QED
      BY <1>4, <1>6, <1>9, <3>2, DeliveryAssumption DEF Answered
  <2>5. PageIsLive'
    <3>1. r.status = 304 => cache[Page] # None /\ cache[Page].body = Live(site, Page)
      BY <1>4, <1>9, <2>2 DEF ETag
    <3>2. UNCHANGED <<site, cache, used>>
      BY <1>1
    <3>3. flight'[Page].reply = r /\ (r.status = 200 => r.body = Live(site, Page))
      BY <1>4, <1>6, <1>9
    <3> QED
      BY <2>2, <2>4, <3>1, <3>2, <3>3 DEF PageIsLive
  <2>6. NoneMissing'
    BY <1>1, <1>6, <1>9, <2>3, DeliveryAssumption DEF NoneMissing, Answered
  <2> QED
    BY <1>7, <1>8, <2>5, <2>6 DEF DeployInv
<1>10. CASE p # Page
  <2>1. pageFrom' = pageFrom
    BY <1>10 DEF Answer
  <2>2. flight'[Page] = flight[Page]
    BY <1>2, <1>6, <1>10
  <2>3. PageIsLive'
    BY <1>1, <2>1, <2>2 DEF DeployInv, PageIsLive, Answered
  <2>4. used[Page] \in DOMAIN Names /\ p \in Names[used[Page]]
    BY <1>3, <1>10 DEF DeployInv, NamedByPage
  <2>5. ASSUME Whole(site), pageFrom = stops PROVE r.status # 404
    <3>1. used[Page] = Live(site, Page)
      BY <2>4, <2>5, DeliveryAssumption DEF DeployInv, PageIsLive
    <3> QED
      BY <1>4, <2>4, <2>5, <3>1, WholeHasNames
  <2>6. NoneMissing'
    BY <1>1, <1>6, <2>1, <2>5 DEF DeployInv, NoneMissing, Answered
  <2> QED
    BY <1>7, <1>8, <2>3, <2>6 DEF DeployInv
<1> QED
  BY <1>9, <1>10

LEMMA RefuseDeploy == ASSUME Inv, DeployInv, NEW p \in Paths, Refuse(p) PROVE DeployInv'
<1>1. UNCHANGED <<site, up, stops, accept, cache, stale, pageFrom>> /\ up = FALSE
  BY DEF Refuse, server
<1>2. pageFrom < stops /\ pageFrom' # stops'
  BY <1>1, Numbers DEF DeployInv, DownIsNews
<1>3. /\ \A q \in Paths : flight'[q] = IF q = p THEN None ELSE flight[q]
      /\ \A q \in Paths : used'[q] = IF q = p THEN Failed ELSE used[q]
  BY DEF Inv, TypeOK, Refuse
<1>4. flight[p] # None /\ used[p] = None
  BY DEF Refuse, DeployInv, AskedOnce
<1>5. DownIsNews' /\ AskedOnce'
  BY <1>1, <1>2, <1>3 DEF DeployInv, DownIsNews, AskedOnce
<1>6. NamedByPage'
  BY <1>3, <1>4, DeliveryAssumption DEF DeployInv, NamedByPage
<1> QED
  BY <1>2, <1>5, <1>6 DEF DeployInv, PageIsLive, NoneMissing

LEMMA AskDeploy == ASSUME Inv, DeployInv, NEW p \in Paths, Ask(p) PROVE DeployInv'
<1>1. UNCHANGED <<site, up, stops, accept, cache, used, stale, pageFrom>>
  BY DEF Ask, server
<1>2. \A q \in Paths : flight'[q] = IF q = p THEN [reply |-> None, age |-> 0] ELSE flight[q]
  BY DEF Inv, TypeOK, Ask
<1>3. /\ used[p] = None /\ flight[p] = None
      /\ p = Page \/ (used[Page] \in DOMAIN Names /\ p \in Names[used[Page]])
  BY DEF Ask, Wanted
<1>4. \A q \in Paths : Answered(q)' => q # p
  BY <1>2 DEF Answered
<1>5. \A q \in Paths : Answered(q)' <=> Answered(q)
  BY <1>2, <1>3, <1>4 DEF Answered
<1>6. \A q \in Paths : Answered(q) => flight'[q] = flight[q]
  BY <1>2, <1>3 DEF Answered
<1>7. DownIsNews' /\ AskedOnce'
  BY <1>1, <1>2, <1>3 DEF DeployInv, DownIsNews, AskedOnce
<1>8. NamedByPage'
  BY <1>1, <1>2, <1>3 DEF DeployInv, NamedByPage
<1>9. PageIsLive'
  BY <1>1, <1>5, <1>6, DeliveryAssumption DEF DeployInv, PageIsLive
<1>10. NoneMissing'
  BY <1>1, <1>5, <1>6 DEF DeployInv, NoneMissing
<1> QED
  BY <1>7, <1>8, <1>9, <1>10 DEF DeployInv

LEMMA OpenDeploy == ASSUME Inv, DeployInv, Open PROVE DeployInv'
<1>1. UNCHANGED <<site, up, stops, accept, cache, flight, stale, pageFrom>>
  BY DEF Open, server
<1>2. \A q \in Paths : used'[q] = None /\ flight[q] = None
  BY DEF Open
<1>3. Page \in Paths /\ None \notin Contents /\ None # Missing
  BY DeliveryAssumption
<1>4. DownIsNews' /\ AskedOnce' /\ NamedByPage'
  BY <1>1, <1>2 DEF DeployInv, DownIsNews, AskedOnce, NamedByPage
<1>5. PageIsLive'
  BY <1>1, <1>2, <1>3 DEF DeployInv, PageIsLive, Answered
<1>6. NoneMissing'
  BY <1>1, <1>2, <1>3 DEF NoneMissing, Answered
<1> QED
  BY <1>4, <1>5, <1>6 DEF DeployInv

LEMMA UseCachedDeploy == ASSUME Inv, DeployInv, NEW p \in Paths, UseCached(p) PROVE DeployInv'
<1>1. UNCHANGED <<site, up, stops, accept, cache, flight, stale, pageFrom>>
  BY DEF UseCached, server
<1>2. \A q \in Paths : used'[q] = IF q = p THEN cache[p].body ELSE used[q]
  BY DEF Inv, TypeOK, UseCached
<1>3. /\ used[p] = None /\ flight[p] = None /\ cache[p] # None
      /\ p = Page \/ (used[Page] \in DOMAIN Names /\ p \in Names[used[Page]])
  BY DEF UseCached, Wanted, Fresh
<1>4. cache[p].body \in Contents /\ cache[p].body # Missing
  BY <1>3, DeliveryAssumption DEF Inv, TypeOK, Entries
<1>5. Page \in Paths /\ None \notin DOMAIN Names
  BY DeliveryAssumption
<1>6. DownIsNews' /\ AskedOnce'
  BY <1>1, <1>2, <1>3 DEF DeployInv, DownIsNews, AskedOnce
<1>7. NamedByPage'
  BY <1>1, <1>2, <1>3, <1>5 DEF DeployInv, NamedByPage
<1>8. PageIsLive'
  BY <1>1, <1>2, <1>3, <1>5 DEF DeployInv, PageIsLive, Answered
<1>9. NoneMissing'
  BY <1>1, <1>2, <1>4 DEF DeployInv, NoneMissing, Answered
<1> QED
  BY <1>6, <1>7, <1>8, <1>9 DEF DeployInv

LEMMA EvictDeploy == ASSUME Inv, DeployInv, NEW p \in Paths, Evict(p) PROVE DeployInv'
<1>1. UNCHANGED <<site, up, stops, accept, flight, used, stale, pageFrom>>
  BY DEF Evict, server
<1>2. \A q \in Paths : cache'[q] = IF q = p THEN None ELSE cache[q]
  BY DEF Inv, TypeOK, Evict
<1>3. flight[p] = None /\ Page \in Paths
  BY DeliveryAssumption DEF Evict
<1>4. DownIsNews' /\ AskedOnce' /\ NamedByPage' /\ NoneMissing'
  BY <1>1 DEF DeployInv, DownIsNews, AskedOnce, NamedByPage, NoneMissing, Answered
<1>5. PageIsLive'
  BY <1>1, <1>2, <1>3 DEF DeployInv, PageIsLive, Answered
<1> QED
  BY <1>4, <1>5 DEF DeployInv

(* What was received is the answer. *)
LEMMA ReceiveKeeps ==
    ASSUME Inv, NEW p \in Paths, Receive(p), NEW r, r = flight[p].reply
    PROVE  /\ r.status = 200 => cache'[p].body = r.body /\ used'[p] = r.body
           /\ r.status = 304 =>
                cache[p] # None /\ cache'[p].body = cache[p].body /\ used'[p] = cache[p].body
           /\ r.status = 404 => cache'[p] = None /\ used'[p] = Missing
<1>1. p \in DOMAIN cache /\ p \in DOMAIN used
  BY DEF Inv, TypeOK
<1>2. ASSUME r.status = 200 PROVE cache'[p].body = r.body /\ used'[p] = r.body
  <2>1. cache'[p].body = r.body
    BY <1>1, <1>2 DEF Receive
  <2> QED
    BY <1>1, <1>2, <2>1 DEF Receive
<1>3. ASSUME r.status = 304
      PROVE  cache[p] # None /\ cache'[p].body = cache[p].body /\ used'[p] = cache[p].body
  <2>1. cache[p] # None
    BY <1>3 DEF Inv, ReplyHolds, Receive
  <2>2. cache[p] \in Entries
    BY <2>1 DEF Inv, TypeOK
  <2>3. cache'[p].body = cache[p].body
    BY <1>1, <1>3, <2>2 DEF Receive, Entries
  <2> QED
    BY <1>1, <1>3, <2>1, <2>3 DEF Receive
<1>4. ASSUME r.status = 404 PROVE cache'[p] = None /\ used'[p] = Missing
  BY <1>1, <1>4 DEF Receive
<1> QED
  BY <1>2, <1>3, <1>4

LEMMA ReceiveDeploy == ASSUME Inv, DeployInv, NEW p \in Paths, Receive(p) PROVE DeployInv'
<1> DEFINE r == flight[p].reply
<1>1. UNCHANGED <<site, up, stops, accept, stale, pageFrom>>
  BY DEF Receive, server
<1>2. /\ \A q \in Paths : flight'[q] = IF q = p THEN None ELSE flight[q]
      /\ \A q \in Paths : q # p => cache'[q] = cache[q] /\ used'[q] = used[q]
  BY DEF Inv, TypeOK, Receive
<1>3. /\ Answered(p) /\ flight[p] # None /\ used[p] = None
      /\ Page \in Paths /\ None \notin DOMAIN Names
  BY DeliveryAssumption DEF Receive, Answered, DeployInv, AskedOnce
<1>4. r \in Replies
  BY DEF Inv, TypeOK, Receive, Flights
<1>5. /\ r.status = 200 => cache'[p].body = r.body /\ used'[p] = r.body
      /\ r.status = 304 =>
            cache[p] # None /\ cache'[p].body = cache[p].body /\ used'[p] = cache[p].body
      /\ r.status = 404 => cache'[p] = None /\ used'[p] = Missing
  BY ReceiveKeeps
<1>6. DownIsNews' /\ AskedOnce'
  BY <1>1, <1>2 DEF DeployInv, DownIsNews, AskedOnce
<1>7. NamedByPage'
  BY <1>2, <1>3 DEF DeployInv, NamedByPage
<1>8. r.status \in {200, 304, 404}
  BY <1>4 DEF Replies
<1>9. PageIsLive'
  <2>1. CASE p # Page
    BY <1>1, <1>2, <1>3, <2>1 DEF DeployInv, PageIsLive, Answered
  <2>2. CASE p = Page
    <3> SUFFICES ASSUME pageFrom = stops
                 PROVE  /\ used'[Page] \in Contents => used'[Page] = Live(site, Page)
                        /\ cache'[Page] # None => cache'[Page].body = Live(site, Page)
      BY <1>1, <1>2, <1>3, <2>2 DEF PageIsLive, Answered
    <3>1. /\ r.status = 200 => r.body = Live(site, p)
          /\ r.status = 304 => cache[p].body = Live(site, p)
      BY <1>3, <2>2 DEF DeployInv, PageIsLive
    <3> QED
      BY <1>5, <1>8, <2>2, <3>1, DeliveryAssumption
  <2> QED
    BY <2>1, <2>2
<1>10. NoneMissing'
  <2>1. \A q \in Paths : ~(Answered(q)' /\ q = p)
    BY <1>2 DEF Answered
  <2>2. \A q \in Paths : Answered(q)' => Answered(q) /\ flight'[q] = flight[q]
    BY <1>2, <2>1 DEF Answered
  <2>3. ASSUME Whole(site), pageFrom = stops, p # Page PROVE used'[p] # Missing
    <3>1. r.status # 404
      BY <1>3, <2>3 DEF DeployInv, NoneMissing
    <3>2. used'[p] \in Contents
      <4>1. r.status = 200 => r.body \in Contents
        BY <1>4 DEF Replies
      <4>2. cache[p] # None => cache[p].body \in Contents
        BY DEF Inv, TypeOK, Entries
      <4> QED
        BY <1>5, <1>8, <3>1, <4>1, <4>2
    <3> QED
      BY <3>2, DeliveryAssumption
  <2> QED
    BY <1>1, <1>2, <2>2, <2>3 DEF DeployInv, NoneMissing
<1> QED
  BY <1>6, <1>7, <1>9, <1>10 DEF DeployInv

----------------------------------------------------------------------------
LEMMA DeployNext == Inv /\ DeployInv /\ [Next]_vars => DeployInv'
<1> SUFFICES ASSUME Inv, DeployInv, [Next]_vars PROVE DeployInv'
  OBVIOUS
<1>1. CASE UNCHANGED vars
  BY <1>1 DEF vars, server, browser, DeployInv, DownIsNews, AskedOnce, NamedByPage, PageIsLive,
              NoneMissing, Answered
<1> QED
  BY <1>1, StopDeploy, StartDeploy, TickDeploy, AnswerDeploy, RefuseDeploy, AskDeploy,
     OpenDeploy, UseCachedDeploy, EvictDeploy, ReceiveDeploy DEF Next, Load

(* An asset that a page names is answered with 404 only if the server has  *)
(* been replaced since it last answered for the page: build.rs takes page  *)
(* and assets from one tree, and route finds each under its own path.      *)
THEOREM MissesAreDeploys == Spec => []MissingOnlyAfterDeploy
<1>1. Inv /\ DeployInv => MissingOnlyAfterDeploy
  <2> SUFFICES ASSUME Inv, DeployInv PROVE MissingOnlyAfterDeploy
    OBVIOUS
  <2>1. pageFrom # stops => pageFrom < stops
    BY Numbers
  <2> QED
    BY <2>1 DEF DeployInv, NoneMissing, MissingOnlyAfterDeploy
<1> QED
  BY <1>1, InitInv, NextInv, DeployInit, DeployNext, PTL DEF Spec

----------------------------------------------------------------------------
(* Pages under their directory's path. *)
LEMMA AppendCut ==
    ASSUME NEW S, NEW s \in Seq(S), NEW e
    PROVE  /\ Append(s, e) # << >>
           /\ Append(s, e)[Len(Append(s, e))] = e
           /\ CutLast(Append(s, e)) = s
<1> DEFINE T == S \cup {e}
<1>0. s \in Seq(T) /\ e \in T
  BY SeqMonotonic
<1> HIDE DEF T
<1>1. /\ Append(s, e) \in Seq(T) /\ Len(Append(s, e)) = Len(s) + 1
      /\ Append(s, e)[Len(s) + 1] = e
      /\ \A i \in 1 .. Len(s) : Append(s, e)[i] = s[i]
  BY <1>0
<1>2. CutLast(Append(s, e)) = SubSeq(Append(s, e), 1, Len(s))
  BY <1>1, Len(s) \in Nat DEF CutLast
<1>3. SubSeq(Append(s, e), 1, Len(s)) = s
  BY <1>0
<1> QED
  BY <1>1, <1>2, <1>3, EmptySeq

(* The keys of a build are routes of files with names. *)
LEMMA KeysAreRoutes ==
    ASSUME NEW s \in Builds
    PROVE  /\ \A k \in DOMAIN s.http : \E d \in Seq(Named), e \in Named : k = Append(d, e)
           /\ \A k \in DOMAIN s.gemini : EndsInSlash(k) =>
                 \E d \in Seq(Named) : k = Append(d, Empty)
<1>1. PICK t \in Trees : \E files \in Readable(t) :
          Compiles(t # NoPublic, files) /\ s \in Sites(files)
  BY DEF Builds
<1>2. PICK files \in Readable(t) : s \in Sites(files)
  BY <1>1
<1>3. \A f \in files : f.dir \in Seq(Named) /\ <<f.name, f.ext>> \in Named
  BY <1>2, DeliveryAssumption DEF Readable
<1>4. ASSUME NEW k \in DOMAIN s.http
      PROVE  \E d \in Seq(Named), e \in Named : k = Append(d, e)
  <2>1. s.http \in Tables([f \in HttpFiles(files) |-> HttpRoute(f)])
    BY <1>2 DEF Sites
  <2>2. PICK f \in files : k = HttpRoute(f)
    BY <2>1 DEF Tables, HttpFiles
  <2> QED
    BY <2>2, <1>3 DEF HttpRoute
<1>5. ASSUME NEW k \in DOMAIN s.gemini, EndsInSlash(k)
      PROVE  \E d \in Seq(Named) : k = Append(d, Empty)
  <2>1. s.gemini \in Tables([f \in GeminiFiles(files) |-> GeminiRoute(f)])
    BY <1>2 DEF Sites
  <2>2. PICK f \in files : k = GeminiRoute(f)
    BY <2>1 DEF Tables, GeminiFiles
  <2>3. PICK e : k = Append(f.dir, e)
    BY <2>2, <1>3, AppendCut DEF GeminiRoute, GmiRoute, HttpRoute
  <2>4. e = Empty
    BY <2>3, <1>5, <1>3, AppendCut DEF EndsInSlash
  <2> QED
    BY <2>3, <2>4, <1>3
<1> QED
  BY <1>4, <1>5

(* Every page of every build is found under its directory's path, by both  *)
(* servers, whatever else is in the tree.                                  *)
LEMMA PagesOfBuild == site \in Builds => PagesFound
<1> SUFFICES ASSUME site \in Builds PROVE PagesFound
  OBVIOUS
<1> DEFINE index == <<"index", "html">>
<1>n. ASSUME NEW d \in Seq(Named), d # << >> PROVE ~EndsInSlash(d)
  <2>1. Len(d) \in 1 .. Len(d)
    BY <1>n, EmptySeq
  <2>2. d[Len(d)] \in Named
    BY <2>1, ElementOfSeq
  <2> QED
    BY <2>2 DEF EndsInSlash, Named
<1>1. ASSUME NEW k \in DOMAIN site.http, k[Len(k)] = index
      PROVE  LET p == CutLast(k)
             IN  /\ HttpKey(site.http, Append(p, Empty)) = k
                 /\ p # << >> /\ p \notin DOMAIN site.http => HttpKey(site.http, p) = k
  <2>1. PICK d \in Seq(Named), e \in Named : k = Append(d, e)
    BY KeysAreRoutes
  <2>2. e = index /\ CutLast(k) = d
    BY <2>1, <1>1, AppendCut
  <2>3. /\ EndsInSlash(Append(d, Empty)) /\ CutLast(Append(d, Empty)) = d
    BY AppendCut DEF EndsInSlash
  <2>4. Append(d, Empty) \notin DOMAIN site.http
    <3>1. ASSUME Append(d, Empty) \in DOMAIN site.http PROVE FALSE
      <4>1. PICK d2 \in Seq(Named), e2 \in Named : Append(d, Empty) = Append(d2, e2)
        BY <3>1, KeysAreRoutes
      <4>2. Append(d2, e2)[Len(Append(d2, e2))] = e2
        BY AppendCut
      <4> QED
        BY <4>1, <4>2, <2>3 DEF EndsInSlash, Named
    <3> QED
      BY <3>1
  <2>5. WithIndex(Append(d, Empty)) = k
    BY <2>1, <2>2, <2>3 DEF WithIndex
  <2>6. d # << >> => WithIndex(d) = k
    BY <2>1, <2>2, <1>n DEF WithIndex
  <2> QED
    BY <2>2, <2>4, <2>5, <2>6 DEF HttpKey
<1>2. ASSUME NEW k \in DOMAIN site.gemini, EndsInSlash(k)
      PROVE  /\ GeminiKey(site.gemini, k) = k
             /\ CutLast(k) \notin DOMAIN site.gemini => GeminiKey(site.gemini, CutLast(k)) = k
  <2>1. PICK d \in Seq(Named) : k = Append(d, Empty)
    BY <1>2, KeysAreRoutes
  <2>2. k # << >> /\ CutLast(k) = d
    BY <2>1, AppendCut
  <2>3. d = << >> => k = Root
    BY <2>1 DEF Root
  <2> QED
    BY <2>1, <2>2, <2>3, <1>n DEF GeminiKey
<1> QED
  BY <1>1, <1>2 DEF PagesFound

(* A page is found under its directory's path, with and without the slash, *)
(* over HTTP and over Gemini, whatever was deployed: route's and lookup's  *)
(* fallbacks find every index that the build's maps hold.                  *)
THEOREM PagesAreFound == Spec => []PagesFound
<1>1. Init => site \in Builds
  BY DEF Init
<1>2. site \in Builds /\ [Next]_vars => (site \in Builds)'
  BY DEF Next, Load, vars, server, browser, Stop, Start, Answer, Refuse, Ask, Open, UseCached,
         Evict, Receive, Tick
<1> QED
  BY <1>1, <1>2, PagesOfBuild, PTL DEF Spec
=============================================================================
