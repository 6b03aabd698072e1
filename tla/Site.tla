-------------------------------- MODULE Site --------------------------------
(***************************************************************************)
(* What build.rs makes of the files below public/, and how the two servers *)
(* look a path up in it.                                                   *)
(*                                                                         *)
(* A path is the sequence of its segments, a segment a pair of a name and  *)
(* an extension ("" for none). A slash at the end leaves an empty segment  *)
(* behind it: "/posts/" is << <<"posts", "">>, <<"", "">> >>. A file is    *)
(* its directory, name, extension and content.                             *)
(***************************************************************************)
EXTENDS Naturals, Sequences, SequencesExt

CONSTANTS Words,         \* a name's alphanumeric words, in one case
          Fingerprinted, \* the names that end in .min.<over 20 hex digits>
          Stripped       \* the segment left of a .gmi file's name without .gmi

ASSUME SiteAssumption == {"", "index"} \cap Fingerprinted = {}

Empty == <<"", "">>
Root == <<Empty>>
NoPath == << >>

Compressible == {"html", "css", "js", "json", "xml", "svg", "txt"}
LongLived == {"woff2", "woff", "webp", "png", "jpg", "jpeg", "gif", "svg", "ico", "pdf"}

----------------------------------------------------------------------------
(* The routes of a file: its path for HTTP; for Gemini the path of a .gmi  *)
(* file without the extension, and without the name if it is an index, and *)
(* of any other file the same as for HTTP. What is left of a name is a     *)
(* segment of its own: style.css.gmi has the Gemini route of style.css.    *)
HttpRoute(f) == Append(f.dir, <<f.name, f.ext>>)
GmiRoute(f) == Append(f.dir, IF f.name = "index" THEN Empty ELSE Stripped[f.name])
GeminiRoute(f) == IF f.ext = "gmi" THEN GmiRoute(f) ELSE HttpRoute(f)

HttpFiles(files) == {f \in files : f.ext # "gmi"}
GeminiFiles(files) == {f \in files : f.ext # "html"}

(* sanitize_ident keeps the words of a route and puts a _ for everything   *)
(* between them, the slashes included.                                     *)
SegmentWords(s) == Words[s[1]] \o (IF s[2] = "" THEN << >> ELSE <<s[2]>>)
Sanitized(route) == FlattenSeq([i \in DOMAIN route |-> SegmentWords(route[i])])

(* The names of the constants that are generated for a file. *)
Idents(f) ==
    IF f.ext = "gmi"
    THEN {<<"GEMINI">> \o Sanitized(GmiRoute(f))}
    ELSE {<<"">> \o Sanitized(HttpRoute(f))} \cup
         (IF f.ext = "html" THEN {}
          ELSE {<<"GEMINI", "HTTP", "">> \o Sanitized(HttpRoute(f))})

(* The fields of GeminiAsset; handle_connection reads content_type. *)
GeminiFields(public) ==
    {"content", "etag"} \cup (IF public THEN {"content_type"} ELSE {})

(* rustc takes the generated file if no constant is defined twice, and the *)
(* program with it if the fields it reads are there; those of the file     *)
(* that is written when there is no public/ are not.                       *)
Compiles(public, files) ==
    /\ {"content", "content_type"} \subseteq GeminiFields(public)
    /\ \A f, g \in files : f # g => Idents(f) \cap Idents(g) = {}

(* The maps that are generated from files and their routes. The last of    *)
(* two files with one route wins; walkdir has the order of the file        *)
(* system, so it may be either.                                            *)
Tables(route) ==
    {t \in [Range(route) -> DOMAIN route] : \A r \in DOMAIN t : route[t[r]] = r}
Sites(files) ==
    [http   : Tables([f \in HttpFiles(files) |-> HttpRoute(f)]),
     gemini : Tables([f \in GeminiFiles(files) |-> GeminiRoute(f)])]

----------------------------------------------------------------------------
EndsInSlash(p) == p[Len(p)] = Empty
CutLast(p) == SubSeq(p, 1, Len(p) - 1)

(* The key that route finds for a path: as it is, with index.html, without *)
(* the slash at the end.                                                   *)
WithIndex(p) ==
    Append(IF EndsInSlash(p) THEN CutLast(p) ELSE p, <<"index", "html">>)
(* Faulty: only directories are looked up. *)
FaultyHttpKey(table, p) ==
    IF WithIndex(p) \in DOMAIN table THEN WithIndex(p) ELSE NoPath

HttpKey(table, p) ==
    IF p \in DOMAIN table THEN p
    ELSE IF WithIndex(p) \in DOMAIN table THEN WithIndex(p)
    ELSE IF EndsInSlash(p) /\ p # Root /\ CutLast(p) \in DOMAIN table THEN CutLast(p)
    ELSE NoPath

(* Faulty: a slash is never added. *)
FaultyGeminiKey(table, path) ==
    IF path \in DOMAIN table THEN path ELSE NoPath

(* The key that lookup finds: as it is, without the slash, with a slash.   *)
GeminiKey(table, path) ==
    LET p == IF path = << >> THEN Root ELSE path
    IN  IF p \in DOMAIN table THEN p
        ELSE IF EndsInSlash(p) /\ p # Root
        THEN IF CutLast(p) \in DOMAIN table THEN CutLast(p) ELSE NoPath
        ELSE IF Append(p, Empty) \in DOMAIN table THEN Append(p, Empty) ELSE NoPath

(* serve_asset's choice of the encoding, by the encodings a client names.  *)
Encoding(f, accept) ==
    IF f.ext \notin Compressible THEN "identity"
    ELSE IF "br" \in accept THEN "br"
    ELSE IF "gzip" \in accept THEN "gzip"
    ELSE "identity"
=============================================================================
