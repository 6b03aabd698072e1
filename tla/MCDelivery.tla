----------------------------- MODULE MCDelivery -----------------------------
EXTENDS Delivery

File(dir, name, ext, content) ==
    [dir |-> dir, name |-> name, ext |-> ext, content |-> content]
Blog == << <<"blog", "">> >>

(* Two trees that build, the first with two files on one Gemini route      *)
(* (style.css and style.css.gmi), one in which two names make one          *)
(* identifier (style/css.gmi and style-css.gmi), and no tree.              *)
First == {File(<< >>, "index", "html", "p1"), File(<< >>, "style", "css", "s1"),
          File(<< >>, "logo", "png", "l1"), File(Blog, "index", "gmi", "g2"),
          File(<< >>, "style.css", "gmi", "g5")}
Second == {File(<< >>, "index", "html", "p2"), File(<< >>, "logo", "png", "l2"),
           File(Blog, "index", "html", "b2"), File(Blog, "index", "gmi", "g2"),
           File(<< >>, "blog", "gmi", "g1")}
Clash == First \cup {File(<< <<"style", "">> >>, "css", "gmi", "g3"),
                     File(<< >>, "style-css", "gmi", "g4")}
MCTrees == {First, Second, Clash, NoPublic}

Style == << <<"style", "css">> >>
Logo == << <<"logo", "png">> >>
MCUnreadable == {{}, {File(<< >>, "style", "css", "s1")}}
MCPaths == {Root, Style, Logo}
MCNames == [c \in {"p1", "p2"} |-> IF c = "p1" THEN {Style} ELSE {Logo}]
MCWords == [n \in {"index", "style", "css", "logo", "blog", "", "style-css"} |->
              IF n = "style-css" THEN <<"style", "css">> ELSE <<n>>]
MCFingerprinted == {"style"}
MCStripped == [n \in {"blog", "css", "style-css", "style.css"} |->
                 IF n = "style.css" THEN <<"style", "css">> ELSE <<n, "">>]
MCAccepts == {{"gzip"}}
=============================================================================
