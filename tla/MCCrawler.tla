------------------------------ MODULE MCCrawler ------------------------------
(* A small web for TLC: raw is another spelling of home, which links never  *)
(* use, as new URL normalises them and the start is taken as it is.         *)
EXTENDS Crawler, TLC

CONSTANTS home, raw, a, b, c, x, site, other, bad

MCUrls == {home, raw, a, b, c, x}
MCHostOf == (home :> site) @@ (raw :> site) @@ (a :> site) @@ (b :> site)
              @@ (c :> site) @@ (x :> other)

\* c is sometimes redirected off the site.
MCRedirects == [u \in MCUrls |-> IF u = c THEN {c, x} ELSE {u}]

\* No link, one, two in each order, the same twice, one that is no URL.
MCLinkLists ==
  {<<>>, <<home>>, <<a>>, <<b>>, <<c>>, <<x>>, <<a, b>>, <<b, a>>, <<b, c>>,
   <<x, a>>, <<a, a>>, <<bad, b>>}

Ask == [startUrl |-> home, maxPages |-> 0, maxDepth |-> 2,
        sameDomain |-> "true", outputDir |-> TRUE]
MCInputs ==
  {Ask, [Ask EXCEPT !.maxPages = 2], [Ask EXCEPT !.maxDepth = 1],
   [Ask EXCEPT !.sameDomain = "false", !.outputDir = FALSE],
   [Ask EXCEPT !.sameDomain = "missing", !.maxDepth = 1],
   [Ask EXCEPT !.maxDepth = 0, !.outputDir = FALSE],
   [Ask EXCEPT !.startUrl = raw], [Ask EXCEPT !.startUrl = bad]}
=============================================================================
