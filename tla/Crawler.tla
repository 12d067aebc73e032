------------------------------- MODULE Crawler -------------------------------
(***************************************************************************)
(* scrapeSite of the web-scraper extension                                 *)
(* (extensions/web-scraper/src/index.ts): a breadth-first crawl in one     *)
(* node process, one request at a time.  The web is the environment: every *)
(* request fails or is answered, and each answer shows what links the page *)
(* has at that moment, so the links are not those of the page that was     *)
(* scraped.  fetch follows redirects by itself, so an answer may come from *)
(* another URL, on another host, than the one that was asked; its relative *)
(* links are read as links of the one asked.  An action is what the crawl  *)
(* does between two awaits, except that the loop over a page's links takes *)
(* one step per link.                                                      *)
(***************************************************************************)
EXTENDS Integers, Sequences, FiniteSets

CONSTANTS
  Urls,       \* valid absolute URLs
  Invalid,    \* an href, or a start URL, that new URL rejects
  HostOf,     \* URL -> its host name
  Redirects,  \* URL -> the URLs that may answer a request for it
  LinkLists,  \* what a page's a[href] may be: sequences of hrefs
  Inputs,     \* what scrape.site is called with
  NoEntry     \* "no page in hand"

Hrefs == Urls \cup {Invalid}

\* ScrapeSiteInput; 0 stands for a number that is missing.
Input == [startUrl : Hrefs, maxPages : Nat, maxDepth : Nat,
          sameDomain : {"true", "false", "missing"}, outputDir : BOOLEAN]

DefaultPages == 50
DefaultDepth == 3

ASSUME LinksAssumption  == LinkLists \subseteq Seq(Hrefs) /\ LinkLists # {}
ASSUME RedirectsAssumption == Redirects \in [Urls -> (SUBSET Urls) \ {{}}]
ASSUME InputsAssumption == Inputs \subseteq Input /\ Inputs # {}
ASSUME UrlsAssumption   == Invalid \notin Urls
ASSUME NoEntryAssumption == NoEntry \notin [url : Urls, depth : Nat]

VARIABLES
  pc,       \* what the crawl is waiting for or doing
  input,    \* what it was called with
  queue,    \* URLs to visit, with the number of links from the start
  visited,  \* URLs taken from the queue
  results,  \* pages scraped, with their depth
  current,  \* the queue entry in hand
  links,    \* its links not yet looked at
  shown,    \* history: URL -> the valid links its answer showed
  contacted \* history: the hosts that requests went to

history == <<shown, contacted>>
vars == <<pc, input, queue, visited, results, current, links, history>>

Entry  == [url : Urls, depth : Nat]
Ended  == {"succeeded", "failed"}
Places == {"start", "loop", "rest", "scrape", "extract", "follow", "save"}

\* input.maxPages || 50, input.maxDepth || 3
PageLimit  == IF input.maxPages = 0 THEN DefaultPages ELSE input.maxPages
DepthLimit == IF input.maxDepth = 0 THEN DefaultDepth ELSE input.maxDepth

\* !input.sameDomain: a missing one counts as false.  (The default of true in
\* the manifest, .mcp/tools/scrape-site.json:13, is applied nowhere.)
SameDomain == input.sameDomain = "true"

TypeOK ==
  /\ pc \in Places \cup Ended
  /\ input \in Inputs
  /\ queue \in Seq(Entry)
  /\ visited \subseteq Urls
  /\ results \in Seq(Entry)
  /\ current \in Entry \cup {NoEntry}
  /\ pc \in {"rest", "scrape", "extract", "follow"} => current \in Entry
  /\ links \in Seq(Hrefs)
  /\ shown \in [Urls -> SUBSET Urls]
  /\ contacted \subseteq {HostOf[u] : u \in Urls}

Init ==
  /\ pc = "start"
  /\ input \in Inputs
  /\ queue = <<>>
  /\ visited = {}
  /\ results = <<>>
  /\ current = NoEntry
  /\ links = <<>>
  /\ shown = [u \in Urls |-> {}]
  /\ contacted = {}

-----------------------------------------------------------------------------
(* The crawl.                                                              *)

\* new URL(input.startUrl) throws for an invalid URL.
Start ==
  /\ pc = "start"
  /\ IF input.startUrl \in Urls
       THEN /\ queue' = <<[url |-> input.startUrl, depth |-> 0]>>
            /\ pc' = "loop"
       ELSE /\ pc' = "failed"
            /\ UNCHANGED queue
  /\ UNCHANGED <<input, visited, results, current, links, history>>

\* Mutant: the limit is tested after one page too many.
MoreToDoLate == queue # <<>> /\ Len(results) <= PageLimit

MoreToDo == queue # <<>> /\ Len(results) < PageLimit

\* Mutant: a URL that was queued twice is visited twice.
SkippedOnlyDeep(e) == e.depth > DepthLimit

\* Mutant: the last level is left out.
SkippedEarly(e) == e.url \in visited \/ e.depth >= DepthLimit

Skipped(e) == e.url \in visited \/ e.depth > DepthLimit

\* Mutant: an entry that is skipped stays in the queue.
DequeueStuck ==
  /\ pc = "loop"
  /\ MoreToDo
  /\ LET e == Head(queue)
     IN  IF Skipped(e)
           THEN UNCHANGED <<pc, visited, current, queue>>
           ELSE /\ visited' = visited \cup {e.url}
                /\ current' = e
                /\ queue' = Tail(queue)
                /\ pc' = IF results = <<>> THEN "scrape" ELSE "rest"
  /\ UNCHANGED <<input, results, links, history>>

Dequeue ==
  /\ pc = "loop"
  /\ MoreToDo
  /\ queue' = Tail(queue)
  /\ LET e == Head(queue)
     IN  IF Skipped(e)
           THEN UNCHANGED <<pc, visited, current>>
           ELSE /\ visited' = visited \cup {e.url}
                /\ current' = e
                /\ pc' = IF results = <<>> THEN "scrape" ELSE "rest"
  /\ UNCHANGED <<input, results, links, history>>

\* The rate limit: the delay before every page but the first ones.
Rest ==
  /\ pc = "rest"
  /\ pc' = "scrape"
  /\ UNCHANGED <<input, queue, visited, results, current, links, history>>

\* What comes of a request for u, made by fetch: the URL that answered it.
Request(u, by) ==
  /\ by \in Redirects[u]
  /\ contacted' = contacted \cup {HostOf[u], HostOf[by]}

\* scrapeUrl's success: an HTTP error, a network error or the time limit,
\* whatever it is that throws, makes it answer FALSE.
ScrapeUrl == BOOLEAN

\* The crawl goes on without a page that fails.
Scrape ==
  /\ pc = "scrape"
  /\ \E by \in Urls : Request(current.url, by)
  /\ \E success \in ScrapeUrl :
       IF success THEN /\ results' = Append(results, current)
                       /\ pc' = "extract"
                  ELSE /\ pc' = "loop"
                       /\ UNCHANGED results
  /\ UNCHANGED <<input, queue, visited, current, links, shown>>

\* Mutant: every host looks like the page's.
HostIsAny(href, host) == href \in Urls

\* A link's host against a page's, for extractLinks and for the crawl.
HostIs(href, host) == href \in Urls /\ HostOf[href] = host

\* links.filter: the links of a list to a host, in their order.  (SelectSeq, as
\* a recursive function that the proofs can unfold.)
LinksTo(list, host) ==
  LET kept[n \in 0..Len(list)] ==
        IF n = 0 THEN <<>>
        ELSE IF HostIs(list[n], host) THEN Append(kept[n - 1], list[n])
        ELSE kept[n - 1]
  IN  kept[Len(list)]

\* extractLinks, includeExternal = !SameDomain: the page is requested
\* again; hrefs that are no URL are dropped only if the host is looked at.
ExtractLinks ==
  /\ pc = "extract"
  /\ \E by \in Urls : Request(current.url, by)
  /\ \/ \E found \in LinkLists :
          /\ links' = IF SameDomain THEN LinksTo(found, HostOf[current.url])
                                          ELSE found
          /\ shown' = [shown EXCEPT ![current.url] =
                         {found[i] : i \in DOMAIN found} \ {Invalid}]
          /\ pc' = "follow"
     \/ /\ pc' = "loop"
        /\ UNCHANGED <<links, history>>
  /\ UNCHANGED <<input, queue, visited, results, current>>

\* Mutant: a link that new URL rejects is queued.
WantedUnparsed(href) == ~SameDomain /\ href \notin visited

\* Whether the loop over the links queues a link.
Wanted(href) ==
  /\ href \in Urls
  /\ SameDomain => HostIs(href, HostOf[input.startUrl])
  /\ href \notin visited

NextDepth == current.depth + 1

\* Mutant: links go to the front of the queue.
FollowFirst ==
  /\ pc = "follow"
  /\ links # <<>>
  /\ links' = Tail(links)
  /\ queue' = IF Wanted(Head(links))
                THEN <<[url |-> Head(links), depth |-> NextDepth]>> \o queue
                ELSE queue
  /\ UNCHANGED <<pc, input, visited, results, current, history>>

FollowLink ==
  /\ pc = "follow"
  /\ links # <<>>
  /\ links' = Tail(links)
  /\ queue' = IF Wanted(Head(links))
                THEN Append(queue, [url |-> Head(links), depth |-> NextDepth])
                ELSE queue
  /\ UNCHANGED <<pc, input, visited, results, current, history>>

LinksFollowed ==
  /\ pc = "follow"
  /\ links = <<>>
  /\ pc' = "loop"
  /\ UNCHANGED <<input, queue, visited, results, current, links, history>>

Finish ==
  /\ pc = "loop"
  /\ ~MoreToDo
  /\ pc' = IF input.outputDir THEN "save" ELSE "succeeded"
  /\ UNCHANGED <<input, queue, visited, results, current, links, history>>

\* The whole crawl fails if its results cannot be written.
Save ==
  /\ pc = "save"
  /\ pc' \in Ended
  /\ UNCHANGED <<input, queue, visited, results, current, links, history>>

Quiescent == pc \in Ended /\ UNCHANGED vars

Next ==
  \/ Start \/ Dequeue \/ Rest \/ Scrape \/ ExtractLinks \/ FollowLink
  \/ LinksFollowed \/ Finish \/ Save \/ Quiescent

\* The crawl is one process that goes on whenever its request is answered.
\* That every request is answered is an assumption: fetch has a time limit
\* in scrapeUrl and none in extractLinks.
Spec == Init /\ [][Next]_vars /\ WF_vars(Next)

-----------------------------------------------------------------------------
(* Reference: the pages within n links of the start, by the links shown.   *)

Follows(u, v) ==
  v \in shown[u] /\ (SameDomain => HostOf[v] = HostOf[input.startUrl])

Within[n \in Nat] ==
  IF n = 0 THEN {input.startUrl}
  ELSE Within[n - 1] \cup {v \in Urls : \E u \in Within[n - 1] : Follows(u, v)}

(* Properties.                                                             *)

\* A URL is scraped once, however often pages link to it and however often
\* it was queued before it was visited.
PagesOnce ==
  \A i, j \in DOMAIN results : results[i].url = results[j].url => i = j

\* The depth a page is reported with is its distance from the start, the
\* least number of links: no longer way, found earlier, is ever reported.
DepthIsDistance ==
  \A i \in DOMAIN results :
    LET r == results[i]
    IN  /\ r.url \in Within[r.depth]
        /\ r.depth > 0 => r.url \notin Within[r.depth - 1]

\* No more pages and no deeper ones than asked for, where a limit of zero
\* means the default.
WithinLimits ==
  /\ Len(results) <= PageLimit
  /\ \A i \in DOMAIN results : results[i].depth <= DepthLimit

AskedOnSite ==
  SameDomain => \A u \in visited : HostOf[u] = HostOf[input.startUrl]
ReachedByAsking ==
  \A h \in contacted : \E u \in visited :
    h = HostOf[u] \/ \E by \in Redirects[u] : h = HostOf[by]

\* With sameDomain given as true the crawl asks for no URL of another host,
\* whatever the pages link to, several links away or not, and whoever answered
\* for them.  Another host is reached only where a page that was asked for
\* redirects to it; the crawl does not look where an answer came from, and
\* reports it under the URL it asked for.
StaysOnSite == AskedOnSite /\ ReachedByAsking

\* What a crawl reports, at every moment of it, is right: each page once, at its
\* distance, within the limits and on the site.
CrawlSound == TypeOK /\ PagesOnce /\ DepthIsDistance /\ WithinLimits /\ StaysOnSite

\* A crawl that was not cut off by the page limit has visited every page
\* within the depth limit, and no other: a failing page, a link shown twice
\* or found again at another depth hides nothing.
CrawlIsComplete ==
  (pc \in {"save"} \cup Ended /\ input.startUrl \in Urls
     /\ Len(results) < PageLimit)
    => visited = Within[DepthLimit]

\* Every crawl ends, with cycles in the links and links that return in
\* every answer, if requests are answered.
CrawlEnds == <>(pc \in Ended)
=============================================================================
