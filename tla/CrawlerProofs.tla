----------------------------- MODULE CrawlerProofs -----------------------------
(***************************************************************************)
(* What the crawl reports is right at every moment and, at its end,        *)
(* complete: for every web, every limit and every way requests fail        *)
(* (extensions/web-scraper/src/index.ts scrapeSite, extractLinks).         *)
(* Within and LinksTo are recursive functions: the lemmas about numbers    *)
(* come first, with which their equations are derived.                     *)
(***************************************************************************)
EXTENDS Crawler, WellFoundedInduction, SequenceTheorems, TLAPS

-----------------------------------------------------------------------------
(* Induction and recursion on the natural numbers, with sets and functions *)
(* in the place of predicates.                                             *)

LEMMA LeastNatural ==
  ASSUME NEW T \in SUBSET Nat, T # {}
  PROVE  \E m \in T : \A k \in T : m <= k
<1>1. IsWellFoundedOn(OpToRel(<, Nat), Nat)
  BY NatLessThanWellFounded
<1>2. PICK m \in T : \A k \in T : <<k, m>> \notin OpToRel(<, Nat)
  BY <1>1, WFMin
<1>3. \A k \in T : ~(k < m)
  BY <1>2 DEF OpToRel
<1>4. QED
  BY <1>3

LEMMA Induction ==
  ASSUME NEW S, 0 \in S, \A n \in Nat : n \in S => n + 1 \in S
  PROVE  \A n \in Nat : n \in S
<1>1. SUFFICES ASSUME Nat \ S # {} PROVE FALSE
  OBVIOUS
<1>2. PICK m \in Nat \ S : \A k \in Nat \ S : m <= k
  BY <1>1, LeastNatural
<1>3. m # 0 /\ m - 1 \in Nat
  BY <1>2
<1>4. m - 1 \in S
  BY <1>2, <1>3
<1>5. QED
  BY <1>2, <1>3, <1>4

\* There is a function that starts with x and goes on with step.
Recurs(X, x, step) ==
  \E F \in [Nat -> X] : F[0] = x /\ \A n \in Nat : F[n + 1] = step[n][F[n]]

\* It is defined for every number: its beginnings are, and agree with each other.
LEMMA Recursion ==
  ASSUME NEW X, NEW x \in X, NEW step \in [Nat -> [X -> X]]
  PROVE  Recurs(X, x, step)
<1> DEFINE Begins(n) == {g \in [0..n -> X] :
             g[0] = x /\ \A k \in 0..(n - 1) : g[k + 1] = step[k][g[k]]}
<1>1. \A n \in Nat : Begins(n) # {}
  <2> DEFINE S == {n \in Nat : Begins(n) # {}}
  <2>1. 0 \in S
    <3>1. [k \in 0..0 |-> x] \in Begins(0)
      OBVIOUS
    <3>2. QED
      BY <3>1
  <2>2. ASSUME NEW n \in Nat, n \in S
        PROVE  n + 1 \in S
    <3>1. PICK g \in Begins(n) : TRUE
      BY <2>2
    <3> DEFINE h == [k \in 0..(n + 1) |-> IF k = n + 1 THEN step[n][g[n]] ELSE g[k]]
    <3>2. g[n] \in X /\ step[n][g[n]] \in X
      BY <3>1
    <3>3. h \in [0..(n + 1) -> X]
      BY <3>1, <3>2
    <3>4. h[0] = x
      BY <3>1
    <3>5. \A k \in 0..n : h[k + 1] = step[k][h[k]]
      BY <3>1
    <3>6. h \in Begins(n + 1)
      BY <3>3, <3>4, <3>5
    <3> HIDE DEF h, Begins
    <3>7. Begins(n + 1) # {} /\ n + 1 \in Nat
      BY <3>6
    <3>8. QED
      BY <3>7
  <2> HIDE DEF S
  <2>3. \A n \in Nat : n \in S
    BY <2>1, <2>2, Induction
  <2>4. QED
    BY <2>3 DEF S
<1>2. \A n \in Nat : \A g \in Begins(n) :
        g[0] = x /\ \A k \in 0..n : g[k] \in X /\ (k < n => g[k + 1] = step[k][g[k]])
  OBVIOUS
<1> HIDE DEF Begins
<1> DEFINE Agree(k) == \A n, m \in Nat : k <= n /\ k <= m =>
             \A g \in Begins(n), h \in Begins(m) : g[k] = h[k]
<1>3. \A k \in Nat : Agree(k)
  <2> DEFINE S == {k \in Nat : Agree(k)}
  <2>1. Agree(0)
    BY <1>2
  <2>2. ASSUME NEW k \in Nat, Agree(k)
        PROVE  Agree(k + 1)
    <3>1. SUFFICES ASSUME NEW n \in Nat, NEW m \in Nat, k + 1 <= n, k + 1 <= m,
                          NEW g \in Begins(n), NEW h \in Begins(m)
                   PROVE  g[k + 1] = h[k + 1]
      OBVIOUS
    <3>2. k <= n /\ k <= m /\ k < n /\ k < m /\ k \in 0..n /\ k \in 0..m
      BY <3>1
    <3>3. g[k] = h[k]
      BY <2>2, <3>2
    <3>4. g[k + 1] = step[k][g[k]] /\ h[k + 1] = step[k][h[k]]
      BY <1>2, <3>2
    <3>5. QED
      BY <3>3, <3>4
  <2> HIDE DEF Agree
  <2>3. 0 \in S /\ \A k \in Nat : k \in S => k + 1 \in S
    BY <2>1, <2>2
  <2> HIDE DEF S
  <2>4. \A k \in Nat : k \in S
    BY <2>3, Induction
  <2>5. QED
    BY <2>4 DEF S
<1> DEFINE G(n) == CHOOSE g \in Begins(n) : TRUE
           F == [n \in Nat |-> G(n)[n]]
<1>4. \A n \in Nat : G(n) \in Begins(n)
  BY <1>1
<1> HIDE DEF G
<1>5. F \in [Nat -> X]
  BY <1>2, <1>4
<1>6. F[0] = x
  BY <1>2, <1>4
<1>7. ASSUME NEW n \in Nat
      PROVE  F[n + 1] = step[n][F[n]]
  <2>1. G(n + 1) \in Begins(n + 1) /\ G(n) \in Begins(n)
    BY <1>4
  <2>2. G(n + 1)[n + 1] = step[n][G(n + 1)[n]]
    BY <1>2, <2>1
  <2>3. G(n + 1)[n] = G(n)[n]
    BY <1>3, <2>1
  <2>4. QED
    BY <2>2, <2>3
<1>8. QED
  BY <1>5, <1>6, <1>7 DEF Recurs

-----------------------------------------------------------------------------
(* The recursive functions of the module.                                  *)

\* What the pages at one more link than those of W are, W included.
Further(W) == W \cup {v \in Urls : \E u \in W : Follows(u, v)}

Levels ==
  /\ Within[0] = {input.startUrl}
  /\ \A n \in Nat : Within[n + 1] = Further(Within[n])

LEMMA WithinLevels == Levels
<1> DEFINE X == SUBSET (Urls \cup {input.startUrl})
           x == {input.startUrl}
           step == [n \in Nat |-> [W \in X |-> Further(W)]]
<1>1. step \in [Nat -> [X -> X]]
  BY DEF Further
<1>2. x \in X
  OBVIOUS
<1>3. PICK F \in [Nat -> X] : F[0] = x /\ \A n \in Nat : F[n + 1] = step[n][F[n]]
  <2> HIDE DEF step, x, X
  <2>1. Recurs(X, x, step)
    BY <1>1, <1>2, Recursion
  <2>2. QED
    BY <2>1 DEF Recurs
<1>4. \A n \in Nat : F[n + 1] = Further(F[n])
  BY <1>3
<1> DEFINE Step(g) == [n \in Nat |-> IF n = 0 THEN {input.startUrl}
             ELSE g[n - 1] \cup {v \in Urls : \E u \in g[n - 1] : Follows(u, v)}]
<1>5. F = Step(F)
  <2>1. \A n \in Nat : n # 0 => n - 1 \in Nat /\ F[n] = Further(F[n - 1])
    BY <1>4
  <2>2. \A n \in Nat : F[n] = Step(F)[n]
    BY <1>3, <2>1 DEF Further
  <2>3. QED
    BY <1>3, <2>2
<1>6. Within = Step(Within)
  <2>1. Within = CHOOSE g : g = Step(g)
    BY DEF Within
  <2> HIDE DEF Step
  <2>2. QED
    BY <1>5, <2>1
<1>7. \A n \in Nat : n + 1 # 0 /\ n + 1 \in Nat /\ (n + 1) - 1 = n
  OBVIOUS
<1>8. QED
  BY <1>6, <1>7 DEF Levels, Further

LEMMA NextWithinLevels == Levels'
BY WithinLevels, PTL

LEMMA WithinGrows ==
  ASSUME NEW k \in Nat, NEW n \in Nat, k <= n
  PROVE  Within[k] \subseteq Within[n]
<1> DEFINE S == {d \in Nat : Within[k] \subseteq Within[k + d]}
<1>1. 0 \in S
  OBVIOUS
<1>2. \A d \in Nat : d \in S => d + 1 \in S
  <2>1. \A d \in Nat : k + d \in Nat /\ k + (d + 1) = (k + d) + 1
    OBVIOUS
  <2>2. QED
    BY <2>1, WithinLevels DEF Levels, Further
<1> HIDE DEF S
<1>3. n - k \in S
  BY <1>1, <1>2, Induction
<1>4. k + (n - k) = n
  OBVIOUS
<1>5. QED
  BY <1>3, <1>4 DEF S

Has(s, e) == \E i \in DOMAIN s : s[i] = e

LEMMA AppendHas ==
  ASSUME NEW S, NEW s \in Seq(S), NEW e \in S
  PROVE  /\ Append(s, e) \in Seq(S)
         /\ \A h : Has(Append(s, e), h) <=> Has(s, h) \/ h = e
<1>1. /\ Append(s, e) \in Seq(S)
      /\ DOMAIN s = 1..Len(s) /\ DOMAIN Append(s, e) = 1..(Len(s) + 1)
      /\ \A i \in 1..Len(s) : Append(s, e)[i] = s[i]
      /\ Append(s, e)[Len(s) + 1] = e /\ Len(s) \in Nat
  BY AppendProperties, LenProperties
<1>2. ASSUME NEW h
      PROVE  Has(Append(s, e), h) <=> Has(s, h) \/ h = e
  <2>1. 1..(Len(s) + 1) = (1..Len(s)) \cup {Len(s) + 1}
    BY <1>1
  <2>2. QED
    BY <1>1, <2>1 DEF Has
<1>3. QED
  BY <1>1, <1>2

LEMMA TailHas ==
  ASSUME NEW S, NEW s \in Seq(S), s # <<>>
  PROVE  /\ Head(s) \in S /\ Tail(s) \in Seq(S)
         /\ \A h : Has(s, h) <=> h = Head(s) \/ Has(Tail(s), h)
<1>1. /\ Head(s) = s[1] /\ Tail(s) \in Seq(S) /\ Len(s) \in Nat /\ Len(s) # 0
      /\ DOMAIN s = 1..Len(s) /\ DOMAIN Tail(s) = 1..(Len(s) - 1)
      /\ \A i \in 1..(Len(s) - 1) : Tail(s)[i] = s[i + 1]
  BY HeadTailProperties, LenProperties, EmptySeq
<1>2. \A i \in 1..Len(s) : i = 1 \/ (i - 1 \in 1..(Len(s) - 1) /\ Tail(s)[i - 1] = s[i])
  BY <1>1
<1>3. \A i \in 1..(Len(s) - 1) : i + 1 \in 1..Len(s)
  BY <1>1
<1>4. ASSUME NEW h
      PROVE  Has(s, h) => h = Head(s) \/ Has(Tail(s), h)
  BY <1>1, <1>2 DEF Has
<1>5. ASSUME NEW h
      PROVE  Has(Tail(s), h) => Has(s, h)
  BY <1>1, <1>3 DEF Has
<1>6. Has(s, Head(s))
  BY <1>1 DEF Has
<1>7. Head(s) \in S
  BY HeadTailProperties
<1>8. QED
  BY <1>1, <1>4, <1>5, <1>6, <1>7

\* A filtered list holds the links to the host, and no other.
LEMMA LinksToHost ==
  ASSUME NEW list \in Seq(Hrefs), NEW host
  PROVE  /\ LinksTo(list, host) \in Seq(Hrefs)
         /\ \A h : Has(LinksTo(list, host), h) <=> Has(list, h) /\ HostIs(h, host)
<1> DEFINE N == Len(list)
           Step(g) == [n \in 0..N |->
             IF n = 0 THEN <<>>
             ELSE IF HostIs(list[n], host) THEN Append(g[n - 1], list[n]) ELSE g[n - 1]]
           kept == CHOOSE g : g = Step(g)
<1>1. LinksTo(list, host) = kept[N]
  BY DEF LinksTo
<1>2. N \in Nat /\ DOMAIN list = 1..N /\ \A n \in 1..N : list[n] \in Hrefs
  BY LenProperties
<1>3. kept = Step(kept)
  <2> DEFINE X == Seq(Hrefs)
             x == <<>>
             step == [n \in Nat |-> [k \in X |->
               IF n + 1 \in 1..N /\ HostIs(list[n + 1], host)
                 THEN Append(k, list[n + 1]) ELSE k]]
  <2>1. step \in [Nat -> [X -> X]]
    BY <1>2, AppendProperties
  <2>2. x \in X
    BY EmptySeq
  <2>3. PICK F \in [Nat -> X] : F[0] = x /\ \A n \in Nat : F[n + 1] = step[n][F[n]]
    <3> HIDE DEF step, x, X
    <3>1. Recurs(X, x, step)
      BY <2>1, <2>2, Recursion
    <3>2. QED
      BY <3>1 DEF Recurs
  <2> DEFINE g == [n \in 0..N |-> F[n]]
  <2>4. \A n \in 1..N : F[n] = IF HostIs(list[n], host) THEN Append(F[n - 1], list[n])
                                                       ELSE F[n - 1]
    <3>1. ASSUME NEW n \in 1..N
          PROVE  F[n] = IF HostIs(list[n], host) THEN Append(F[n - 1], list[n]) ELSE F[n - 1]
      <4>1. n - 1 \in Nat /\ (n - 1) + 1 = n
        BY <1>2
      <4>2. F[n] = step[n - 1][F[n - 1]]
        BY <2>3, <4>1
      <4>3. QED
        BY <2>3, <4>1, <4>2
    <3>2. QED
      BY <3>1
  <2>5. g = Step(g)
    <3>1. ASSUME NEW n \in 0..N
          PROVE  g[n] = Step(g)[n]
      <4>1. CASE n = 0
        BY <1>2, <2>3, <4>1
      <4>2. CASE n # 0
        <5>1. n \in 1..N /\ n - 1 \in 0..N
          BY <1>2, <4>2
        <5>2. g[n] = F[n] /\ g[n - 1] = F[n - 1]
          BY <5>1
        <5>3. Step(g)[n] = IF HostIs(list[n], host) THEN Append(g[n - 1], list[n]) ELSE g[n - 1]
          BY <4>2
        <5> HIDE DEF g, Step
        <5>4. QED
          BY <2>4, <5>1, <5>2, <5>3, Zenon
      <4>3. QED
        BY <4>1, <4>2
    <3> HIDE DEF Step
    <3>2. \A n \in 0..N : g[n] = Step(g)[n]
      BY <3>1
    <3> USE DEF Step
    <3>3. QED
      BY <3>2
  <2>6. QED
    BY <2>5
<1> HIDE DEF kept
<1>first. kept[0] = <<>>
  BY <1>2, <1>3
<1>each. ASSUME NEW n \in 1..N
      PROVE  kept[n] = IF HostIs(list[n], host) THEN Append(kept[n - 1], list[n])
                                                ELSE kept[n - 1]
  <2>1. n \in 0..N /\ n # 0
    BY <1>2
  <2>2. Step(kept)[n] = IF HostIs(list[n], host) THEN Append(kept[n - 1], list[n])
                                                ELSE kept[n - 1]
    BY <2>1
  <2> HIDE DEF Step
  <2>3. QED
    BY <1>3, <2>2
<1> HIDE DEF Step
<1> DEFINE Right(n) == kept[n] \in Seq(Hrefs) /\
             \A h : Has(kept[n], h) <=> (\E i \in 1..n : list[i] = h) /\ HostIs(h, host)
           S == {n \in Nat : n <= N => Right(n)}
<1>4. Right(0)
  BY <1>2, <1>first, EmptySeq DEF Has
<1>5. ASSUME NEW n \in Nat, n + 1 <= N, Right(n)
      PROVE  Right(n + 1)
  <2>1. n + 1 \in 1..N /\ (n + 1) - 1 = n /\ list[n + 1] \in Hrefs
        /\ 1..(n + 1) = (1..n) \cup {n + 1}
    BY <1>2, <1>5
  <2>2. kept[n + 1] = IF HostIs(list[n + 1], host) THEN Append(kept[n], list[n + 1]) ELSE kept[n]
    BY <1>each, <2>1
  <2>3. \A h : (\E i \in 1..(n + 1) : list[i] = h) <=> (\E i \in 1..n : list[i] = h) \/ h = list[n + 1]
    BY <2>1
  <2>4. CASE HostIs(list[n + 1], host)
    BY <1>5, <2>1, <2>2, <2>3, <2>4, AppendHas
  <2>5. CASE ~HostIs(list[n + 1], host)
    BY <1>5, <2>2, <2>3, <2>5
  <2>6. QED
    BY <2>4, <2>5
<1>6. 0 \in S /\ \A n \in Nat : n \in S => n + 1 \in S
  <2> HIDE DEF Right
  <2>1. QED
    BY <1>2, <1>4, <1>5
<1>7. Right(N)
  <2> HIDE DEF S
  <2>1. N \in S
    BY <1>2, <1>6, Induction
  <2> HIDE DEF Right
  <2>2. QED
    BY <1>2, <2>1 DEF S
<1>8. QED
  BY <1>1, <1>2, <1>7 DEF Has

\* The indices of a sequence and of its tail, and of what Append makes of it.
LEMMA TailIndices ==
  ASSUME NEW S, NEW s \in Seq(S), s # <<>>
  PROVE  /\ Head(s) = s[1] /\ Head(s) \in S /\ 1 \in DOMAIN s /\ Tail(s) \in Seq(S)
         /\ \A i \in DOMAIN Tail(s) : i + 1 \in DOMAIN s /\ Tail(s)[i] = s[i + 1]
         /\ \A i \in DOMAIN s \ {1} : i - 1 \in DOMAIN Tail(s) /\ Tail(s)[i - 1] = s[i]
<1>1. /\ Head(s) = s[1] /\ Tail(s) \in Seq(S) /\ Len(s) \in Nat /\ Len(s) # 0
      /\ DOMAIN s = 1..Len(s) /\ DOMAIN Tail(s) = 1..(Len(s) - 1)
      /\ \A i \in 1..(Len(s) - 1) : Tail(s)[i] = s[i + 1]
  BY HeadTailProperties, LenProperties, EmptySeq
<1>2. Head(s) \in S
  BY HeadTailProperties
<1>3. \A i \in DOMAIN Tail(s) : i + 1 \in DOMAIN s /\ Tail(s)[i] = s[i + 1]
  BY <1>1
<1>4. \A i \in DOMAIN s \ {1} : i - 1 \in DOMAIN Tail(s) /\ Tail(s)[i - 1] = s[i]
  BY <1>1
<1>5. QED
  BY <1>1, <1>2, <1>3, <1>4

LEMMA AppendIndices ==
  ASSUME NEW S, NEW s \in Seq(S), NEW e \in S
  PROVE  /\ Append(s, e) \in Seq(S)
         /\ Len(Append(s, e)) = Len(s) + 1 /\ Len(s) \in Nat
         /\ DOMAIN Append(s, e) = DOMAIN s \cup {Len(s) + 1}
         /\ DOMAIN s = 1..Len(s)
         /\ \A i \in DOMAIN s : Append(s, e)[i] = s[i]
         /\ Append(s, e)[Len(s) + 1] = e
<1>1. /\ Append(s, e) \in Seq(S) /\ Len(Append(s, e)) = Len(s) + 1 /\ Len(s) \in Nat
      /\ DOMAIN s = 1..Len(s) /\ DOMAIN Append(s, e) = 1..(Len(s) + 1)
      /\ \A i \in 1..Len(s) : Append(s, e)[i] = s[i]
      /\ Append(s, e)[Len(s) + 1] = e
  BY AppendProperties, LenProperties
<1>2. 1..(Len(s) + 1) = (1..Len(s)) \cup {Len(s) + 1}
  BY <1>1
<1>3. QED
  BY <1>1, <1>2

-----------------------------------------------------------------------------
(* The inductive invariant.                                                *)

Begun     == pc # "start" /\ input.startUrl \in Urls
OnSite(u) == SameDomain => HostOf[u] = HostOf[input.startUrl]

\* Nothing is done of a crawl whose start is no URL.
Shape ==
  /\ TypeOK
  /\ pc = "start" =>
       queue = <<>> /\ visited = {} /\ results = <<>> /\ current \notin Entry
         /\ \A u \in Urls : shown[u] = {}
  /\ pc \notin {"start", "failed"} => input.startUrl \in Urls
  /\ input.startUrl \notin Urls => queue = <<>> /\ visited = {} /\ results = <<>>

\* The queue holds, in this order, entries as deep as the page in hand and
\* entries one deeper.
Ordered ==
  /\ \A i, j \in DOMAIN queue : i <= j => queue[i].depth <= queue[j].depth
  /\ \A i \in DOMAIN queue :
       IF current \in Entry THEN queue[i].depth \in current.depth..(current.depth + 1)
                            ELSE queue[i].depth = 0

InHand ==
  /\ current \in Entry => current.url \in visited /\ current.depth <= DepthLimit
  /\ pc \in {"rest", "scrape"} =>
       /\ Len(results) < PageLimit
       /\ \A i \in DOMAIN results : results[i].url # current.url
  /\ pc \in {"extract", "follow"} => results # <<>> /\ results[Len(results)] = current
  /\ pc \in {"rest", "scrape", "extract"} => shown[current.url] = {}

\* Only pages that were scraped have shown links.
Reported ==
  /\ \A i \in DOMAIN results :
       results[i].url \in visited /\ current \in Entry /\ results[i].depth <= current.depth
  /\ \A u \in Urls : shown[u] # {} => \E i \in DOMAIN results : results[i].url = u

AtDistance(e) ==
  e.url \in Within[e.depth] /\ (e.depth > 0 => e.url \notin Within[e.depth - 1])

Distances ==
  /\ \A i \in DOMAIN results : AtDistance(results[i])
  /\ pc \in {"rest", "scrape", "extract", "follow"} => AtDistance(current)
  /\ \A i \in DOMAIN queue : queue[i].url \in Within[queue[i].depth]
  /\ \A u \in visited : u \in Within[DepthLimit]

Sites ==
  /\ AskedOnSite
  /\ \A i \in DOMAIN queue : OnSite(queue[i].url)
  /\ pc = "follow" => \A v \in Urls : Has(links, v) => v \in shown[current.url]

\* A page is visited, or will be found in the queue at no more than d links.
Reached(v, d) ==
  v \in visited \/ \E j \in DOMAIN queue : queue[j].url = v /\ queue[j].depth <= d

\* Every link shown by a page above the last level leads to a page reached, but
\* for the links of the page in hand that were not yet looked at.
Covered ==
  /\ Begun => Reached(input.startUrl, 0)
  /\ \A i \in DOMAIN results, v \in Urls :
       Follows(results[i].url, v) /\ results[i].depth < DepthLimit =>
          \/ Reached(v, results[i].depth + 1)
          \/ pc = "follow" /\ i = Len(results) /\ Has(links, v)

Finished ==
  pc = "save" \/ (pc \in Ended /\ input.startUrl \in Urls)
    => queue = <<>> \/ Len(results) >= PageLimit

CrawlInv ==
  /\ Shape /\ Ordered /\ InHand /\ Reported /\ PagesOnce /\ WithinLimits
  /\ Distances /\ Sites /\ ReachedByAsking /\ Covered /\ Finished

LEMMA Limits ==
  ASSUME input \in Inputs
  PROVE  PageLimit \in Nat \ {0} /\ DepthLimit \in Nat
BY InputsAssumption DEF PageLimit, DepthLimit, DefaultPages, DefaultDepth, Input

\* What is within the depth limit is reached as soon as it has to be: a page is
\* not taken from the queue before all pages nearer to the start.
LEMMA Coverage ==
  ASSUME CrawlInv, Begun, pc # "follow", NEW k \in Nat, k <= DepthLimit
  PROVE  \A v \in Within[k] : Reached(v, k)
<1> DEFINE S == {d \in Nat : d <= DepthLimit => \A v \in Within[d] : Reached(v, d)}
<1>1. DepthLimit \in Nat /\ queue \in Seq(Entry) /\ results \in Seq(Entry) /\ shown \in [Urls -> SUBSET Urls]
  BY Limits DEF CrawlInv, Shape, TypeOK
<1>2. /\ \A i \in DOMAIN queue : queue[i] \in Entry
      /\ \A i \in DOMAIN results : results[i] \in Entry
  BY <1>1
<1>3. 0 \in S
  BY WithinLevels DEF Levels, CrawlInv, Covered
<1>4. ASSUME NEW d \in Nat, d \in S
      PROVE  d + 1 \in S
  <2>1. SUFFICES ASSUME d + 1 <= DepthLimit, NEW v \in Within[d + 1]
                 PROVE  Reached(v, d + 1)
    OBVIOUS
  <2>2. \A u \in Within[d] : Reached(u, d)
    BY <1>1, <1>4, <2>1
  <2>3. CASE v \in Within[d]
    <3>1. Reached(v, d)
      BY <2>2, <2>3
    <3>2. \A j \in DOMAIN queue : queue[j].depth <= d => queue[j].depth <= d + 1
      BY <1>2 DEF Entry
    <3>3. QED
      BY <3>1, <3>2 DEF Reached
  <2>4. ASSUME NEW u \in Within[d], v \in Urls, Follows(u, v)
        PROVE  Reached(v, d + 1)
    <3>1. u \in Urls
      <4>1. u = input.startUrl \/ u \in visited \/ \E j \in DOMAIN queue : queue[j].url = u
        BY <2>2, <2>4 DEF Reached
      <4>2. QED
        BY <1>2, <4>1 DEF Begun, CrawlInv, Shape, TypeOK, Entry
    <3>2. PICK i \in DOMAIN results : results[i].url = u
      BY <2>4, <3>1 DEF Follows, CrawlInv, Reported
    <3>3. results[i].depth \in Nat
      BY <1>2 DEF Entry
    <3>4. results[i].depth <= d
      <4>1. SUFFICES ASSUME results[i].depth > d PROVE FALSE
        BY <3>3
      <4>2. results[i].depth - 1 \in Nat /\ d <= results[i].depth - 1 /\ results[i].depth > 0
        BY <3>3, <4>1
      <4>3. u \in Within[results[i].depth - 1]
        BY <4>2, WithinGrows
      <4>4. QED
        BY <3>2, <4>2, <4>3 DEF CrawlInv, Distances, AtDistance
    <3>5. Reached(v, results[i].depth + 1)
      BY <1>1, <2>1, <2>4, <3>2, <3>3, <3>4 DEF CrawlInv, Covered
    <3>6. \A j \in DOMAIN queue : queue[j].depth <= results[i].depth + 1 => queue[j].depth <= d + 1
      BY <1>2, <3>3, <3>4 DEF Entry
    <3>7. QED
      BY <3>5, <3>6 DEF Reached
  <2>5. QED
    BY <2>3, <2>4, WithinLevels DEF Levels, Further
<1> HIDE DEF S
<1>5. k \in S
  BY <1>3, <1>4, Induction
<1>6. QED
  BY <1>5 DEF S

-----------------------------------------------------------------------------
(* The levels from one state to the next.                                  *)

LEMMA SameLevels ==
  ASSUME UNCHANGED <<input, shown>>
  PROVE  Within' = Within
BY DEF Within, Follows, SameDomain

\* Links shown by a page that is not nearer than d to the start leave the levels
\* up to d as they are.
LEMMA LevelsKept ==
  ASSUME input' = input, NEW d \in Nat,
         \A k \in Nat : k < d =>
           \A u \in Within[k], v \in Urls : Follows(u, v)' <=> Follows(u, v)
  PROVE  \A k \in Nat : k <= d => Within'[k] = Within[k]
<1> DEFINE S == {k \in Nat : k <= d => Within'[k] = Within[k]}
<1>1. 0 \in S
  BY WithinLevels, NextWithinLevels DEF Levels
<1>2. ASSUME NEW k \in Nat, k \in S
      PROVE  k + 1 \in S
  <2>1. SUFFICES ASSUME k + 1 <= d PROVE Within'[k + 1] = Within[k + 1]
    OBVIOUS
  <2>2. Within'[k] = Within[k] /\ k < d
    BY <1>2, <2>1
  <2>3. Within'[k + 1] = Further(Within[k])'
    BY <2>2, NextWithinLevels DEF Levels, Further
  <2>4. Further(Within[k])' = Further(Within[k])
    BY <2>2 DEF Further
  <2>5. QED
    BY <2>2, <2>3, <2>4, WithinLevels DEF Levels
<1> HIDE DEF S
<1>3. \A k \in Nat : k \in S
  BY <1>1, <1>2, Induction
<1>4. QED
  BY <1>3 DEF S

LEMMA LevelsGrow ==
  ASSUME input' = input, \A u, v : Follows(u, v) => Follows(u, v)',
         NEW n \in Nat
  PROVE  Within[n] \subseteq Within'[n]
<1> DEFINE S == {k \in Nat : Within[k] \subseteq Within'[k]}
<1>1. 0 \in S
  BY WithinLevels, NextWithinLevels DEF Levels
<1>2. ASSUME NEW k \in Nat, k \in S
      PROVE  k + 1 \in S
  <2>1. Within[k + 1] = Within[k] \cup {v \in Urls : \E u \in Within[k] : Follows(u, v)}
    BY WithinLevels DEF Levels, Further
  <2>2. Within'[k + 1] = Within'[k] \cup {v \in Urls : \E u \in Within'[k] : Follows(u, v)'}
    BY NextWithinLevels DEF Levels, Further
  <2>3. QED
    BY <1>2, <2>1, <2>2
<1> HIDE DEF S
<1>3. n \in S
  BY <1>1, <1>2, Induction
<1>4. QED
  BY <1>3 DEF S

-----------------------------------------------------------------------------
(* The steps.                                                              *)

LEMMA EntryTypes ==
  ASSUME TypeOK
  PROVE  /\ \A i \in DOMAIN queue :
              queue[i] \in Entry /\ queue[i].url \in Urls /\ queue[i].depth \in Nat
         /\ \A i \in DOMAIN results :
              results[i] \in Entry /\ results[i].url \in Urls /\ results[i].depth \in Nat
<1>1. queue \in Seq(Entry) /\ results \in Seq(Entry)
  BY DEF TypeOK
<1>2. \A e \in Entry : e.url \in Urls /\ e.depth \in Nat
  BY DEF Entry
<1>3. QED
  BY <1>1, <1>2

\* A step that makes no request keeps what is known of the hosts.
LEMMA NoContact ==
  ASSUME ReachedByAsking, contacted' = contacted, visited \subseteq visited'
  PROVE  ReachedByAsking'
BY DEF ReachedByAsking

\* A request goes to the host of the page in hand, which was visited, and to
\* that of the page that answers.
LEMMA ContactStep ==
  ASSUME ReachedByAsking, TypeOK, current \in Entry, current.url \in visited,
         visited' = visited, NEW by \in Urls, Request(current.url, by)
  PROVE  /\ ReachedByAsking'
         /\ contacted' \subseteq {HostOf[u] : u \in Urls}
<1>1. current.url \in Urls
  BY DEF Entry
<1>2. QED
  BY <1>1 DEF ReachedByAsking, Request, TypeOK

LEMMA InitInv == Init => CrawlInv
<1> SUFFICES ASSUME Init PROVE CrawlInv
  OBVIOUS
<1>1. input \in Inputs /\ PageLimit \in Nat \ {0} /\ DepthLimit \in Nat
  BY Limits DEF Init
<1>2. DOMAIN queue = {} /\ DOMAIN results = {} /\ Len(results) = 0
  BY DEF Init
<1> USE DEF Init, Places, Ended
<1>3. Shape
  BY <1>1, EmptySeq, NoEntryAssumption DEF Shape, TypeOK, Entry
<1>4. Ordered /\ InHand /\ Reported /\ PagesOnce
  BY <1>2, <1>3 DEF Shape, Ordered, InHand, Reported, PagesOnce
<1>5. WithinLimits
  BY <1>1, <1>2 DEF WithinLimits
<1>6. Distances /\ Sites /\ ReachedByAsking /\ Covered /\ Finished
  BY <1>2 DEF Distances, Sites, AskedOnSite, ReachedByAsking, Covered, Begun, Finished
<1>7. QED
  BY <1>3, <1>4, <1>5, <1>6 DEF CrawlInv

LEMMA StartStep ==
  ASSUME CrawlInv, Start
  PROVE  CrawlInv'
<1> DEFINE e == [url |-> input.startUrl, depth |-> 0]
<1>1. Within' = Within /\ input' = input
  BY SameLevels DEF Start, history
<1>2. PageLimit' = PageLimit /\ DepthLimit' = DepthLimit /\ PageLimit \in Nat \ {0}
      /\ DepthLimit \in Nat
  BY <1>1, Limits DEF PageLimit, DepthLimit, CrawlInv, Shape, TypeOK
<1>3. CASE input.startUrl \notin Urls
  BY <1>1, <1>2, <1>3 DEF Start, CrawlInv, Shape, TypeOK, Places, Ordered, InHand,
     Reported, PagesOnce, WithinLimits, Distances, Sites, AskedOnSite, SameDomain, ReachedByAsking, history, Covered, Begun, Finished, Ended
<1>4. CASE input.startUrl \in Urls
  <2>1. e \in Entry /\ e.url = input.startUrl /\ e.depth = 0
    BY <1>4 DEF Entry
  <2>2. queue' \in Seq(Entry) /\ DOMAIN queue' = {1} /\ queue'[1] = e /\ pc' = "loop"
    <3>1. queue' = <<e>> /\ pc' = "loop"
      BY <1>4 DEF Start
    <3> HIDE DEF e
    <3>2. QED
      BY <2>1, <3>1
  <2>3. pc = "start" /\ results = <<>> /\ DOMAIN results = {} /\ visited = {} /\ current \notin Entry
        /\ \A u \in Urls : shown[u] = {}
    BY DEF Start, CrawlInv, Shape
  <2>4. UNCHANGED <<input, visited, results, current, links, shown, contacted>>
    BY DEF Start, history
  <2> HIDE DEF e
  <2>5. Shape'
    BY <1>4, <2>2, <2>4 DEF CrawlInv, Shape, TypeOK, Places
  <2>6. Ordered' /\ InHand' /\ Reported' /\ PagesOnce'
    BY <2>1, <2>2, <2>3, <2>4 DEF Ordered, InHand, Reported, PagesOnce
  <2>7. WithinLimits'
    BY <1>2, <2>3, <2>4 DEF CrawlInv, WithinLimits
  <2>8. Distances'
    BY <1>1, <2>1, <2>2, <2>3, <2>4, WithinLevels DEF Distances, Levels
  <2>9. Sites'
    BY <2>1, <2>2, <2>3, <2>4 DEF Sites, AskedOnSite, OnSite, SameDomain
  <2>10. Covered' /\ Finished'
    BY <2>1, <2>2, <2>3, <2>4 DEF Covered, Reached, Finished, Ended
  <2>11. ReachedByAsking'
    BY <2>4, NoContact DEF CrawlInv
  <2>12. QED
    BY <2>5, <2>6, <2>7, <2>8, <2>9, <2>10, <2>11 DEF CrawlInv
<1>5. QED
  BY <1>3, <1>4

LEMMA QuietStep ==
  ASSUME CrawlInv, Rest \/ LinksFollowed \/ Finish \/ Save \/ UNCHANGED vars
  PROVE  CrawlInv'
<1>1. UNCHANGED <<input, queue, visited, results, current, links, shown, contacted>>
  BY DEF Rest, LinksFollowed, Finish, Save, vars, history
<1>2. Within' = Within
  BY <1>1, SameLevels
<1>3. PageLimit' = PageLimit /\ DepthLimit' = DepthLimit /\ PageLimit \in Nat \ {0}
      /\ DepthLimit \in Nat
  BY <1>1, Limits DEF PageLimit, DepthLimit, CrawlInv, Shape, TypeOK
<1> USE DEF CrawlInv, Places, Ended
<1>4. Shape'
  BY <1>1 DEF Shape, TypeOK, Rest, LinksFollowed, Finish, Save, vars
<1>5. Ordered'
  BY <1>1 DEF Ordered
<1>6. InHand'
  BY <1>1, <1>3 DEF InHand, Rest, LinksFollowed, Finish, Save, vars
<1>7. Reported' /\ PagesOnce'
  BY <1>1 DEF Reported, PagesOnce
<1>8. WithinLimits'
  BY <1>1, <1>3 DEF WithinLimits
<1>9. Distances'
  BY <1>1, <1>2, <1>3 DEF Distances, AtDistance, Rest, LinksFollowed, Finish, Save, vars
<1>10. Sites'
  BY <1>1 DEF Sites, AskedOnSite, OnSite, SameDomain, Rest, LinksFollowed, Finish, Save, vars
<1>11. Covered'
  <2>1. Begun' => Begun
    BY <1>1 DEF Begun, Rest, LinksFollowed, Finish, Save, vars
  <2>2. pc = "follow" /\ pc' # "follow" => links = <<>>
    BY DEF Rest, LinksFollowed, Finish, Save, vars
  <2>3. links = <<>> => \A v : ~Has(links, v)
    BY DEF Has
  <2>4. QED
    BY <1>1, <1>3, <2>1, <2>2, <2>3 DEF Covered, Reached, Follows, SameDomain, Has
<1>12. Finished'
  BY <1>1, <1>3 DEF Finished, Shape, MoreToDo, Rest, LinksFollowed, Finish, Save, vars, TypeOK
<1>13. ReachedByAsking'
  BY <1>1, NoContact DEF CrawlInv
<1>14. QED
  BY <1>4, <1>5, <1>6, <1>7, <1>8, <1>9, <1>10, <1>11, <1>12, <1>13

LEMMA SkipStep ==
  ASSUME CrawlInv, Dequeue, Skipped(Head(queue))
  PROVE  CrawlInv'
<1>1. UNCHANGED <<pc, input, visited, results, current, links, shown, contacted>>
      /\ queue' = Tail(queue) /\ pc = "loop" /\ queue # <<>> /\ queue \in Seq(Entry)
  BY DEF Dequeue, history, MoreToDo, CrawlInv, Shape, TypeOK
<1>2. Within' = Within
  BY <1>1, SameLevels
<1>3. PageLimit' = PageLimit /\ DepthLimit' = DepthLimit /\ PageLimit \in Nat \ {0}
      /\ DepthLimit \in Nat
  BY <1>1, Limits DEF PageLimit, DepthLimit, CrawlInv, Shape, TypeOK
<1>4. /\ queue[1] = Head(queue) /\ 1 \in DOMAIN queue /\ queue' \in Seq(Entry)
      /\ \A i \in DOMAIN queue' : i + 1 \in DOMAIN queue /\ queue'[i] = queue[i + 1]
      /\ \A i \in DOMAIN queue \ {1} : i - 1 \in DOMAIN queue' /\ queue'[i - 1] = queue[i]
      /\ DOMAIN queue \subseteq Nat /\ DOMAIN queue' \subseteq Nat
  BY <1>1, TailIndices, LenProperties
<1>5. \A i \in DOMAIN queue : queue[i] \in Entry
  BY <1>1
<1>6. Shape'
  BY <1>1, <1>4 DEF CrawlInv, Shape, TypeOK
<1>7. Ordered'
  <2>1. \A i, j \in DOMAIN queue' : i <= j => i + 1 <= j + 1
    BY <1>4
  <2>2. QED
    BY <1>1, <1>4, <2>1 DEF CrawlInv, Ordered
<1>8. InHand' /\ Reported' /\ PagesOnce' /\ WithinLimits' /\ Finished'
  BY <1>1, <1>3 DEF CrawlInv, InHand, Reported, PagesOnce, WithinLimits, Finished, Ended
<1>9. Distances' /\ Sites'
  BY <1>1, <1>2, <1>3, <1>4 DEF CrawlInv, Distances, AtDistance, Sites, AskedOnSite, OnSite, SameDomain
<1> DEFINE ReachedNext(v, d) ==
             v \in visited' \/ \E j \in DOMAIN queue' : queue'[j].url = v /\ queue'[j].depth <= d
<1>10. ASSUME NEW v \in Urls, NEW d \in Nat, d <= DepthLimit, Reached(v, d)
       PROVE  ReachedNext(v, d)
  <2>1. SUFFICES ASSUME NEW j \in DOMAIN queue, queue[j].url = v, queue[j].depth <= d,
                        v \notin visited
                 PROVE  \E i \in DOMAIN queue' : queue'[i] = queue[j]
    BY <1>1, <1>10 DEF Reached
  <2>2. j # 1
    BY <1>3, <1>4, <1>5, <1>10, <2>1 DEF Skipped, Entry
  <2>3. QED
    BY <1>4, <2>2
<1>11. Covered'
  <2>1. Begun' <=> Begun
    BY <1>1 DEF Begun
  <2>2. Begun => ReachedNext(input.startUrl, 0)
    <3> HIDE DEF ReachedNext
    <3>1. Begun => input.startUrl \in Urls /\ Reached(input.startUrl, 0)
      BY DEF CrawlInv, Covered, Begun
    <3>2. 0 <= DepthLimit
      BY <1>3
    <3>3. QED
      BY <1>10, <3>1, <3>2
  <2>3. \A i \in DOMAIN results : results[i].depth \in Nat
    BY EntryTypes DEF CrawlInv, Shape
  <2>4. ASSUME NEW i \in DOMAIN results, NEW v \in Urls,
               Follows(results[i].url, v), results[i].depth < DepthLimit
        PROVE  ReachedNext(v, results[i].depth + 1)
    <3>1. Reached(v, results[i].depth + 1)
      BY <1>1, <2>4 DEF CrawlInv, Covered
    <3>2. results[i].depth + 1 \in Nat /\ results[i].depth + 1 <= DepthLimit
      BY <1>3, <2>3, <2>4
    <3>3. QED
      BY <1>10, <3>1, <3>2
  <2>5. QED
    BY <1>1, <1>3, <2>1, <2>2, <2>4 DEF Covered, Follows, SameDomain, Reached
<1>12. ReachedByAsking'
  BY <1>1, NoContact DEF CrawlInv
<1>13. QED
  BY <1>6, <1>7, <1>8, <1>9, <1>11, <1>12 DEF CrawlInv

\* The page taken from the queue is not nearer to the start than its entry says:
\* what is nearer has been visited.
LEMMA HeadAtDistance ==
  ASSUME CrawlInv, pc = "loop", queue # <<>>, ~Skipped(Head(queue))
  PROVE  AtDistance(Head(queue))
<1> DEFINE e == Head(queue)
<1>1. /\ queue \in Seq(Entry) /\ e = queue[1] /\ 1 \in DOMAIN queue /\ e \in Entry
      /\ DOMAIN queue \subseteq Nat \ {0}
  BY TailIndices, LenProperties DEF CrawlInv, Shape, TypeOK
<1>2. DepthLimit \in Nat /\ e.depth \in Nat /\ e.depth <= DepthLimit /\ e.url \notin visited
  BY <1>1, Limits DEF CrawlInv, Shape, TypeOK, Skipped, Entry
<1>3. Begun
  BY DEF CrawlInv, Shape, Begun
<1>4. e.url \in Within[e.depth]
  BY <1>1 DEF CrawlInv, Distances
<1>5. ASSUME e.depth > 0, e.url \in Within[e.depth - 1]
      PROVE  FALSE
  <2>1. e.depth - 1 \in Nat /\ e.depth - 1 <= DepthLimit
    BY <1>2, <1>5
  <2>2. Reached(e.url, e.depth - 1)
    BY <1>3, <1>5, <2>1, Coverage
  <2>3. PICK j \in DOMAIN queue : queue[j].depth <= e.depth - 1
    BY <1>2, <2>2 DEF Reached
  <2>4. e.depth <= queue[j].depth /\ queue[j].depth \in Nat
    BY <1>1 DEF CrawlInv, Ordered, Shape, TypeOK, Entry
  <2>5. QED
    BY <1>2, <2>3, <2>4
<1>6. QED
  BY <1>4, <1>5 DEF AtDistance

LEMMA VisitStep ==
  ASSUME CrawlInv, Dequeue, ~Skipped(Head(queue))
  PROVE  CrawlInv'
<1> DEFINE e == Head(queue)
<1>1. /\ UNCHANGED <<input, results, links, shown, contacted>>
      /\ queue' = Tail(queue) /\ pc = "loop" /\ queue # <<>> /\ queue \in Seq(Entry)
      /\ visited' = visited \cup {e.url} /\ current' = e
      /\ pc' \in {"rest", "scrape"} /\ Len(results) < PageLimit
  BY DEF Dequeue, history, MoreToDo, CrawlInv, Shape, TypeOK
<1>2. Within' = Within
  BY <1>1, SameLevels
<1>3. PageLimit' = PageLimit /\ DepthLimit' = DepthLimit /\ PageLimit \in Nat \ {0}
      /\ DepthLimit \in Nat
  BY <1>1, Limits DEF PageLimit, DepthLimit, CrawlInv, Shape, TypeOK
<1>4. /\ queue[1] = e /\ 1 \in DOMAIN queue /\ queue' \in Seq(Entry) /\ e \in Entry
      /\ \A i \in DOMAIN queue' : i + 1 \in DOMAIN queue /\ queue'[i] = queue[i + 1]
      /\ \A i \in DOMAIN queue \ {1} : i - 1 \in DOMAIN queue' /\ queue'[i - 1] = queue[i]
      /\ DOMAIN queue \subseteq Nat \ {0} /\ DOMAIN queue' \subseteq Nat
  BY <1>1, TailIndices, LenProperties
<1>5. /\ \A i \in DOMAIN queue : queue[i] \in Entry /\ queue[i].depth \in Nat
      /\ \A i \in DOMAIN results : results[i] \in Entry /\ results[i].depth \in Nat
      /\ e.url \in Urls /\ e.depth \in Nat /\ e.depth <= DepthLimit /\ e.url \notin visited
  <2>1. e.url \in Urls /\ e.depth \in Nat
    BY <1>4 DEF Entry
  <2>2. e.depth <= DepthLimit /\ e.url \notin visited
    BY <1>3, <2>1 DEF Skipped
  <2>3. QED
    BY <2>1, <2>2, EntryTypes DEF CrawlInv, Shape
<1>6. AtDistance(e)
  BY <1>1, HeadAtDistance
<1> HIDE DEF e
<1>7. Shape'
  BY <1>1, <1>4, <1>5 DEF CrawlInv, Shape, TypeOK, Places
<1>8. Ordered'
  <2>1. \A i, j \in DOMAIN queue' : i <= j => i + 1 <= j + 1
    BY <1>4
  <2>2. \A i \in DOMAIN queue : e.depth <= queue[i].depth /\ queue[i].depth <= e.depth + 1
    <3>1. CASE current \in Entry
      <4>1. current.depth \in Nat
        BY <3>1 DEF Entry
      <4>2. e.depth \in current.depth..(current.depth + 1)
        BY <1>4, <3>1 DEF CrawlInv, Ordered
      <4>3. \A i \in DOMAIN queue : queue[i].depth \in current.depth..(current.depth + 1)
                                    /\ e.depth <= queue[i].depth
        BY <1>4, <3>1 DEF CrawlInv, Ordered
      <4>4. QED
        BY <1>5, <4>1, <4>2, <4>3
    <3>2. CASE current \notin Entry
      BY <1>4, <3>2 DEF CrawlInv, Ordered
    <3>3. QED
      BY <3>1, <3>2
  <2>3. \A i, j \in DOMAIN queue' : i <= j => queue'[i].depth <= queue'[j].depth
    BY <1>4, <2>1 DEF CrawlInv, Ordered
  <2>4. \A i \in DOMAIN queue' : queue'[i].depth \in e.depth..(e.depth + 1)
    BY <1>4, <1>5, <2>2
  <2>5. QED
    BY <1>1, <1>4, <2>3, <2>4 DEF Ordered
<1>9. shown[e.url] = {} /\ \A i \in DOMAIN results : results[i].url # e.url
  BY <1>5 DEF CrawlInv, Reported
<1>10. InHand'
  BY <1>1, <1>3, <1>5, <1>9 DEF InHand
<1>11. Reported'
  <2>1. ASSUME NEW i \in DOMAIN results
        PROVE  results[i].depth <= e.depth
    <3>1. current \in Entry /\ results[i].depth <= current.depth
      BY DEF CrawlInv, Reported
    <3>2. current.depth <= e.depth /\ current.depth \in Nat
      BY <1>4, <1>5, <3>1 DEF CrawlInv, Ordered, Entry
    <3>3. QED
      BY <1>5, <3>1, <3>2
  <2>2. QED
    BY <1>1, <1>4, <2>1 DEF CrawlInv, Reported
<1>12. PagesOnce' /\ WithinLimits' /\ Finished'
  BY <1>1, <1>3 DEF CrawlInv, PagesOnce, WithinLimits, Finished, Ended
<1>13. Distances'
  <2>1. \A u \in visited' : u \in Within[DepthLimit]
    <3>1. Within[e.depth] \subseteq Within[DepthLimit]
      BY <1>3, <1>5, WithinGrows
    <3>2. QED
      BY <1>1, <1>6, <3>1 DEF AtDistance, CrawlInv, Distances
  <2>2. \A i \in DOMAIN queue' : queue'[i].url \in Within[queue'[i].depth]
    BY <1>4 DEF CrawlInv, Distances
  <2>3. \A i \in DOMAIN results : AtDistance(results[i])
    BY DEF CrawlInv, Distances
  <2>4. QED
    BY <1>1, <1>2, <1>3, <1>6, <2>1, <2>2, <2>3 DEF Distances, AtDistance
<1>14. Sites'
  BY <1>1, <1>4 DEF CrawlInv, Sites, AskedOnSite, OnSite, SameDomain
<1> DEFINE ReachedNext(v, d) ==
             v \in visited' \/ \E j \in DOMAIN queue' : queue'[j].url = v /\ queue'[j].depth <= d
<1>15. \A v, d : Reached(v, d) => ReachedNext(v, d)
  <2>1. \A j \in DOMAIN queue :
          queue[j] = e \/ \E i \in DOMAIN queue' : queue'[i] = queue[j]
    BY <1>4
  <2>2. QED
    BY <1>1, <2>1 DEF Reached
<1>16. Covered'
  <2>1. Begun' <=> Begun
    BY <1>1 DEF Begun
  <2>2. \A i \in DOMAIN results, v \in Urls :
          Follows(results[i].url, v) /\ results[i].depth < DepthLimit =>
            ReachedNext(v, results[i].depth + 1)
    <3> HIDE DEF ReachedNext
    <3>1. QED
      BY <1>1, <1>15 DEF CrawlInv, Covered
  <2>3. Begun => ReachedNext(input.startUrl, 0)
    <3> HIDE DEF ReachedNext
    <3>1. QED
      BY <1>15 DEF CrawlInv, Covered
  <2>4. QED
    BY <1>1, <1>3, <2>1, <2>2, <2>3 DEF Covered, Follows, SameDomain, Reached
<1>17. ReachedByAsking'
  BY <1>1, NoContact DEF CrawlInv
<1>18. QED
  BY <1>7, <1>8, <1>10, <1>11, <1>12, <1>13, <1>14, <1>16, <1>17 DEF CrawlInv

LEMMA ScrapeStep ==
  ASSUME CrawlInv, Scrape
  PROVE  CrawlInv'
<1>1. /\ UNCHANGED <<input, queue, visited, current, links, shown>> /\ pc = "scrape"
      /\ \/ results' = Append(results, current) /\ pc' = "extract"
         \/ results' = results /\ pc' = "loop"
  BY DEF Scrape
<1>2. Within' = Within
  BY <1>1, SameLevels
<1>3. PageLimit' = PageLimit /\ DepthLimit' = DepthLimit /\ PageLimit \in Nat \ {0}
      /\ DepthLimit \in Nat
  BY <1>1, Limits DEF PageLimit, DepthLimit, CrawlInv, Shape, TypeOK
<1>4. /\ results \in Seq(Entry) /\ current \in Entry /\ Len(results) < PageLimit
      /\ \A i \in DOMAIN results : results[i].url # current.url
      /\ shown[current.url] = {} /\ current.url \in visited /\ current.depth \in Nat
      /\ current.depth <= DepthLimit /\ AtDistance(current)
  BY <1>1 DEF CrawlInv, Shape, TypeOK, InHand, Distances, Entry
<1>5. Begun' <=> Begun
  BY <1>1 DEF Begun
<1>a. ReachedByAsking' /\ contacted' \subseteq {HostOf[u] : u \in Urls}
  <2>1. PICK by \in Urls : Request(current.url, by)
    BY DEF Scrape
  <2>2. QED
    BY <1>1, <1>4, <2>1, ContactStep DEF CrawlInv, Shape
<1>6. CASE results' = results /\ pc' = "loop"
  <2>1. Shape' /\ Ordered'
    BY <1>1, <1>6, <1>a DEF CrawlInv, Shape, TypeOK, Ordered, Places
  <2>2. InHand' /\ Reported' /\ PagesOnce' /\ WithinLimits' /\ Finished'
    BY <1>1, <1>3, <1>6 DEF CrawlInv, InHand, Reported, PagesOnce, WithinLimits, Finished, Ended
  <2>3. Distances' /\ Sites'
    BY <1>1, <1>2, <1>3, <1>6 DEF CrawlInv, Distances, AtDistance, Sites, AskedOnSite, OnSite, SameDomain
  <2>4. Covered'
    BY <1>1, <1>3, <1>5, <1>6 DEF CrawlInv, Covered, Follows, SameDomain, Reached
  <2>5. QED
    BY <1>a, <2>1, <2>2, <2>3, <2>4 DEF CrawlInv
<1>7. CASE results' = Append(results, current) /\ pc' = "extract"
  <2>1. /\ results' \in Seq(Entry) /\ Len(results') = Len(results) + 1 /\ Len(results) \in Nat
        /\ DOMAIN results' = DOMAIN results \cup {Len(results')}
        /\ \A i \in DOMAIN results : results'[i] = results[i]
        /\ results'[Len(results')] = current
        /\ results' # <<>> /\ DOMAIN results = 1..Len(results)
    BY <1>4, <1>7, AppendIndices, AppendProperties
  <2>2. \A i \in DOMAIN results' : i \in DOMAIN results \/ results'[i] = current
    BY <2>1
  <2>3. Shape' /\ Ordered'
    BY <1>1, <1>7, <1>a, <2>1 DEF CrawlInv, Shape, TypeOK, Ordered, Places
  <2>4. InHand'
    BY <1>1, <1>3, <1>7, <2>1 DEF CrawlInv, InHand
  <2>5. Reported'
    <3>1. \A i \in DOMAIN results' : results'[i].url \in visited /\ results'[i].depth <= current.depth
      BY <1>4, <2>1 DEF CrawlInv, Reported
    <3>2. QED
      BY <1>1, <1>4, <2>1, <3>1 DEF CrawlInv, Reported
  <2>6. PagesOnce'
    BY <1>4, <2>1 DEF CrawlInv, PagesOnce
  <2>7. WithinLimits'
    BY <1>3, <1>4, <2>1 DEF CrawlInv, WithinLimits
  <2>8. Distances'
    <3>1. \A i \in DOMAIN results' : AtDistance(results'[i])
      BY <1>4, <2>1, <2>2 DEF CrawlInv, Distances
    <3>2. QED
      BY <1>1, <1>2, <1>3, <1>4, <3>1 DEF CrawlInv, Distances, AtDistance
  <2>9. Sites' /\ Finished'
    BY <1>1, <1>7 DEF CrawlInv, Sites, AskedOnSite, OnSite, SameDomain, Finished, Ended
  <2>10. Covered'
    <3>1. \A i \in DOMAIN results', v \in Urls :
            Follows(results'[i].url, v) => i \in DOMAIN results
      BY <1>4, <2>1, <2>2 DEF Follows, SameDomain
    <3>2. QED
      BY <1>1, <1>3, <1>5, <1>7, <2>1, <3>1 DEF CrawlInv, Covered, Follows, SameDomain, Reached
  <2>11. QED
    BY <1>a, <2>3, <2>4, <2>5, <2>6, <2>7, <2>8, <2>9, <2>10 DEF CrawlInv
<1>8. QED
  BY <1>1, <1>6, <1>7

LEMMA ExtractStep ==
  ASSUME CrawlInv, ExtractLinks
  PROVE  CrawlInv'
<1>1. UNCHANGED <<input, queue, visited, results, current>> /\ pc = "extract"
  BY DEF ExtractLinks
<1>2. PageLimit' = PageLimit /\ DepthLimit' = DepthLimit /\ PageLimit \in Nat \ {0}
      /\ DepthLimit \in Nat
  BY <1>1, Limits DEF PageLimit, DepthLimit, CrawlInv, Shape, TypeOK
<1>3. Begun' <=> Begun
  BY <1>1 DEF ExtractLinks, Begun
<1>a. ReachedByAsking' /\ contacted' \subseteq {HostOf[u] : u \in Urls}
  <2>1. PICK by \in Urls : Request(current.url, by)
    BY DEF ExtractLinks
  <2>2. current \in Entry /\ current.url \in visited
    BY <1>1 DEF CrawlInv, Shape, TypeOK, InHand
  <2>3. QED
    BY <1>1, <2>1, <2>2, ContactStep DEF CrawlInv, Shape
<1>4. CASE pc' = "loop" /\ UNCHANGED <<links, shown>>
  <2>1. Within' = Within
    BY <1>1, <1>4, SameLevels
  <2>2. Shape' /\ Ordered'
    BY <1>1, <1>4, <1>a DEF CrawlInv, Shape, TypeOK, Ordered, Places
  <2>3. InHand' /\ Reported' /\ PagesOnce' /\ WithinLimits' /\ Finished'
    BY <1>1, <1>2, <1>4 DEF CrawlInv, InHand, Reported, PagesOnce, WithinLimits, Finished, Ended
  <2>4. Distances' /\ Sites'
    BY <1>1, <1>2, <1>4, <2>1 DEF CrawlInv, Distances, AtDistance, Sites, AskedOnSite, OnSite, SameDomain
  <2>5. Covered'
    BY <1>1, <1>2, <1>3, <1>4 DEF CrawlInv, Covered, Follows, SameDomain, Reached
  <2>6. QED
    BY <1>a, <2>2, <2>3, <2>4, <2>5 DEF CrawlInv
<1>5. ASSUME NEW found \in LinkLists, pc' = "follow",
             links' = IF SameDomain THEN LinksTo(found, HostOf[current.url]) ELSE found,
             shown' = [shown EXCEPT ![current.url] =
                        {found[i] : i \in DOMAIN found} \ {Invalid}]
      PROVE  CrawlInv'
  <2>1. /\ current \in Entry /\ current.url \in Urls /\ current.depth \in Nat
        /\ current.url \in visited /\ current.depth <= DepthLimit
        /\ results[Len(results)] = current /\ AtDistance(current)
        /\ shown \in [Urls -> SUBSET Urls] /\ shown[current.url] = {}
        /\ input.startUrl \in Urls
    BY <1>1 DEF CrawlInv, Shape, TypeOK, InHand, Distances, Entry
  <2>2. Len(results) \in DOMAIN results /\ results \in Seq(Entry)
    BY <1>1 DEF CrawlInv, Shape, TypeOK, InHand
  <2>3. found \in Seq(Hrefs) /\ \A v : Has(found, v) => v \in Urls \cup {Invalid}
    BY LinksAssumption DEF Has, Hrefs
  <2>4. /\ shown' \in [Urls -> SUBSET Urls]
        /\ \A u \in Urls \ {current.url} : shown'[u] = shown[u]
        /\ \A v \in Urls : v \in shown'[current.url] <=> Has(found, v)
    BY <1>5, <2>1, <2>3, UrlsAssumption DEF Has
  <2>5. links' \in Seq(Hrefs) /\ \A v : Has(links', v) =>
          Has(found, v) /\ (SameDomain => HostIs(v, HostOf[current.url]))
    BY <1>5, <2>3, LinksToHost
  <2>6. \A v \in Urls : Has(found, v) /\ OnSite(v) => Has(links', v)
    <3>1. SameDomain => HostOf[current.url] = HostOf[input.startUrl]
      BY <2>1 DEF CrawlInv, Sites, AskedOnSite
    <3>2. \A v \in Urls : OnSite(v) /\ SameDomain => HostIs(v, HostOf[current.url])
      BY <3>1 DEF OnSite, HostIs
    <3>3. QED
      BY <1>5, <2>3, <3>2, LinksToHost
  <2>7. \A u \in Urls : shown[u] \subseteq shown'[u]
    BY <2>1, <2>4
  <2>8. \A k \in Nat : k <= current.depth => Within'[k] = Within[k]
    <3>1. ASSUME NEW k \in Nat, k < current.depth, NEW u \in Within[k], NEW v \in Urls
          PROVE  Follows(u, v)' <=> Follows(u, v)
      <4>1. current.depth - 1 \in Nat /\ k <= current.depth - 1 /\ current.depth > 0
        BY <2>1, <3>1
      <4>2. u # current.url
        BY <2>1, <4>1, WithinGrows DEF AtDistance
      <4>3. shown'[u] = shown[u]
        BY <1>5, <2>1, <4>2
      <4>4. QED
        BY <1>1, <4>3 DEF Follows, SameDomain
    <3>2. QED
      BY <1>1, <2>1, <3>1, LevelsKept
  <2>9. \A n \in Nat : Within[n] \subseteq Within'[n]
    <3>1. ASSUME NEW u, NEW v, Follows(u, v)
          PROVE  Follows(u, v)'
      <4>1. shown'[u] = shown[u] \/ u = current.url
        BY <1>5, <2>1
      <4>2. QED
        BY <1>1, <2>1, <3>1, <4>1 DEF Follows, SameDomain
    <3>2. QED
      BY <1>1, <3>1, LevelsGrow
  <2>10. Shape' /\ Ordered'
    BY <1>1, <1>5, <1>a, <2>1, <2>4, <2>5 DEF CrawlInv, Shape, TypeOK, Ordered, Places
  <2>11. InHand'
    BY <1>1, <1>2, <1>5 DEF CrawlInv, InHand
  <2>12. Reported'
    BY <1>1, <2>1, <2>2, <2>4 DEF CrawlInv, Reported
  <2>13. PagesOnce' /\ WithinLimits' /\ Finished'
    BY <1>1, <1>2, <1>5 DEF CrawlInv, PagesOnce, WithinLimits, Finished, Ended
  <2>14. Distances'
    <3>1. \A e \in Entry : e.depth <= current.depth /\ AtDistance(e) =>
            e.url \in Within'[e.depth] /\ (e.depth > 0 => e.url \notin Within'[e.depth - 1])
      <4>1. SUFFICES ASSUME NEW e \in Entry, e.depth <= current.depth, AtDistance(e)
                     PROVE  e.url \in Within'[e.depth]
                              /\ (e.depth > 0 => e.url \notin Within'[e.depth - 1])
        OBVIOUS
      <4>2. e.depth \in Nat /\ (e.depth > 0 => e.depth - 1 \in Nat /\ e.depth - 1 <= current.depth)
        BY <2>1, <4>1 DEF Entry
      <4>3. QED
        BY <2>8, <4>1, <4>2 DEF AtDistance
    <3>2. \A i \in DOMAIN results : results[i] \in Entry /\ results[i].depth <= current.depth
                                    /\ AtDistance(results[i])
      BY <2>2 DEF CrawlInv, Reported, Distances
    <3>3. \A i \in DOMAIN queue : queue[i].depth \in Nat /\ queue[i].url \in Within[queue[i].depth]
      BY EntryTypes DEF CrawlInv, Shape, Distances
    <3>4. \A u \in visited : u \in Within'[DepthLimit]
      BY <1>2, <2>9 DEF CrawlInv, Distances
    <3>5. current.depth <= current.depth
      BY <2>1
    <3>6. QED
      BY <1>1, <1>2, <2>1, <2>9, <3>1, <3>2, <3>3, <3>4, <3>5 DEF Distances, AtDistance
  <2>15. Sites'
    BY <1>1, <2>4, <2>5 DEF CrawlInv, Sites, AskedOnSite, OnSite, SameDomain
  <2>16. Covered'
    <3>1. ASSUME NEW i \in DOMAIN results, NEW v \in Urls, Follows(results[i].url, v)'
          PROVE  Follows(results[i].url, v) \/ (i = Len(results) /\ Has(links', v))
      <4>1. CASE results[i].url = current.url
        <5>1. i = Len(results)
          BY <2>1, <2>2, <4>1 DEF CrawlInv, PagesOnce
        <5>2. v \in shown'[current.url] /\ OnSite(v)
          BY <1>1, <3>1, <4>1 DEF Follows, SameDomain, OnSite
        <5>3. QED
          BY <2>4, <2>6, <5>1, <5>2
      <4>2. CASE results[i].url # current.url
        <5>1. shown'[results[i].url] = shown[results[i].url]
          BY <1>5, <2>1, <4>2
        <5>2. QED
          BY <1>1, <3>1, <5>1 DEF Follows, SameDomain
      <4>3. QED
        BY <4>1, <4>2
    <3>2. QED
      BY <1>1, <1>2, <1>3, <1>5, <3>1 DEF CrawlInv, Covered, Reached
  <2>17. QED
    BY <1>a, <2>10, <2>11, <2>12, <2>13, <2>14, <2>15, <2>16 DEF CrawlInv
<1>6. QED
  BY <1>4, <1>5 DEF ExtractLinks, history

LEMMA FollowStep ==
  ASSUME CrawlInv, FollowLink
  PROVE  CrawlInv'
<1> DEFINE href == Head(links)
           e == [url |-> href, depth |-> NextDepth]
<1>1. /\ UNCHANGED <<pc, input, visited, results, current, shown, contacted>>
      /\ pc = "follow" /\ links # <<>> /\ links' = Tail(links)
      /\ queue' = IF Wanted(href) THEN Append(queue, e) ELSE queue
  BY DEF FollowLink, history
<1>2. Within' = Within
  BY <1>1, SameLevels
<1>3. PageLimit' = PageLimit /\ DepthLimit' = DepthLimit /\ PageLimit \in Nat \ {0}
      /\ DepthLimit \in Nat
  BY <1>1, Limits DEF PageLimit, DepthLimit, CrawlInv, Shape, TypeOK
<1>4. /\ current \in Entry /\ current.url \in Urls /\ current.depth \in Nat
      /\ queue \in Seq(Entry) /\ links \in Seq(Hrefs) /\ results # <<>>
      /\ results[Len(results)] = current /\ AtDistance(current)
      /\ input.startUrl \in Urls
  BY <1>1 DEF CrawlInv, Shape, TypeOK, InHand, Distances, Entry
<1>5. /\ links' \in Seq(Hrefs) /\ Has(links, href)
      /\ \A v : Has(links, v) => v = href \/ Has(links', v)
      /\ \A v : Has(links', v) => Has(links, v)
  BY <1>1, <1>4, TailHas
<1>6. Wanted(href) => /\ e \in Entry /\ e.url = href /\ e.depth = current.depth + 1
                      /\ href \in Urls /\ OnSite(href) /\ Follows(current.url, href)
  <2>1. SUFFICES ASSUME Wanted(href)
                 PROVE  /\ e \in Entry /\ e.url = href /\ e.depth = current.depth + 1
                        /\ href \in Urls /\ OnSite(href) /\ Follows(current.url, href)
    OBVIOUS
  <2>2. href \in Urls /\ OnSite(href)
    BY <2>1 DEF Wanted, HostIs, OnSite
  <2>3. href \in shown[current.url]
    BY <1>1, <1>5, <2>2 DEF CrawlInv, Sites
  <2>4. e \in Entry /\ e.url = href /\ e.depth = current.depth + 1
    BY <1>4, <2>2 DEF Entry, NextDepth
  <2>5. QED
    BY <2>2, <2>3, <2>4 DEF Follows, SameDomain, OnSite
<1>7. \A v \in Urls : v = href /\ OnSite(v) => v \in visited \/ Wanted(href)
  BY DEF Wanted, HostIs, OnSite
<1> HIDE DEF e, href
<1>8. /\ queue' \in Seq(Entry)
      /\ DOMAIN queue \subseteq DOMAIN queue' /\ \A i \in DOMAIN queue : queue'[i] = queue[i]
      /\ \A i \in DOMAIN queue' \ DOMAIN queue :
           Wanted(href) /\ queue'[i] = e /\ \A j \in DOMAIN queue' : j <= i
      /\ Wanted(href) => \E i \in DOMAIN queue' : queue'[i] = e
      /\ DOMAIN queue' \subseteq Nat
  <2>1. CASE Wanted(href)
    <3>1. /\ queue' \in Seq(Entry) /\ Len(queue) \in Nat
          /\ DOMAIN queue' = DOMAIN queue \cup {Len(queue) + 1} /\ DOMAIN queue = 1..Len(queue)
          /\ \A i \in DOMAIN queue : queue'[i] = queue[i]
          /\ queue'[Len(queue) + 1] = e
      BY <1>1, <1>4, <1>6, <2>1, AppendIndices
    <3>2. QED
      BY <2>1, <3>1
  <2>2. CASE ~Wanted(href)
    BY <1>1, <1>4, <2>2
  <2>3. QED
    BY <2>1, <2>2
<1>9. Shape'
  BY <1>1, <1>4, <1>5, <1>8 DEF CrawlInv, Shape, TypeOK
<1>10. Ordered'
  <2>1. \A i \in DOMAIN queue :
          /\ queue[i].depth \in Nat /\ current.depth <= queue[i].depth
          /\ queue[i].depth <= current.depth + 1
    BY <1>4 DEF CrawlInv, Ordered
  <2>2. \A i \in DOMAIN queue' :
          /\ queue'[i].depth \in current.depth..(current.depth + 1)
          /\ i \notin DOMAIN queue => queue'[i].depth = current.depth + 1
    BY <1>4, <1>6, <1>8, <2>1
  <2>3. ASSUME NEW i \in DOMAIN queue', NEW j \in DOMAIN queue', i <= j
        PROVE  queue'[i].depth <= queue'[j].depth
    <3>1. CASE i \in DOMAIN queue /\ j \in DOMAIN queue
      BY <1>8, <2>3, <3>1 DEF CrawlInv, Ordered
    <3>2. CASE j \notin DOMAIN queue
      <4>1. queue'[j].depth = current.depth + 1
        BY <2>2, <3>2
      <4>2. queue'[i].depth \in current.depth..(current.depth + 1)
        BY <2>2
      <4>3. QED
        BY <1>4, <4>1, <4>2
    <3>3. CASE i \notin DOMAIN queue
      <4>1. j <= i
        BY <1>8, <3>3
      <4>2. i = j
        BY <1>8, <2>3, <4>1
      <4>3. queue'[i].depth = current.depth + 1
        BY <2>2, <3>3
      <4>4. QED
        BY <1>4, <4>2, <4>3
    <3>4. QED
      BY <3>1, <3>2, <3>3
  <2>4. \A i \in DOMAIN queue' : queue'[i].depth \in current.depth..(current.depth + 1)
    BY <2>2
  <2>5. QED
    BY <1>1, <1>4, <2>3, <2>4 DEF Ordered
<1>11. InHand' /\ Reported' /\ PagesOnce' /\ WithinLimits' /\ Finished'
  BY <1>1, <1>3 DEF CrawlInv, InHand, Reported, PagesOnce, WithinLimits, Finished, Ended
<1>12. Distances'
  <2>1. Wanted(href) => e.url \in Within[e.depth]
    <3>1. Within[current.depth + 1] = Further(Within[current.depth])
      BY <1>4, WithinLevels DEF Levels
    <3>2. QED
      BY <1>4, <1>6, <3>1 DEF Further, AtDistance
  <2>2. \A i \in DOMAIN queue' : queue'[i].url \in Within[queue'[i].depth]
    BY <1>8, <2>1 DEF CrawlInv, Distances
  <2>3. QED
    BY <1>1, <1>2, <1>3, <2>2 DEF CrawlInv, Distances, AtDistance
<1>13. Sites'
  <2>1. \A i \in DOMAIN queue' : OnSite(queue'[i].url)
    BY <1>6, <1>8 DEF CrawlInv, Sites
  <2>2. QED
    BY <1>1, <1>5, <2>1 DEF CrawlInv, Sites, AskedOnSite, OnSite, SameDomain
<1> DEFINE ReachedNext(v, d) ==
             v \in visited' \/ \E j \in DOMAIN queue' : queue'[j].url = v /\ queue'[j].depth <= d
<1>14. \A v, d : Reached(v, d) => ReachedNext(v, d)
  BY <1>1, <1>8 DEF Reached
<1>15. Covered'
  <2>1. Begun' <=> Begun
    BY <1>1 DEF Begun
  <2>2. Begun => ReachedNext(input.startUrl, 0)
    BY <1>14 DEF CrawlInv, Covered
  <2>3. ASSUME NEW i \in DOMAIN results, NEW v \in Urls, NEW d \in Nat,
               d = results[i].depth + 1,
               Follows(results[i].url, v), results[i].depth < DepthLimit
        PROVE  ReachedNext(v, d) \/ (i = Len(results) /\ Has(links', v))
    <3>1. Reached(v, d) \/ (i = Len(results) /\ Has(links, v))
      BY <2>3 DEF CrawlInv, Covered
    <3>2. CASE Reached(v, d)
      <4>1. ReachedNext(v, d)
        BY <1>14, <3>2
      <4>2. QED
        BY <4>1
    <3>3. CASE i = Len(results) /\ v = href
      <4>1. OnSite(v)
        BY <2>3 DEF Follows, SameDomain, OnSite
      <4>2. d = current.depth + 1
        BY <1>4, <2>3, <3>3
      <4>3. CASE v \in visited
        BY <1>1, <4>3
      <4>4. CASE Wanted(href)
        <5>1. PICK j \in DOMAIN queue' : queue'[j] = e
          BY <1>8, <4>4
        <5>2. queue'[j].url = v /\ queue'[j].depth = d
          BY <1>6, <3>3, <4>2, <4>4, <5>1
        <5>3. queue'[j].depth <= d
          BY <5>2
        <5>4. QED
          BY <5>2, <5>3
      <4>5. QED
        BY <1>7, <3>3, <4>1, <4>3, <4>4
    <3>4. CASE i = Len(results) /\ Has(links, v) /\ v # href
      BY <1>5, <3>4
    <3> HIDE DEF ReachedNext
    <3>5. QED
      BY <3>1, <3>2, <3>3, <3>4
  <2>4. \A i \in DOMAIN results : results[i].depth + 1 \in Nat
    BY EntryTypes DEF CrawlInv, Shape
  <2>5. \A i \in DOMAIN results, v \in Urls :
          Follows(results[i].url, v) /\ results[i].depth < DepthLimit =>
            ReachedNext(v, results[i].depth + 1) \/ (i = Len(results) /\ Has(links', v))
    <3> HIDE DEF ReachedNext
    <3>1. QED
      BY <2>3, <2>4
  <2>6. QED
    BY <1>1, <1>3, <2>1, <2>2, <2>5 DEF Covered, Follows, SameDomain, Reached
<1>16. ReachedByAsking'
  BY <1>1, NoContact DEF CrawlInv
<1>17. QED
  BY <1>9, <1>10, <1>11, <1>12, <1>13, <1>15, <1>16 DEF CrawlInv

-----------------------------------------------------------------------------
(* The theorems.                                                           *)

LEMMA CrawlStep == CrawlInv /\ [Next]_vars => CrawlInv'
BY StartStep, SkipStep, VisitStep, QuietStep, ScrapeStep, ExtractStep, FollowStep
   DEF Next, Quiescent

LEMMA Invariance == Spec => []CrawlInv
BY InitInv, CrawlStep, PTL DEF Spec

\* For every web, whatever its pages show and whichever requests fail: at every
\* moment each page is reported once, at its least number of links from the
\* start, within the limits and on the site (index.ts scrapeSite).
THEOREM CrawlIsSound == Spec => []CrawlSound
<1>1. CrawlInv => CrawlSound
  BY DEF CrawlInv, Shape, CrawlSound, Distances, AtDistance, DepthIsDistance, Sites,
         StaysOnSite
<1>2. QED
  BY <1>1, Invariance, PTL

\* A crawl that the page limit did not cut off has visited every page within the
\* depth limit and no other, failing pages and repeated links notwithstanding
\* (index.ts scrapeSite).
THEOREM CrawlReachesAll == Spec => []CrawlIsComplete
<1>1. CrawlInv => CrawlIsComplete
  <2>1. SUFFICES ASSUME CrawlInv, pc \in {"save"} \cup Ended, input.startUrl \in Urls,
                        Len(results) < PageLimit
                 PROVE  visited = Within[DepthLimit]
    BY DEF CrawlIsComplete
  <2>2. DepthLimit \in Nat /\ Begun /\ pc # "follow" /\ queue = <<>>
    <3>1. DepthLimit \in Nat /\ PageLimit \in Nat /\ Len(results) \in Nat
      BY <2>1, Limits DEF CrawlInv, Shape, TypeOK
    <3>2. QED
      BY <2>1, <3>1 DEF CrawlInv, Finished, Ended, Begun
  <2>3. visited \subseteq Within[DepthLimit]
    BY <2>1 DEF CrawlInv, Distances
  <2>4. Within[DepthLimit] \subseteq visited
    BY <2>1, <2>2, Coverage DEF Reached
  <2>5. QED
    BY <2>3, <2>4
<1>2. QED
  BY <1>1, Invariance, PTL
=============================================================================
