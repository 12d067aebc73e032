-------------------------- MODULE MCCompressionTiers --------------------------
(* Calls and answers for TLC.                                               *)
EXTENDS CompressionTiers

CONSTANTS v, w

MCWord == {v, w}

Text1 == [header |-> 4, body |-> 6000, words |-> <<v, w, v, w>>]
Paste == [kind |-> "paste", text |-> Text1,
          front |-> "none", inline |-> "date", name |-> "none"]

\* Files dated by each place, by two, unreadably, and not at all.
Files ==
  {[Paste EXCEPT !.kind = "file", !.front = f, !.inline = i, !.name = n] :
     f \in {"none", "unreadable"}, i \in Found, n \in {"none", "date"}}
Page  == [Paste EXCEPT !.kind = "notion"]
Short  == [Paste EXCEPT !.text.header = 12, !.text.body = 3]
Blank0 == [Paste EXCEPT !.text = [header |-> 0, body |-> 0, words |-> <<>>],
                        !.front = "date"]

\* Answers: every sequence of up to four words, one too long, one all header.
MCAnswers ==
  {[header |-> 0, body |-> 40, words |-> x] :
     x \in UNION {[1..n -> MCWord] : n \in 1..4}}
  \cup {[header |-> 30, body |-> 7000, words |-> <<v, w, v>>],
        [header |-> 12, body |-> 0, words |-> <<v, w>>]}

\* About as long as the nine lines of formatSessionDigest come to.
MCMetadata == {330}

Call == [risk |-> 0, tier |-> 1, limit |-> 5000, check |-> "unset",
         llm |-> TRUE, notionKey |-> TRUE, sources |-> <<Paste>>]
MCInputs ==
  {[Call EXCEPT !.risk = r, !.tier = t, !.check = c] :
     r \in 0..3, t \in Tiers, c \in {"on", "off", "unset"}}
  \cup {[Call EXCEPT !.limit = l, !.risk = r, !.tier = t] :
          l \in {1, 9, 10, 13, 5001, 10001, 100001}, r \in 0..2, t \in {0, 3}}
  \cup {[Call EXCEPT !.sources = <<f>>, !.tier = 0] : f \in Files}
  \cup {[Call EXCEPT !.llm = FALSE, !.check = "on"],
        [Call EXCEPT !.sources = <<Short>>, !.limit = 1, !.tier = 0],
        [Call EXCEPT !.sources = <<Page, Blank0>>],
        [Call EXCEPT !.sources = <<Page>>, !.risk = 2],
        [Call EXCEPT !.sources = <<Page>>, !.notionKey = FALSE],
        [Call EXCEPT !.sources = <<[Page EXCEPT !.inline = "none"]>>],
        [Call EXCEPT !.sources = <<Paste, Paste>>, !.risk = 1, !.tier = 2]}
=============================================================================
