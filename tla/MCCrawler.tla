----------------------------- MODULE MCCrawler -----------------------------
(* Two pages and two fetch workers for TLC.                                *)
EXTENDS Crawler, TLC

CONSTANTS a, b, img, w1, w2

MCHost == [p \in Url |-> IF p = b THEN "local" ELSE "public"]

Page(title, base, anchors) == [title |-> title, base |-> base, anchors |-> anchors]
Anchor(href) == [href |-> href, nofollow |-> FALSE]

Plain  == Page(FALSE, "none", <<>>)
Titled == Page(TRUE, a, <<Anchor(b), Anchor("empty"), Anchor(img)>>)

\* a has a title and b has none; or extracting the links of b panics.
MCSites == {a :> Titled @@ b :> Plain @@ img :> Plain,
            a :> Titled @@ b :> Page(FALSE, "empty", <<>>) @@ img :> Plain}

WorkerSymmetry == Permutations({w1, w2})
=============================================================================
