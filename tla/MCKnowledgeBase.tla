---- MODULE MCKnowledgeBase ----
(* A document and a directory in knowledge-base/, and in that directory a      *)
(* document, a file of another kind and a directory with a document.           *)
EXTENDS KnowledgeBase, TLC

CONSTANTS hours, prices, offer, logo, shop, deals

Parents ==
    (hours :> Base) @@ (shop :> Base) @@ (prices :> shop) @@ (logo :> shop)
        @@ (deals :> shop) @@ (offer :> deals)
====
