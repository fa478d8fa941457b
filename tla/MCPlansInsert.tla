--------------------------- MODULE MCPlansInsert ---------------------------
(***************************************************************************)
(* Small instances of PlansInsert.                                         *)
(***************************************************************************)
EXTENDS PlansInsert, TLC

CONSTANTS issuance, collection, march, april, u1, u2, u3

MCPeriod == {march, april}
MCCategory == {issuance, collection}
MCSeededKeys == {<<march, collection>>}
MCSeededCategories == {collection}

b == <<april, issuance>>
c == <<april, collection>>
d == <<march, collection>>

\* A rejected file; the same two rows in both orders (issuance is unknown
\* until a seeding run brings it); a repeated row.
MCSheets == [u \in Upload |-> {<<>>, <<c, b>>, <<b, c>>, <<c, c>>}]

\* Two uploads that race for a row, insert two in opposite orders, or look for
\* one that is stored from the start.
MCFewSheets == [u \in Upload |-> {<<c>>, <<c, b>>, <<b, c>>, <<d>>}]

\* For the temporal properties: two that can deadlock on their orders, and a
\* third that shares with one of them the gap the other leaves.
MCRivalSheets == (u1 :> {<<c>>, <<d>>}) @@ (u2 :> {<<c, b>>}) @@ (u3 :> {<<b, c>>})

MCSymmetry == Permutations(Upload)
=============================================================================
