------------------------- MODULE MCSourceCollection -------------------------
(* A volume with the selected folder "r" and another folder "e".  "own" is   *)
(* an output folder inside the selection, "old" one of an earlier selection; *)
(* "link" is a junction out of the selection.                                *)
EXTENDS WindowsStorageImageSourceCollection

At(folder, name) == [in |-> folder, as |-> name]
MCNameOrder == <<"A", "a", "b", "d", "e", "l", "o", "r">>
MCFolded == [n \in ToSet(MCNameOrder) |-> IF n = "A" THEN "a" ELSE n]

To(id, places) == {[id |-> id, to |-> p] : p \in places}

\* A tree: the junction, to a folder outside, is inside the selection, or
\* outside and yet to come; the moves hand a name from one item to another.
Tree ==
    [target |-> [link |-> "ext"],
     records |-> <<[id |-> "own", path |-> <<"r", "o">>], [id |-> "old", path |-> <<"e", "o">>]>>,
     layouts |-> {[root |-> At("Volume", "r"), ext |-> At("Volume", "e"),
                   sub |-> At("root", "d"), own |-> At("root", "o"), old |-> At("ext", "o"),
                   link |-> l, f |-> At("root", "a"), g |-> At("sub", "b"),
                   h |-> At("root", "b")] : l \in {At("sub", "l"), At("ext", "l")}},
     moves |-> To("sub", {At("ext", "d"), Nowhere})
               \cup To("own", {At("root", "d"), At("sub", "o")})
               \cup To("old", {At("root", "d")})
               \cup To("link", {At("root", "d"), At("root", "o")})
               \cup To("f", {At("root", "d")}) \cup To("g", {At("root", "A")}),
     relocations |-> 2, edits |-> 0, pinned |-> TRUE]

\* One folder, files swapped under the review and the commits, with no help from
\* pinned handles.
Flat ==
    [target |-> [link |-> "ext"], records |-> <<>>,
     layouts |-> {[root |-> At("Volume", "r"), ext |-> At("Volume", "e"), sub |-> Nowhere,
                   own |-> Nowhere, old |-> Nowhere, link |-> Nowhere,
                   f |-> At("root", "a"), g |-> At("root", "b"), h |-> At("ext", "a")]},
     moves |-> To("f", {At("ext", "b"), At("root", "A"), Nowhere})
               \cup To("g", {At("root", "a")}) \cup To("h", {At("root", "a")})
               \cup To("root", {At("ext", "r")}),
     relocations |-> 2, edits |-> 0, pinned |-> FALSE]

\* The same folder where handles pin; files are edited as well.
Held == [Flat EXCEPT !.pinned = TRUE, !.edits = 1]

\* The junction leads back to the selected folder, and nothing is pinned.
Cycle ==
    [target |-> [link |-> "root"], records |-> <<[id |-> "own", path |-> <<"r", "d", "o">>]>>,
     layouts |-> {[root |-> At("Volume", "r"), ext |-> At("Volume", "e"), sub |-> At("root", "d"),
                   own |-> At("sub", "o"), old |-> Nowhere, link |-> At("sub", "l"),
                   f |-> At("root", "a"), g |-> At("sub", "b"), h |-> Nowhere]},
     moves |-> To("sub", {At("ext", "d"), Nowhere})
               \cup To("link", {At("root", "d"), At("root", "l")})
               \cup To("own", {At("root", "d")}) \cup To("f", {At("sub", "a")}),
     relocations |-> 2, edits |-> 0, pinned |-> FALSE]

MCScenarios == [tree |-> Tree, flat |-> Flat, held |-> Held, cycle |-> Cycle]
=============================================================================
