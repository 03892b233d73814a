--------------------------- MODULE MCTaskWorkspace ---------------------------
(* Small instances of TaskWorkspace.  The .gitignore that names p leaves p *)
(* out; p and q hold lines that may look like headers, with and without a  *)
(* line feed at the end of the text.                                       *)
EXTENDS TaskWorkspace

Lf(text) == [text |-> text, end |-> "lf"]
None(text) == [text |-> text, end |-> "none"]
Sep(text) == [text |-> text, end |-> "sep"]

K == Lf(<<"k">>)
L == Lf(<<"l">>)
M == Lf(<<"m">>)
X == Lf(<<"x">>)
Dash == Lf(<<"-- ", "x">>)

MCPaths == {".gitignore", "p", "q"}
MCOrder == <<".gitignore", "p", "q">>
MCAtoms == Marks \cup MCPaths \cup {"k", "l", "m", "x"}
MCInodes == 1 .. 3

MCIgnored(contents, n) == \E i \in DOMAIN contents : Lf(<<n>>) \in Range(contents[i])

\* Two reads for a text of the most lines, so that it may be torn.
MCContents ==
    [n \in MCPaths |->
        CASE n = ".gitignore" -> {<<<<Lf(<<"p">>)>>>>, <<<<Lf(<<".gitignore">>)>>>>, <<<<K>>>>}
          [] n = "p" -> {<<<<X, K>>, <<L, M, None(<<"x">>)>>>>, <<<<Dash, K>>, <<L, M, K>>>>}
          [] n = "q" -> {<<<<Dash>>>>, <<<<None(<<"k">>)>>>>}]

Header(path, old, new) ==
    <<Piece(OldHeader \o old, "lf"), Piece(NewHeader \o new, "lf")>>
Update(path) == Header(path, <<"a/", path>>, <<"b/", path>>)
Create(path) == Header(path, <<"/dev/null">>, <<"b/", path>>)
Discard(path) == Header(path, <<"a/", path>>, <<"/dev/null">>)

At(oldStart, oldCount, newStart, newCount) ==
    <<[text |-> <<"@@">>, end |-> "lf", at |-> <<oldStart, oldCount, newStart, newCount>>]>>

Row(op, l) == <<Piece(<<op>> \o l.text, l.end)>>

MCProposals ==
    {\* both ends of p change
     Update("p") \o At(1, 1, 1, 1) \o Row("-", X) \o Row("+", Dash)
         \o At(5, 1, 5, 2) \o Row("-", X) \o <<Marker>> \o Row("+", K)
         \o Row("+", X) \o <<Marker>>,
     \* the second hunk goes back over the first
     Update("p") \o At(1, 2, 1, 2) \o Row("-", X) \o Row("+", K) \o Row(" ", K)
         \o At(2, 1, 3, 1) \o Row(" ", K),
     \* the second hunk miscounts the lines before it
     Update("p") \o At(1, 1, 0, 0) \o Row("-", Dash) \o At(3, 1, 3, 1) \o Row(" ", L),
     \* p goes, q comes
     Discard("p") \o At(1, 5, 0, 0) \o Row("-", Dash) \o Row("-", K) \o Row("-", L)
         \o Row("-", M) \o Row("-", K)
         \o Create("q") \o At(0, 0, 1, 2) \o Row("+", K) \o Row("+", Dash) \o <<Marker>>,
     \* an insertion in front, into whatever q is
     Update("q") \o At(0, 0, 1, 1) \o Row("+", X),
     \* the first file fits, the second may not
     Update("q") \o At(1, 1, 1, 1) \o Row("-", Dash) \o Row("+", X)
         \o Update("p") \o At(2, 1, 1, 0) \o Row("-", K),
     \* both end without a line feed, before and after
     Update("p") \o At(5, 1, 5, 1) \o Row("-", X) \o <<Marker>> \o Row("+", Dash) \o <<Marker>>
         \o Update("q") \o At(1, 1, 1, 1) \o Row("-", K) \o <<Marker>>
         \o Row("+", X) \o <<Marker>>,
     \* a hunk of no lines, and a marker
     Update("p") \o At(0, 0, 0, 0) \o <<Marker>>}

-----------------------------------------------------------------------------
(* A text that ends, without a line feed, in a line that starts with "-- ". *)

MCUnmarked ==
    [n \in MCPaths |->
        CASE n = ".gitignore" -> {<<<<K>>>>}
          [] n = "p" -> {<<<<K>>, <<None(<<"-- ", "x">>)>>>>}
          [] n = "q" -> {<<<<K>>>>}]

MCEdits ==
    {Update("p") \o At(2, 1, 2, 1) \o Row("-", None(<<"-- ", "x">>))
         \o <<Piece(<<>>, "lf"), Marker>> \o Row("+", X)
         \o Update("q") \o At(1, 1, 1, 1) \o Row("-", K) \o Row("+", X)}
=============================================================================
