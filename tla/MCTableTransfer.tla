--------------------------- MODULE MCTableTransfer ---------------------------
(***************************************************************************)
(* A dataset that joins another: the sources they may have, and what their *)
(* users may choose.                                                       *)
(***************************************************************************)
EXTENDS TableTransfer, TLC

CONSTANTS d1, d2, u1, u2

Owner == (d1 :> u1) @@ (d2 :> u2)

Named(stem, suffix, says) == [stem |-> stem, suffix |-> suffix, metadata |-> FALSE, says |-> says]

Zip(files, written, columns) ==
    [zipped |-> TRUE, files |-> files, written |-> written, columns |-> columns]

Roads == {Named("roads", "shp", "none"), Named("roads", "dbf", "cp1250")}

\* A shapefile without .cpg, taken for a Central European one by chardet.
Undeclared == Zip(Roads, "cp1252", {"insee", "name", "geom"})

\* The same with a wrong sample but a right .cpg, zipped by a Finder.
FromFinder ==
    Zip(Roads \cup {Named("roads", "cpg", "utf8"),
                    [Named("._roads", "shp", "none") EXCEPT !.metadata = TRUE]},
        "utf8", {"insee", "geom", "x", "y"})

\* A source in another encoding, whose text chardet gives up on.
GivenUp == Zip({Named("roads", "shp", "none"), Named("roads", "dbf", "none")},
               "cp1252", {"insee", "geom"})

\* Two datasets in one archive.
Two == Zip(Roads \cup {Named("rivers", "csv", "none")}, "utf8", {"insee", "name"})

\* A source that has lost a column.
NoName == [zipped |-> FALSE, files |-> {}, written |-> "utf8", columns |-> {"insee", "geom"}]

TheSources == (d1 :> {FromFinder, GivenUp, Two}) @@ (d2 :> {Undeclared, NoName})

\* The owner of the second may change the first, whose owner may get to read the second.
TheRules ==
    (d1 :> ((u1 :> {"none"}) @@ (u2 :> {"WRITE"})))
    @@ (d2 :> ((u1 :> {"none", "READ"}) @@ (u2 :> {"none"})))

AddedFrom2(columns) == [dataset |-> d2, columns |-> columns]

\* An excluded column and the geometry, each given the name of the joined column.
TheChoices ==
    (d1 :> {[excluded |-> {"x"}, rename |-> <<"x", "name">>, xy |-> TRUE,
             join |-> AddedFrom2({"name"})],
            [excluded |-> {"geom"}, rename |-> <<"geom", "name">>, xy |-> FALSE,
             join |-> AddedFrom2({"name"})]})
    @@ (d2 :> {})
=============================================================================
