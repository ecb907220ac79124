--------------------------- MODULE SourceIngestion ---------------------------
(***************************************************************************)
(* How the data library loads a source into a staging table                *)
(* (data_manipulation/ingestion.py): what an archive may hold, in which      *)
(* encoding a shapefile is read, and what GDAL answers.  A source is what a *)
(* user gives, a file is a member of an archive.                            *)
(***************************************************************************)
EXTENDS Naturals, FiniteSets

\* Files that accompany a .shp and name no dataset of their own.
ShapefileSidecars == {"shx", "dbf", "prj", "cpg"}

\* What chardet cannot tell from CP1252 on a short sample.
WesternLatin == {"cp1250", "iso88591", "latin1"}

\* What codecs.lookup knows, and GDAL reads without being told.
KnownEncodings == WesternLatin \cup {"utf8", "cp1252", "cp1251"}
ReadAsUtf8 == {"utf8", "ascii"}

Suffixes == ShapefileSidecars \cup {"shp", "cst", "csv"}
Encodings == KnownEncodings \cup {"ascii"}

(* A file: its folder and name without suffix (stem), its suffix, whether it is *)
(* packaging metadata (__MACOSX), and what it says of the encoding: what a .cpg  *)
(* or a .cst declares, what chardet makes of a .dbf.                             *)
File == [stem: STRING, suffix: Suffixes, metadata: BOOLEAN,
         says: Encodings \cup {"unknown", "none"}]

\* written: the encoding of the text; columns: of the dataset GDAL opens.
IsSource(s) ==
    /\ s.zipped \in BOOLEAN /\ s.written \in Encodings
    /\ s.files \subseteq File /\ s.columns \subseteq STRING

-----------------------------------------------------------------------------
(* Archives *)

is_archive_metadata(f) == f.metadata

\* One dataset per folder and stem, sidecar files left out.
datasets(s) ==
    {f.stem : f \in {g \in s.files : ~is_archive_metadata(g)
                                     /\ g.suffix \notin ShapefileSidecars}}

\* A bug to compare with: whatever the archive holds is given to GDAL.
any_archive(s) == TRUE

\* The archive names one dataset, or is refused; anything else is given as it is.
resolve_zip_source(s) == s.zipped => Cardinality(datasets(s)) = 1

-----------------------------------------------------------------------------
(* The encoding of a shapefile *)

\* The files of a suffix, the packaging metadata included, of which the first is read:
\* it may be any of them.
members(s, suffix) == {f \in s.files : f.suffix = suffix}

\* Sidecars are found in an archive only: a download is a single file.
is_shapefile(s) == s.zipped /\ members(s, "shp") # {}

guess(detected) ==
    IF detected \in ReadAsUtf8 \cup {"none"} THEN "default"
    ELSE IF detected \in WesternLatin THEN "cp1252" ELSE detected

\* A bug to compare with: the content is asked before the .cpg.
sampled_first(s) ==
    IF is_shapefile(s) THEN {guess(f.says) : f \in members(s, "dbf")} ELSE {"default"}

\* SHAPE_ENCODING, or "default" to leave GDAL alone: a .cpg is authoritative, then a
\* .cst if it names a known encoding, then what chardet makes of the .dbf.
detect_shapefile_encoding(s) ==
    IF ~is_shapefile(s) \/ members(s, "cpg") # {} \/ members(s, "dbf") = {}
    THEN {"default"}
    ELSE LET known == {f \in members(s, "cst") : f.says \in KnownEncodings}
             sampled == {guess(f.says) : f \in members(s, "dbf")}
         IN  {f.says : f \in known}
                 \cup (IF known # {} /\ known = members(s, "cst") THEN {} ELSE sampled)

-----------------------------------------------------------------------------
(* GDAL, as ogr2ogr is called *)

\* The encoding GDAL reads with: as told, else the .cpg beside the .shp, else UTF-8.
read_with(s, shape_encoding) ==
    LET cpg == {f \in members(s, "cpg") : ~is_archive_metadata(f)} IN
    IF shape_encoding # "default" THEN shape_encoding
    ELSE IF is_shapefile(s) /\ cpg # {} THEN (CHOOSE f \in cpg : TRUE).says ELSE "utf8"

\* Content that is not UTF-8 aborts the layer, although ogr2ogr exits with 0.
reports_error(s, shape_encoding) ==
    read_with(s, shape_encoding) = "utf8" /\ s.written \notin ReadAsUtf8

same_letters(s, encoding) ==
    \/ s.written = encoding
    \/ s.written = "ascii"
    \/ {s.written, encoding} \subseteq {"iso88591", "latin1", "cp1252"}

\* What a staging table holds when ogr2ogr ends.
Loaded(s, shape_encoding) == [source |-> s, encoding |-> read_with(s, shape_encoding)]

legible(t) == same_letters(t.source, t.encoding)

\* A bug to compare with: the exit code alone is believed.
exit_code_only(s, shape_encoding) == TRUE

\* ogr2ogr succeeded: it exited with 0 and reported no error.
run_ogr2ogr(s, shape_encoding) == ~reports_error(s, shape_encoding)

\* The staging tables an ingestion of the source may end with: none if it fails.
ingest_into_postgis(s) ==
    IF ~resolve_zip_source(s) THEN {}
    ELSE {Loaded(s, e) :
              e \in {x \in detect_shapefile_encoding(s) : run_ogr2ogr(s, x)}}
=============================================================================
