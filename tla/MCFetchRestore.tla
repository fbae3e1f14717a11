--------------------------- MODULE MCFetchRestore ---------------------------
(* Small instances of FetchRestore for TLC. *)
EXTENDS FetchRestore

Object(stored, plain, layer, packed) ==
    [stored |-> stored, plain |-> plain, enc |-> layer, comp |-> packed]

From(type, select, max, maxPlain, dec) ==
    [type |-> type, uri |-> 2, select |-> select, maxBytes |-> max, maxUncompressed |-> maxPlain,
     decrypt |-> dec]

\* A plain dump, an empty file, an archive, one that expands beyond every
\* limit, and encrypted ones.
SomeObjects == {Object(2, 2, "", FALSE), Object(0, 0, "", FALSE), Object(1, 2, "", TRUE),
                Object(1, 5, "", TRUE), Object(3, 2, "age", TRUE), Object(1, 2, "gpg", FALSE)}

LatestFile == From("file", TRUE, 0, 0, "")
LatestObject == From("s3", TRUE, 1, 0, "")

SomeFroms == {LatestFile, From("file", FALSE, 2, 0, "gpg"), From("file", FALSE, 0, 3, "age"),
              LatestObject, From("s3", TRUE, 0, 2, "gpg")}

SomeFormats ==
    [f \in Froms |-> CASE f = LatestFile -> "plain"
                       [] f.decrypt = "age" -> "archive"
                       [] f = LatestObject -> "basebackup"
                       [] OTHER -> "custom"]

\* One source each for a plain dump and for a physical backup.
OneFile == {LatestFile}
OneBasebackup == {LatestObject}

\* The largest number a spec can hold, to mean "no limit".
LargestLimit == {From("s3", FALSE, 0, IntMax, "")}
=============================================================================
