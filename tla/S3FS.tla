-------------------------------- MODULE S3FS --------------------------------
(***************************************************************************)
(* The file system s3fs.FileSystem (vfs/s3fs/s3vfs.go): files and          *)
(* directories over the flat keys of an S3 bucket.  The key of a file is   *)
(* its path; a directory is there if a key begins with its path and "/",   *)
(* like the empty object at just that key which Mkdir puts.                *)
(*                                                                         *)
(* A path is a sequence of names.  Each request to S3 is one step; Session *)
(* makes the calls of FileSystem out of them.                              *)
(***************************************************************************)
EXTENDS Names

CONSTANTS
    Extends,    \* <<n, m>>: the name m is the name n and more, the first
                \* character of which sorts before "/" ("a" and "a.txt")
    Absent      \* no object

VARIABLES
    objects,    \* the object at the key of each path
    markers     \* the paths whose key with "/" has an object

bucket == << objects, markers >>

-----------------------------------------------------------------------------
(* Keys *)

Stored(p) == objects[p] # Absent \/ p \in markers

\* Some key begins with the path p and "/".
KeyUnder(p) == p \in markers \/ \E q \in Paths : Within(p, q) /\ Stored(q)

\* Some key begins with the path p and a character that sorts before "/".
KeyBefore(p) ==
    \E q \in Paths :
        /\ Len(q) >= Len(p) /\ SubSeq(q, 1, Len(p) - 1) = SubSeq(p, 1, Len(p) - 1)
        /\ << p[Len(p)], q[Len(p)] >> \in Extends
        /\ Stored(q)

\* ListObjectsV2 with the path p as prefix, the delimiter "/" and one key at
\* most: the first of the file, of longer names, and of the directory.
ListOne(p) ==
    IF objects[p] # Absent THEN "object"
    ELSE IF KeyBefore(p) THEN "another"
    ELSE IF KeyUnder(p) THEN "prefix"
    ELSE "nothing"

\* What Lstat tells of p, if S3 answers.
Lstat(p) ==
    CASE ListOne(p) = "prefix" -> "dir"
      [] ListOne(p) = "object" -> "file"
      [] OTHER                 -> "none"

-----------------------------------------------------------------------------
(* Requests that change the bucket *)

Upload(p, body) ==
    /\ objects' = [objects EXCEPT ![p] = body]
    /\ UNCHANGED markers

PutMarker(p) ==
    /\ markers' = markers \union {p}
    /\ UNCHANGED objects

\* DeleteObject of the key of p, for directories too; it need not be there.
DeleteObject(p) ==
    /\ objects' = [objects EXCEPT ![p] = Absent]
    /\ UNCHANGED markers
=============================================================================
