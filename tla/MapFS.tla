------------------------------- MODULE MapFS -------------------------------
(***************************************************************************)
(* The file system in memory (vfs/mapfs/mapfs.go).  Its map has a key for  *)
(* each file, and the key of a path with a "/" at its end for directories  *)
(* that were made, or have been emptied.                                   *)
(*                                                                         *)
(* Each call holds fs.mu from its first look at the map to its last change *)
(* of it, and is one action; but Create reads the whole body before it     *)
(* takes the lock, and other calls come in between.  Calls with the root   *)
(* itself are left out, except ReadDir.                                    *)
(***************************************************************************)
EXTENDS Names

CONSTANTS
    Contents,   \* what files hold
    Absent,     \* no file
    Callers,    \* bound: calls of Create that read their bodies
    Held,       \* the files that New was given, all with the content First
    First,
    Made,       \* the directories that New was given
    NoCall

ASSUME MapFSAssumption ==
    /\ Absent \notin Contents /\ First \in Contents
    /\ Held \subseteq Paths /\ Made \subseteq Paths
    /\ NoCall \notin [path : Paths, rooted : BOOLEAN]

VARIABLES
    files,      \* m at the key of each path
    markers,    \* the paths with a key that ends with "/"
    reading,    \* what the callers of Create have asked for
    last        \* auxiliary: the last call, with its result

vars == << files, markers, reading, last >>

\* Create is given a name as the client wrote it, with "/" in front or not;
\* in the other calls filename makes both the same.
Wanted == [path : Paths, rooted : BOOLEAN]

IsFile(p) == files[p] # Absent

\* Some key begins with the path p and "/".
KeyUnder(p) == p \in markers \/ \E q \in Paths : Within(p, q) /\ (IsFile(q) \/ q \in markers)

\* Some key begins with the path p and "/", and is longer.
KeyBelow(p) == \E q \in Paths : Within(p, q) /\ (IsFile(q) \/ q \in markers)

Done(op, p, result) == last' = [op |-> op, path |-> p, result |-> result]

Init ==
    /\ files = [p \in Paths |-> IF p \in Held THEN First ELSE Absent]
    /\ markers = Made
    /\ reading = [c \in Callers |-> NoCall]
    /\ last = [op |-> "none", path |-> << >>, result |-> "none"]

TypeOK ==
    /\ files \in [Paths -> Contents \union {Absent}]
    /\ markers \subseteq Paths
    /\ reading \in [Callers -> Wanted \union {NoCall}]
    /\ last.op \in {"none", "Open", "Lstat", "ReadDir", "Create", "Mkdir", "Remove"}
    /\ last.path \in Paths \union {<< >>}

-----------------------------------------------------------------------------
(* Calls that read *)

Open(p) ==
    /\ Done("Open", p, files[p])
    /\ UNCHANGED << files, markers, reading >>

Lstat(p) ==
    /\ Done("Lstat", p, IF IsFile(p) THEN "file" ELSE IF KeyUnder(p) THEN "dir" ELSE "none")
    /\ UNCHANGED << files, markers, reading >>

\* The keys that readDir finds in d: files; the name in d on the way to a key
\* further down; and the key of d itself, which ends with "/" and whose last
\* name is taken for that of a file in d.
Entries(d) ==
    {<< p, "file" >> : p \in {q \in Paths : IsFile(q) /\ Parent(q) = d}}
    \union {<< p, "dir" >> : p \in {q \in Paths : Parent(q) = d /\ KeyUnder(q)}}
    \union {<< OwnName(q), "file" >> : q \in markers \intersect {d}}

\* The path is absolute, as the commands make it.  Of two entries of the same
\* name readDir keeps the first, in the order of the iteration over the map, which
\* is any.
ReadDir(d) ==
    LET names == {e[1] : e \in Entries(d)}
    IN  /\ \E list \in [names -> {"file", "dir"}] :
              /\ \A p \in names : << p, list[p] >> \in Entries(d)
              /\ Done("ReadDir", d, list)
        /\ UNCHANGED << files, markers, reading >>

-----------------------------------------------------------------------------
(* Calls that change the map *)

\* Create reads the body.
CreateReads(c, p, rooted) ==
    /\ reading[c] = NoCall
    /\ reading' = [reading EXCEPT ![c] = [path |-> p, rooted |-> rooted]]
    /\ UNCHANGED << files, markers, last >>

\* The body cannot be read to its end.
CreateFails(c) ==
    /\ reading[c] # NoCall
    /\ reading' = [reading EXCEPT ![c] = NoCall]
    /\ UNCHANGED << files, markers, last >>

\* The name is compared with the keys as it was given: with "/" in front it is
\* no prefix of any.
Create(c, content) ==
    /\ reading[c] # NoCall
    /\ LET p == reading[c].path
       IN  IF ~reading[c].rooted /\ KeyUnder(p)
           THEN Done("Create", p, "exists") /\ UNCHANGED files
           ELSE Done("Create", p, "ok") /\ files' = [files EXCEPT ![p] = content]
    /\ reading' = [reading EXCEPT ![c] = NoCall]
    /\ UNCHANGED markers

Mkdir(p) ==
    /\ IF IsFile(p) \/ KeyUnder(p)
       THEN Done("Mkdir", p, "exists") /\ UNCHANGED markers
       ELSE Done("Mkdir", p, "ok") /\ markers' = markers \union {p}
    /\ UNCHANGED << files, reading >>

\* Faulty variant: the root gets one, too.
KeepRoot(p) == {Parent(p)}

\* Faulty variant: no directory is kept.
KeepNothing(p) == {}

\* The directory of what is removed gets a key of its own, except the root.
Keep(p) == {Parent(p)} \ {<< >>}

RemoveFile(p) ==
    /\ IsFile(p)
    /\ files' = [files EXCEPT ![p] = Absent]
    /\ markers' = markers \union Keep(p)
    /\ Done("Remove", p, "ok")

RemoveDir(p) ==
    /\ ~IsFile(p) /\ ~KeyBelow(p) /\ p \in markers
    /\ markers' = (markers \ {p}) \union Keep(p)
    /\ Done("Remove", p, "ok")
    /\ UNCHANGED files

RemoveFails(p) ==
    /\ ~IsFile(p)
    /\ \/ KeyBelow(p) /\ Done("Remove", p, "not empty")
       \/ ~KeyBelow(p) /\ p \notin markers /\ Done("Remove", p, "none")
    /\ UNCHANGED << files, markers >>

Remove(p) ==
    /\ RemoveFile(p) \/ RemoveDir(p) \/ RemoveFails(p)
    /\ UNCHANGED reading

-----------------------------------------------------------------------------
Next ==
    \/ \E d \in Paths \union {<< >>} : ReadDir(d)
    \/ \E p \in Paths :
          \/ Open(p) \/ Lstat(p) \/ Mkdir(p) \/ Remove(p)
          \/ \E c \in Callers, rooted \in BOOLEAN : CreateReads(c, p, rooted)
    \/ \E c \in Callers :
          \/ CreateFails(c)
          \/ \E content \in Contents : Create(c, content)

Spec == Init /\ [][Next]_vars

-----------------------------------------------------------------------------
(* Properties *)

\* The tree that the map stands for: a directory is a path below which there is
\* some key, or which has a key with a "/" itself.
Dirs == {p \in Paths : KeyUnder(p)}

Tree == INSTANCE FileTree WITH dirs <- Dirs

\* Every call does at one moment to the tree what the interface says
\* (vfs/vfs.go:11), and tells of the tree as it is then: a directory stays when
\* it loses its last file, a listing is complete, what has something below it
\* is not removed.
ImplementsTree == Tree!Spec
=============================================================================
