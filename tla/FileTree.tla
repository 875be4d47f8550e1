------------------------------ MODULE FileTree ------------------------------
(***************************************************************************)
(* What a file system promises to those who call it (vfs/vfs.go): a tree   *)
(* of files and directories, in which each call takes effect at one moment *)
(* and its result tells of the tree at this moment.                        *)
(*                                                                         *)
(* Directories come into being with what is stored below them, and stay    *)
(* when it is removed.  A name may be a file and a directory at the same   *)
(* time: the interface does not exclude it, and the code lets it happen.   *)
(* For the same reason a listing may show, besides what is in a directory, *)
(* the directory's own name.                                               *)
(***************************************************************************)
EXTENDS Names

CONSTANTS
    Contents,   \* what files hold
    Absent      \* no file

VARIABLES
    files,      \* the content of each path, or Absent
    dirs,       \* the directories
    last        \* the last call, with its result

treeVars == << files, dirs, last >>

Done(op, p, result) == last' = [op |-> op, path |-> p, result |-> result]

Above(p) == {q \in Paths : Within(q, p)}

IsFile(p) == files[p] # Absent

Init ==
    /\ files \in [Paths -> Contents \union {Absent}]
    /\ dirs \in SUBSET Paths
    /\ \A p \in Paths : IsFile(p) \/ p \in dirs => Above(p) \subseteq dirs
    /\ last = [op |-> "none", path |-> << >>, result |-> "none"]

-----------------------------------------------------------------------------
(* Calls that read *)

Open(p) ==
    /\ Done("Open", p, files[p])
    /\ UNCHANGED << files, dirs >>

\* A file hides the directory of the same name.
Lstat(p) ==
    /\ Done("Lstat", p, IF IsFile(p) THEN "file" ELSE IF p \in dirs THEN "dir" ELSE "none")
    /\ UNCHANGED << files, dirs >>

\* The list has the names in d, each with a kind that it has; the directory's
\* own name may come in addition.  An empty list is the error of a directory
\* that is not there.
Listing(d, list) ==
    /\ {p \in Paths : Parent(p) = d /\ (IsFile(p) \/ p \in dirs)} \subseteq DOMAIN list
    /\ \A p \in DOMAIN list :
          \/ p \in Paths /\ Parent(p) = d /\ list[p] = "file" /\ IsFile(p)
          \/ p \in Paths /\ Parent(p) = d /\ list[p] = "dir"  /\ p \in dirs
          \/ d \in dirs /\ p = OwnName(d) /\ list[p] = "file"

ReadDir(d) ==
    /\ Done("ReadDir", d, last'.result) /\ Listing(d, last'.result)
    /\ UNCHANGED << files, dirs >>

-----------------------------------------------------------------------------
(* Calls that change the tree *)

\* The interface lets Create refuse the name of a directory.
Create(p, content) ==
    \/ /\ files' = [files EXCEPT ![p] = content]
       /\ dirs' = dirs \union Above(p)
       /\ Done("Create", p, "ok")
    \/ /\ p \in dirs
       /\ Done("Create", p, "exists")
       /\ UNCHANGED << files, dirs >>

Mkdir(p) ==
    \/ /\ ~IsFile(p) /\ p \notin dirs
       /\ dirs' = dirs \union Above(p) \union {p}
       /\ Done("Mkdir", p, "ok")
       /\ UNCHANGED files
    \/ /\ IsFile(p) \/ p \in dirs
       /\ Done("Mkdir", p, "exists")
       /\ UNCHANGED << files, dirs >>

Empty(p) == \A q \in Paths : Within(p, q) => ~IsFile(q) /\ q \notin dirs

Remove(p) ==
    \/ /\ IsFile(p)
       /\ files' = [files EXCEPT ![p] = Absent]
       /\ Done("Remove", p, "ok")
       /\ UNCHANGED dirs
    \/ /\ ~IsFile(p) /\ p \in dirs /\ Empty(p)
       /\ dirs' = dirs \ {p}
       /\ Done("Remove", p, "ok")
       /\ UNCHANGED files
    \/ /\ ~IsFile(p) /\ p \in dirs /\ ~Empty(p)
       /\ Done("Remove", p, "not empty")
       /\ UNCHANGED << files, dirs >>
    \/ /\ ~IsFile(p) /\ p \notin dirs
       /\ Done("Remove", p, "none")
       /\ UNCHANGED << files, dirs >>

-----------------------------------------------------------------------------
Next ==
    \/ \E d \in Paths \union {<< >>} : ReadDir(d)
    \/ \E p \in Paths :
          \/ Open(p) \/ Lstat(p) \/ Mkdir(p) \/ Remove(p)
          \/ \E content \in Contents : Create(p, content)

Spec == Init /\ [][Next]_treeVars
=============================================================================
