---------------------------- MODULE MapFSProofs ----------------------------
(***************************************************************************)
(* Theorems about MapFS, for all sets of paths.                            *)
(***************************************************************************)
EXTENDS MapFS, NamesProofs

-----------------------------------------------------------------------------
(* Type correctness *)

LEMMA TypeInit == Init => TypeOK
  BY MapFSAssumption DEF Init, TypeOK

LEMMA KeepLemma ==
    ASSUME NEW p \in Paths
    PROVE  Keep(p) \subseteq Paths
  BY ParentLemma DEF Keep

LEMMA TypeStep == TypeOK /\ [Next]_vars => TypeOK'
  <1> SUFFICES ASSUME TypeOK, [Next]_vars
               PROVE  TypeOK'
    OBVIOUS
  <1> USE DEF TypeOK, Done
  <1>1. ASSUME NEW d \in Paths \union {<< >>}, ReadDir(d)
        PROVE  TypeOK'
    BY <1>1 DEF ReadDir
  <1>2. ASSUME NEW p \in Paths, Open(p) \/ Lstat(p)
        PROVE  TypeOK'
    BY <1>2 DEF Open, Lstat
  <1>3. ASSUME NEW p \in Paths, Mkdir(p)
        PROVE  TypeOK'
    BY <1>3 DEF Mkdir
  <1>4. ASSUME NEW p \in Paths, Remove(p)
        PROVE  TypeOK'
    <2>1. CASE RemoveFile(p)
      BY <1>4, <2>1, KeepLemma DEF Remove, RemoveFile
    <2>2. CASE RemoveDir(p)
      BY <1>4, <2>2, KeepLemma DEF Remove, RemoveDir
    <2>3. CASE RemoveFails(p)
      <3>1. \E result : Done("Remove", p, result)
        BY <2>3 DEF RemoveFails
      <3>2. UNCHANGED << files, markers, reading >>
        BY <1>4, <2>3 DEF Remove, RemoveFails
      <3>3. QED
        BY <3>1, <3>2
    <2>4. QED
      BY <1>4, <2>1, <2>2, <2>3 DEF Remove
  <1>5. ASSUME NEW p \in Paths, NEW c \in Callers, NEW rooted \in BOOLEAN, CreateReads(c, p, rooted)
        PROVE  TypeOK'
    BY <1>5 DEF CreateReads, Wanted
  <1>6. ASSUME NEW c \in Callers, CreateFails(c)
        PROVE  TypeOK'
    BY <1>6 DEF CreateFails
  <1>7. ASSUME NEW c \in Callers, NEW content \in Contents, Create(c, content)
        PROVE  TypeOK'
    <2>1. reading[c] \in Wanted /\ reading[c].path \in Paths
      BY <1>7 DEF Create, Wanted
    <2>2. QED
      BY <1>7, <2>1 DEF Create
  <1>8. CASE UNCHANGED vars
    BY <1>8 DEF vars
  <1>9. QED
    BY <1>1, <1>2, <1>3, <1>4, <1>5, <1>6, <1>7, <1>8 DEF Next

\* The map has keys of paths only, whatever is called in whatever order; in
\* particular Remove never makes a key for the root.
THEOREM TypeCorrect == Spec => []TypeOK
  BY TypeInit, TypeStep, PTL DEF Spec

-----------------------------------------------------------------------------
(* Directories of the map *)

LEMMA KeyUnderBelow ==
    ASSUME NEW p \in Paths
    PROVE  KeyUnder(p) <=> p \in markers \/ KeyBelow(p)
  BY DEF KeyUnder, KeyBelow

\* What is above a file or a directory is a directory.
LEMMA DirsClosed ==
    ASSUME NEW p \in Paths, NEW q \in Paths, Within(q, p), IsFile(p) \/ KeyUnder(p)
    PROVE  KeyUnder(q)
  BY WithinTrans DEF KeyUnder

\* A new file makes the paths above it directories.
LEMMA DirsOfFile ==
    ASSUME TypeOK, NEW p \in Paths, NEW content \in Contents,
           files' = [files EXCEPT ![p] = content], UNCHANGED markers
    PROVE  Dirs' = Dirs \union {q \in Paths : Within(q, p)}
  <1>1. \A q \in Paths : IsFile(q)' <=> IsFile(q) \/ q = p
    BY MapFSAssumption DEF TypeOK, IsFile
  <1>2. \A q \in Paths : KeyUnder(q)' <=> KeyUnder(q) \/ Within(q, p)
    BY <1>1 DEF KeyUnder
  <1>3. QED
    BY <1>2 DEF Dirs

\* So does a new key that ends with "/", for its path, too.
LEMMA DirsOfMarker ==
    ASSUME TypeOK, NEW p \in Paths, markers' = markers \union {p}, UNCHANGED files
    PROVE  Dirs' = Dirs \union {q \in Paths : Within(q, p)} \union {p}
  <1>1. \A q \in Paths : IsFile(q)' <=> IsFile(q)
    BY DEF IsFile
  <1>2. \A q \in Paths : KeyUnder(q)' <=> KeyUnder(q) \/ Within(q, p) \/ q = p
    BY <1>1 DEF KeyUnder
  <1>3. QED
    BY <1>2 DEF Dirs

\* The key that Remove leaves for the directory of p keeps all directories
\* above p.
LEMMA AboveKept ==
    ASSUME NEW p \in Paths, NEW q \in Paths, Within(q, p), Keep(p) \subseteq markers'
    PROVE  KeyUnder(q)'
  <1>1. Parent(p) # << >> /\ (q = Parent(p) \/ Within(q, Parent(p)))
    BY AboveLemma
  <1>2. Parent(p) \in Paths /\ Parent(p) \in markers'
    BY <1>1, ParentLemma DEF Keep
  <1>3. QED
    BY <1>1, <1>2 DEF KeyUnder

\* The key that Remove leaves makes no new directory.
LEMMA KeepMakesNone ==
    ASSUME NEW p \in Paths, IsFile(p) \/ KeyUnder(p), NEW r \in Keep(p)
    PROVE  r \in Paths /\ Within(r, p) /\ KeyUnder(r)
  <1>1. r = Parent(p) /\ r \in Paths
    BY ParentLemma DEF Keep
  <1>2. QED
    BY <1>1, InParent, DirsClosed

LEMMA DirsAfterFile ==
    ASSUME TypeOK, NEW p \in Paths, RemoveFile(p)
    PROVE  Dirs' = Dirs
  <1>1. /\ IsFile(p) /\ markers' = markers \union Keep(p)
        /\ \A q \in Paths : IsFile(q)' <=> IsFile(q) /\ q # p
    BY DEF RemoveFile, IsFile, TypeOK
  <1>2. ASSUME NEW q \in Paths, KeyUnder(q)
        PROVE  KeyUnder(q)'
    <2>1. CASE Within(q, p)
      BY <1>1, <2>1, AboveKept
    <2>2. CASE ~Within(q, p)
      BY <1>1, <1>2, <2>2 DEF KeyUnder
    <2>3. QED
      BY <2>1, <2>2
  <1>3. ASSUME NEW q \in Paths, KeyUnder(q)'
        PROVE  KeyUnder(q)
    <2>1. ASSUME NEW r \in Paths, q = r \/ Within(q, r), r \in Keep(p)
          PROVE  KeyUnder(q)
      BY <1>1, <2>1, KeepMakesNone, DirsClosed
    <2>2. QED
      BY <1>1, <1>3, <2>1 DEF KeyUnder
  <1>4. QED
    BY <1>2, <1>3 DEF Dirs

LEMMA DirsAfterDir ==
    ASSUME TypeOK, NEW p \in Paths, RemoveDir(p)
    PROVE  Dirs' = Dirs \ {p}
  <1>1. /\ ~KeyBelow(p) /\ p \in markers /\ markers' = (markers \ {p}) \union Keep(p)
        /\ KeyUnder(p) /\ \A q \in Paths : IsFile(q)' <=> IsFile(q)
    BY DEF RemoveDir, IsFile, KeyUnder
  <1>2. p \notin Keep(p)
    BY InParent, NotWithinItself, KeepMakesNone, <1>1
  <1>3. ASSUME NEW q \in Paths, KeyUnder(q), q # p
        PROVE  KeyUnder(q)'
    <2>1. CASE Within(q, p)
      BY <1>1, <2>1, AboveKept
    <2>2. CASE ~Within(q, p)
      BY <1>1, <1>3, <2>2 DEF KeyUnder
    <2>3. QED
      BY <2>1, <2>2
  <1>4. ASSUME NEW q \in Paths, KeyUnder(q)'
        PROVE  KeyUnder(q) /\ q # p
    <2>1. ASSUME NEW r \in Paths, q = r \/ Within(q, r), r \in Keep(p)
          PROVE  KeyUnder(q) /\ Within(q, p)
      BY <1>1, <2>1, KeepMakesNone, DirsClosed, WithinTrans
    <2>2. ASSUME NEW r \in Paths, q = r \/ Within(q, r), r \in markers \ {p}
          PROVE  KeyUnder(q) /\ q # p
      BY <1>1, <2>2 DEF KeyUnder, KeyBelow
    <2>3. ASSUME NEW r \in Paths, Within(q, r), IsFile(r)
          PROVE  KeyUnder(q) /\ q # p
      BY <1>1, <2>3 DEF KeyUnder, KeyBelow
    <2>4. QED
      BY <1>1, <1>4, <2>1, <2>2, <2>3, NotWithinItself DEF KeyUnder
  <1>5. QED
    BY <1>3, <1>4, <1>1 DEF Dirs

-----------------------------------------------------------------------------
(* Refinement *)

LEMMA SameNames ==
    /\ \A p : IsFile(p) <=> Tree!IsFile(p)
    /\ \A op, p, result : Done(op, p, result) <=> Tree!Done(op, p, result)
    /\ \A p \in Paths : KeyUnder(p) <=> p \in Dirs
    /\ \A p, q : Within(p, q) <=> Tree!Within(p, q)
    /\ \A p : Parent(p) = Tree!Parent(p) /\ OwnName(p) = Tree!OwnName(p)
  BY DEF IsFile, Tree!IsFile, Done, Tree!Done, Dirs, Within, Tree!Within,
         Parent, Tree!Parent, OwnName, Tree!OwnName

LEMMA InitRefines == Init => Tree!Init
  <1> SUFFICES ASSUME Init
               PROVE  Tree!Init
    OBVIOUS
  <1>1. files \in [Paths -> Contents \union {Absent}]
    BY MapFSAssumption DEF Init
  <1>2. Dirs \in SUBSET Paths
    BY DEF Dirs
  <1>3. ASSUME NEW p \in Paths, IsFile(p) \/ p \in Dirs, NEW q \in Paths, Within(q, p)
        PROVE  q \in Dirs
    BY <1>3, DirsClosed DEF Dirs
  <1>4. \A p \in Paths : Tree!IsFile(p) \/ p \in Dirs => Tree!Above(p) \subseteq Dirs
    BY <1>3, SameNames DEF Tree!Above
  <1>5. QED
    BY <1>1, <1>2, <1>4 DEF Init, Tree!Init

\* Dirs is determined by files and markers.
LEMMA DirsUnchanged ==
    ASSUME UNCHANGED << files, markers >>
    PROVE  UNCHANGED Dirs
  BY DEF Dirs, KeyUnder, IsFile

LEMMA ReadDirRefines ==
    ASSUME NEW d \in Paths \union {<< >>}, ReadDir(d), TypeOK
    PROVE  Tree!ReadDir(d)
  <1> DEFINE names == {e[1] : e \in Entries(d)}
  <1>1. PICK list \in [names -> {"file", "dir"}] :
           /\ \A p \in names : << p, list[p] >> \in Entries(d)
           /\ Done("ReadDir", d, list)
    BY DEF ReadDir
  <1>2. DOMAIN list = names /\ last'.result = list
    BY <1>1 DEF Done
  <1>3. ASSUME NEW p \in Paths, Parent(p) = d, IsFile(p) \/ p \in Dirs
        PROVE  p \in names
    <2>1. << p, "file" >> \in Entries(d) \/ << p, "dir" >> \in Entries(d)
      BY <1>3 DEF Entries, Dirs
    <2>2. QED
      BY <2>1
  <1>4. ASSUME NEW p \in names
        PROVE  \/ p \in Paths /\ Parent(p) = d /\ list[p] = "file" /\ IsFile(p)
               \/ p \in Paths /\ Parent(p) = d /\ list[p] = "dir"  /\ p \in Dirs
               \/ d \in Dirs /\ p = OwnName(d) /\ list[p] = "file"
    <2>1. << p, list[p] >> \in Entries(d)
      BY <1>1
    <2>2. d \in markers => d \in Dirs
      BY DEF TypeOK, Dirs, KeyUnder
    <2>3. QED
      BY <2>1, <2>2 DEF Entries, Dirs
  <1>5. Tree!Listing(d, list)
    BY <1>2, <1>3, <1>4, SameNames DEF Tree!Listing
  <1>6. QED
    BY <1>1, <1>2, <1>5, DirsUnchanged, SameNames DEF ReadDir, Tree!ReadDir

LEMMA CreateRefines ==
    ASSUME NEW c \in Callers, NEW content \in Contents, Create(c, content), TypeOK
    PROVE  \E p \in Paths : Tree!Create(p, content)
  <1> DEFINE p == reading[c].path
  <1>1. p \in Paths
    BY DEF Create, TypeOK, Wanted
  <1>2. CASE ~reading[c].rooted /\ KeyUnder(p)
    <2>1. Done("Create", p, "exists") /\ UNCHANGED << files, markers >>
      BY <1>2 DEF Create
    <2>2. Tree!Create(p, content)
      BY <1>1, <1>2, <2>1, SameNames, DirsUnchanged DEF Tree!Create
    <2>3. QED
      BY <1>1, <2>2
  <1>3. CASE ~(~reading[c].rooted /\ KeyUnder(p))
    <2>1. Done("Create", p, "ok") /\ files' = [files EXCEPT ![p] = content] /\ UNCHANGED markers
      BY <1>3 DEF Create
    <2>2. Dirs' = Dirs \union Tree!Above(p)
      BY <1>1, <2>1, DirsOfFile, SameNames DEF Tree!Above
    <2>3. Tree!Create(p, content)
      BY <2>1, <2>2, SameNames DEF Tree!Create
    <2>4. QED
      BY <1>1, <2>3
  <1>4. QED
    BY <1>2, <1>3

LEMMA MkdirRefines ==
    ASSUME NEW p \in Paths, Mkdir(p), TypeOK
    PROVE  Tree!Mkdir(p)
  <1>1. CASE IsFile(p) \/ KeyUnder(p)
    <2>1. Done("Mkdir", p, "exists") /\ UNCHANGED << files, markers >>
      BY <1>1 DEF Mkdir
    <2>2. QED
      BY <1>1, <2>1, SameNames, DirsUnchanged DEF Tree!Mkdir
  <1>2. CASE ~IsFile(p) /\ ~KeyUnder(p)
    <2>1. Done("Mkdir", p, "ok") /\ markers' = markers \union {p} /\ UNCHANGED files
      BY <1>2 DEF Mkdir
    <2>2. Dirs' = Dirs \union Tree!Above(p) \union {p}
      BY <2>1, DirsOfMarker, SameNames DEF Tree!Above
    <2>3. QED
      BY <1>2, <2>1, <2>2, SameNames DEF Tree!Mkdir
  <1>3. QED
    BY <1>1, <1>2

\* Remove tests the keys below a path, the tree its files and directories.
LEMMA EmptyLemma ==
    ASSUME NEW p \in Paths
    PROVE  Tree!Empty(p) <=> ~KeyBelow(p)
  <1>1. ASSUME NEW q \in Paths, Within(p, q), KeyUnder(q)
        PROVE  KeyBelow(p)
    BY <1>1, WithinTrans DEF KeyUnder, KeyBelow
  <1>2. ASSUME KeyBelow(p)
        PROVE  ~Tree!Empty(p)
    <2>1. PICK q \in Paths : Within(p, q) /\ (IsFile(q) \/ q \in markers)
      BY <1>2 DEF KeyBelow
    <2>2. IsFile(q) \/ q \in Dirs
      BY <2>1 DEF Dirs, KeyUnder
    <2>3. QED
      BY <2>1, <2>2, SameNames DEF Tree!Empty
  <1>3. ASSUME ~Tree!Empty(p)
        PROVE  KeyBelow(p)
    <2>1. PICK q \in Paths : Within(p, q) /\ (IsFile(q) \/ KeyUnder(q))
      BY <1>3, SameNames DEF Tree!Empty
    <2>2. QED
      BY <1>1, <2>1 DEF KeyBelow
  <1>4. QED
    BY <1>2, <1>3

LEMMA RemoveRefines ==
    ASSUME NEW p \in Paths, Remove(p), TypeOK
    PROVE  Tree!Remove(p)
  <1>1. CASE RemoveFile(p)
    BY <1>1, DirsAfterFile, SameNames DEF RemoveFile, Tree!Remove
  <1>2. CASE RemoveDir(p)
    <2>1. p \in Dirs /\ Dirs' = Dirs \ {p}
      BY <1>2, DirsAfterDir DEF RemoveDir, Dirs, KeyUnder
    <2>2. QED
      BY <1>2, <2>1, EmptyLemma, SameNames DEF RemoveDir, Tree!Remove
  <1>3. CASE RemoveFails(p)
    <2>1. KeyUnder(p) <=> p \in markers \/ KeyBelow(p)
      BY KeyUnderBelow
    <2>2. UNCHANGED << files, Dirs >>
      BY <1>3, DirsUnchanged DEF RemoveFails
    <2>3. QED
      BY <1>3, <2>1, <2>2, EmptyLemma, SameNames DEF RemoveFails, Tree!Remove
  <1>4. QED
    BY <1>1, <1>2, <1>3 DEF Remove

LEMMA StepRefines == TypeOK /\ [Next]_vars => [Tree!Next]_Tree!treeVars
  <1> SUFFICES ASSUME TypeOK, [Next]_vars
               PROVE  Tree!Next \/ UNCHANGED Tree!treeVars
    OBVIOUS
  <1>1. ASSUME NEW d \in Paths \union {<< >>}, ReadDir(d)
        PROVE  Tree!Next
    BY <1>1, ReadDirRefines DEF Tree!Next
  <1>2. ASSUME NEW p \in Paths, Open(p)
        PROVE  Tree!Next
    <2>1. Tree!Open(p)
      BY <1>2, DirsUnchanged, SameNames DEF Open, Tree!Open
    <2>2. QED
      BY <2>1 DEF Tree!Next
  <1>3. ASSUME NEW p \in Paths, Lstat(p)
        PROVE  Tree!Next
    <2>1. Tree!Lstat(p)
      BY <1>3, DirsUnchanged, SameNames DEF Lstat, Tree!Lstat
    <2>2. QED
      BY <2>1 DEF Tree!Next
  <1>4. ASSUME NEW p \in Paths, Mkdir(p)
        PROVE  Tree!Next
    BY <1>4, MkdirRefines DEF Tree!Next
  <1>5. ASSUME NEW p \in Paths, Remove(p)
        PROVE  Tree!Next
    BY <1>5, RemoveRefines DEF Tree!Next
  <1>6. ASSUME NEW c \in Callers, NEW content \in Contents, Create(c, content)
        PROVE  Tree!Next
    BY <1>6, CreateRefines DEF Tree!Next
  <1>7. ASSUME UNCHANGED << files, markers, last >>
        PROVE  UNCHANGED Tree!treeVars
    BY <1>7, DirsUnchanged DEF Tree!treeVars
  <1>8. ASSUME NEW c \in Callers, CreateFails(c)
        PROVE  UNCHANGED Tree!treeVars
    BY <1>7, <1>8 DEF CreateFails
  <1>9. ASSUME NEW p \in Paths, NEW c \in Callers, NEW rooted \in BOOLEAN, CreateReads(c, p, rooted)
        PROVE  UNCHANGED Tree!treeVars
    BY <1>7, <1>9 DEF CreateReads
  <1>10. CASE UNCHANGED vars
    BY <1>7, <1>10 DEF vars
  <1>11. QED
    BY <1>1, <1>2, <1>3, <1>4, <1>5, <1>6, <1>8, <1>9, <1>10 DEF Next

\* mapfs is a file system as the interface promises: each call does to the
\* tree, at one moment, what FileTree says, and tells of the tree as it is
\* then, whatever other calls come while Create reads its body.
THEOREM Refinement == Spec => ImplementsTree
  <1>1. Init /\ [][Next]_vars /\ []TypeOK => Tree!Init /\ [][Tree!Next]_Tree!treeVars
    BY InitRefines, StepRefines, PTL
  <1>2. QED
    BY <1>1, TypeCorrect, PTL DEF Spec, ImplementsTree, Tree!Spec
=============================================================================
