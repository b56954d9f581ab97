----------------------------- MODULE DriveProofs -----------------------------
(***************************************************************************)
(* The folder requests, for any account: any number of folders, files and  *)
(* requests, interleaved statement by statement.  As long as moves do not  *)
(* overlap, the service is the abstract forest and its tree stays free of  *)
(* cycles; and whatever moves do, a deletion forgets no message, and       *)
(* nothing but a request to delete it takes a stored file away.  And the   *)
(* database of the tests, whose deletions reach what the schema's do.      *)
(***************************************************************************)
EXTENDS Drive, TestDatabase, FiniteSetTheorems, SequenceTheorems, TLAPS

-----------------------------------------------------------------------------
(***************************************************************************)
(* The abstract forest: one that changes by adding leaves, moving folders  *)
(* out of their own subtrees and removing whole subtrees stays a forest,   *)
(* whatever the number of folders.                                         *)
(***************************************************************************)

ForestTypeOK == parent \in [Folders -> Folders \union NotFolders]

\* The induction needs the foreign key: a leaf is added below a folder that
\* exists, and nothing is below a folder that does not.
ForestInv == ForestTypeOK /\ Attached /\ Acyclic

\* Adding a leaf makes no cycle: the leaf has no folder below it.
LEMMA AddKeepsForest ==
    ASSUME ForestInv, NEW f \in Folders, NEW p \in Folders \union {Root}, AddFolder(f, p)
    PROVE  ForestInv'
<1>1. ForestTypeOK'
  BY DEF ForestInv, ForestTypeOK, AddFolder, NotFolders
<1>2. Attached'
  BY ForestAssumption DEF ForestInv, ForestTypeOK, AddFolder, Attached, Live, NotFolders
<1>3. Acyclic'
  <2> SUFFICES ASSUME NEW S \in SUBSET Folders, \A g \in S : parent'[g] \in S
               PROVE  S = {}
    BY DEF Acyclic
  <2>1. \A g \in S \ {f} : parent[g] \in S /\ parent[g] # f
    BY ForestAssumption DEF ForestInv, ForestTypeOK, Attached, Live, AddFolder, NotFolders
  <2>2. S \ {f} = {}
    BY <2>1 DEF ForestInv, Acyclic
  <2>3. f \notin S
    BY <2>2, ForestAssumption DEF ForestInv, ForestTypeOK, AddFolder, Live, NotFolders
  <2> QED BY <2>2, <2>3
<1> QED BY <1>1, <1>2, <1>3 DEF ForestInv

\* Moving a folder f out of its subtree S makes no cycle: what orbits after
\* the move, less what was below f, orbited before it.
LEMMA MoveKeepsForest ==
    ASSUME ForestInv, NEW f \in Folders, NEW p \in Folders \union {Root}, MoveFolder(f, p)
    PROVE  ForestInv'
<1>1. ForestTypeOK'
  BY DEF ForestInv, ForestTypeOK, MoveFolder, NotFolders
<1>2. Attached'
  BY ForestAssumption DEF ForestInv, ForestTypeOK, MoveFolder, Attached, Live, NotFolders
<1>3. Acyclic'
  <2> SUFFICES ASSUME NEW T \in SUBSET Folders, \A g \in T : parent'[g] \in T
               PROVE  T = {}
    BY DEF Acyclic
  <2>1. PICK S \in SUBSET Folders : Closed(S) /\ f \in S /\ p \notin S
    BY DEF MoveFolder
  <2>2. \A g \in Folders \ {f} : parent'[g] = parent[g]
    BY DEF ForestInv, ForestTypeOK, MoveFolder
  <2>3. \A g \in T \ S : parent[g] \in T \ S
    BY <2>1, <2>2 DEF Closed
  <2>4. T \ S = {}
    BY <2>3 DEF ForestInv, Acyclic
  <2>5. f \notin T
    BY <2>1, <2>4 DEF ForestInv, ForestTypeOK, MoveFolder
  <2>6. \A g \in T : parent[g] \in T
    BY <2>2, <2>5
  <2> QED BY <2>6 DEF ForestInv, Acyclic
<1> QED BY <1>1, <1>2, <1>3 DEF ForestInv

\* Removing folders with everything below them leaves no folder astray.
LEMMA RemoveKeepsForest ==
    ASSUME ForestInv, NEW S \in SUBSET Folders, RemoveFolders(S)
    PROVE  ForestInv'
<1>1. ForestTypeOK'
  BY DEF ForestInv, ForestTypeOK, RemoveFolders, NotFolders
<1>2. Attached'
  BY ForestAssumption
     DEF ForestInv, ForestTypeOK, RemoveFolders, Attached, Live, Closed, NotFolders
<1>3. Acyclic'
  <2> SUFFICES ASSUME NEW T \in SUBSET Folders, \A g \in T : parent'[g] \in T
               PROVE  T = {}
    BY DEF Acyclic
  <2>1. \A g \in T : parent[g] \in T
    BY ForestAssumption DEF RemoveFolders, NotFolders
  <2> QED BY <2>1 DEF ForestInv, Acyclic
<1> QED BY <1>1, <1>2, <1>3 DEF ForestInv

\* Whatever it does, a forest stays one,
LEMMA ForestStep == ForestInv /\ [ForestNext]_parent => ForestInv'
<1> SUFFICES ASSUME ForestInv, [ForestNext]_parent PROVE ForestInv'
  OBVIOUS
<1>1. CASE ForestNext
  BY <1>1, AddKeepsForest, MoveKeepsForest, RemoveKeepsForest DEF ForestNext
<1>2. CASE UNCHANGED parent
  BY <1>2 DEF ForestInv, ForestTypeOK, Attached, Acyclic, Live
<1> QED BY <1>1, <1>2

\* Creating leaves, moving folders out of their own subtrees and removing whole
\* subtrees keeps the tree a forest for good.
THEOREM ForestStaysForest == ForestSpec => []ForestInv
<1>1. ForestInit => ForestInv
  BY DEF ForestInit, ForestInv, ForestTypeOK, NotFolders
<1> QED BY <1>1, ForestStep, PTL DEF ForestSpec

\* The folder tree stays cycle-proof as long as the folder service is a
\* forest in this sense, which is what its cycle check is for.
THEOREM ForestStaysAcyclic == ForestSpec => []Acyclic
<1>1. ForestInv => Acyclic
  BY DEF ForestInv
<1> QED BY <1>1, ForestStaysForest, PTL

\* Every folder's parent exists at all times: what the walks of the listings
\* and of the cycle check rely on.
THEOREM ForestStaysAttached == ForestSpec => []Attached
<1>1. ForestInv => Attached
  BY DEF ForestInv
<1> QED BY <1>1, ForestStaysForest, PTL

-----------------------------------------------------------------------------
(***************************************************************************)
(* Subtrees, of a parent map P.                                            *)
(***************************************************************************)

ClosedIn(P, T) == \A f \in Folders : P[f] \in T => f \in T
UnderIn(P, S) ==
  {f \in Folders : \A T \in SUBSET Folders : S \subseteq T /\ ClosedIn(P, T) => f \in T}

\* A subtree contains its roots and whatever is below one of its members, and
\* is contained in every set that does.
LEMMA UnderFacts ==
  ASSUME NEW P, NEW S \in SUBSET Folders
  PROVE  /\ S \subseteq UnderIn(P, S) /\ UnderIn(P, S) \subseteq Folders
         /\ ClosedIn(P, UnderIn(P, S))
         /\ \A T \in SUBSET Folders : S \subseteq T /\ ClosedIn(P, T) => UnderIn(P, S) \subseteq T
<1>1. S \subseteq UnderIn(P, S) /\ UnderIn(P, S) \subseteq Folders
  BY DEF UnderIn
<1>2. ASSUME NEW f \in Folders, P[f] \in UnderIn(P, S) PROVE f \in UnderIn(P, S)
  <2> SUFFICES ASSUME NEW T \in SUBSET Folders, S \subseteq T, ClosedIn(P, T) PROVE f \in T
    BY DEF UnderIn
  <2>1. P[f] \in T
    BY <1>2 DEF UnderIn
  <2> QED BY <2>1 DEF ClosedIn
<1>3. ASSUME NEW T \in SUBSET Folders, S \subseteq T, ClosedIn(P, T)
      PROVE  UnderIn(P, S) \subseteq T
  BY <1>3 DEF UnderIn
<1> QED BY <1>1, <1>2, <1>3 DEF ClosedIn

\* The subtree of a subset is part of the subtree.
LEMMA UnderMonotone ==
  ASSUME NEW P, NEW S \in SUBSET Folders, NEW R \in SUBSET Folders, S \subseteq UnderIn(P, R)
  PROVE  UnderIn(P, S) \subseteq UnderIn(P, R)
  BY UnderFacts

\* A folder that nothing is below has itself for a subtree.
LEMMA UnderLeaf ==
  ASSUME NEW P, NEW f \in Folders, \A g \in Folders : P[g] # f
  PROVE  UnderIn(P, {f}) = {f}
<1>1. ClosedIn(P, {f})
  BY DEF ClosedIn
<1> QED BY <1>1, UnderFacts

\* A change of the tree inside a subtree changes other subtrees by that one only.
LEMMA UnderChange ==
  ASSUME NEW P, NEW Q, NEW D \in SUBSET Folders, ClosedIn(P, D),
         \A g \in Folders \ D : Q[g] = P[g], NEW S \in SUBSET Folders
  PROVE  /\ UnderIn(Q, S) \subseteq UnderIn(P, S) \union D
         /\ UnderIn(P, S) \subseteq UnderIn(Q, S) \union D
<1>1. ClosedIn(Q, UnderIn(P, S) \union D)
  BY UnderFacts DEF ClosedIn
<1>2. ClosedIn(P, UnderIn(Q, S) \union D)
  BY UnderFacts DEF ClosedIn
<1> QED BY <1>1, <1>2, UnderFacts

-----------------------------------------------------------------------------
(***************************************************************************)
(* The types, and the foreign keys.                                        *)
(***************************************************************************)

Labels == {"idle", "end", "name", "find", "climb", "walk", "put", "unlink", "insert", "update",
           "gather", "batch", "rows", "tree", "sweep", "count", "drop", "collect"}
ReqType == [op : Operations \union {NoOp}, at : Labels, cursor : Folders \union NotFolders,
            depth : Nat, path : Seq(Names), seen : SUBSET (Folders \union {Root}),
            frontier : SUBSET (Folders \union Files \union {Root}), files : SUBSET Files]

\* Which kinds of request come to which statement, and with what.
Visits(r) ==
  /\ At(r, "idle") <=> req[r].op = NoOp
  /\ ~At(r, "idle") => req[r].op \in Operations
  /\ req[r].op.kind \in {"create", "ensure"} => req[r].cursor \in Folders \union {Root}
  /\ req[r].at \in {"name", "find", "insert", "update"} => req[r].path # <<>>
  /\ Is(r, "move") => req[r].path # <<>>
  /\ Is(r, "create") => Len(req[r].path) =< 1
  /\ At(r, "name") => req[r].op.kind \in {"create", "rename", "move"}
  /\ At(r, "find") => Is(r, "ensure")
  /\ At(r, "insert") => req[r].op.kind \in {"create", "ensure"}
  /\ At(r, "climb") => req[r].op.kind \in {"move", "list"} /\ req[r].cursor \in Folders
  /\ At(r, "update") => req[r].op.kind \in {"move", "rename"}
  /\ At(r, "walk") => req[r].op.kind \in {"list", "delete", "ifEmpty", "zip"}
  /\ req[r].at \in {"gather", "batch", "rows", "tree"} => Is(r, "delete")
  /\ At(r, "rows") => req[r].frontier \subseteq Files
  /\ At(r, "sweep") => req[r].op.kind \in {"delete", "deleteFile"}
  /\ At(r, "unlink") => Is(r, "deleteFile")
  /\ At(r, "put") => req[r].op.kind \in {"moveFile", "upload"}
  /\ req[r].at \in {"count", "drop"} => Is(r, "ifEmpty")
  /\ At(r, "collect") => Is(r, "zip")
  /\ req[r].op.kind \in OnFolder => req[r].seen \subseteq Folders
  /\ Is(r, "move") => r \in Movers

ReqInv == req \in [Requests -> ReqType] /\ \A r \in Requests : Visits(r)

\* Every file lies in a folder that exists.
FilesAttached == \A x \in Files : place[x] \in Folders => FolderExists(place[x])

\* What a step does to the rows.
RowsKept == UNCHANGED <<parent, place, status, stirred, trash>>
Inserts(f, p) ==
  /\ parent[f] = Unborn /\ Target(p) /\ p \in Folders \union {Root}
  /\ parent' = [parent EXCEPT ![f] = p]
  /\ UNCHANGED <<place, status, stirred, trash>>
Hangs(f, p) ==
  /\ FolderExists(f) /\ Target(p) /\ p \in Folders \union {Root}
  /\ parent' = [parent EXCEPT ![f] = p]
  /\ stirred' = stirred \union FilesIn(Under({f}))
  /\ UNCHANGED <<place, status, trash>>
Removes(S) ==
  /\ S \subseteq Folders
  /\ Cascade(S)
RemovesFiles(S) == DeleteRows(S) /\ UNCHANGED <<parent, status, stirred, trash>>
Puts(x, p) ==
  /\ Target(p) /\ p \in Folders \union {Root} /\ place[x] # Gone
  /\ place' = [place EXCEPT ![x] = p] /\ stirred' = stirred \union {x}
  /\ UNCHANGED <<parent, status, trash>>
Finishes(x) ==
  /\ FileExists(x)
  /\ status' = [status EXCEPT ![x] = "READY"] /\ stirred' = stirred \union {x}
  /\ UNCHANGED <<parent, place, trash>>
Throws(X) == trash' = trash \union X /\ UNCHANGED <<parent, place, status, stirred>>

RowStep ==
  \/ RowsKept
  \/ \E f \in Folders, p \in Folders \union {Root} : Inserts(f, p) \/ Hangs(f, p)
  \/ \E S \in SUBSET Folders : Removes(S)
  \/ \E S \in SUBSET Files : RemovesFiles(S) \/ Throws(S)
  \/ \E x \in Files, p \in Folders \union {Root} : Puts(x, p) \/ Finishes(x)

\* The types of the rows alone.
RowTypes ==
  /\ parent \in [Folders -> Folders \union NotFolders]
  /\ place \in [Files -> Folders \union NotFolders]
  /\ status \in [Files -> {"UPLOADING", "READY", "LOST"}]
  /\ trash \subseteq Files /\ stirred \subseteq Files

Named == name \in [Folders -> Names]
RowInv == RowTypes /\ Attached /\ FilesAttached

LEMMA UnderIsIn == \A S \in SUBSET Folders : /\ Under(S) = UnderIn(parent, S)
                                             /\ Under(S)' = UnderIn(parent', S)
  BY DEF Under, UnderIn, Closed, ClosedIn

\* The rows keep their types and their foreign keys.
LEMMA RowsStay == RowInv /\ RowStep => RowInv'
<1> SUFFICES ASSUME RowInv, RowStep PROVE RowInv'
  OBVIOUS
<1> USE ForestAssumption DEF RowInv, RowTypes, Attached, FilesAttached, FolderExists, FileExists,
    Target, NoRow, NotFolders, Live
<1>1. CASE RowsKept
  BY <1>1 DEF RowsKept
<1>2. ASSUME NEW f \in Folders, NEW p \in Folders \union {Root}, Inserts(f, p) PROVE RowInv'
  <2>1. RowTypes' /\ Attached'
    BY <1>2 DEF Inserts
  <2>2. FilesAttached'
    BY <1>2 DEF Inserts
  <2> QED BY <2>1, <2>2
<1>3. ASSUME NEW f \in Folders, NEW p \in Folders \union {Root}, Hangs(f, p) PROVE RowInv'
  <2>1. RowTypes' /\ Attached'
    BY <1>3 DEF Hangs, FilesIn
  <2>2. FilesAttached'
    BY <1>3 DEF Hangs
  <2> QED BY <2>1, <2>2
<1>4. ASSUME NEW S \in SUBSET Folders, Removes(S) PROVE RowInv'
  <2> DEFINE R == Under(S)
  <2>1. R \subseteq Folders /\ ClosedIn(parent, R)
    BY UnderIsIn, UnderFacts
  <2>2. /\ parent' = [f \in Folders |-> IF f \in R /\ FolderExists(f) THEN Gone ELSE parent[f]]
        /\ place' = [x \in Files |-> IF x \in FilesIn(R) /\ FileExists(x) THEN Gone ELSE place[x]]
        /\ UNCHANGED <<status, stirred, trash>>
    BY <1>4 DEF Removes, Cascade, DeleteRows
  <2> HIDE DEF R
  <2>3. RowTypes'
    BY <2>2
  <2>4. Attached'
    BY <2>1, <2>2 DEF ClosedIn
  <2>5. FilesAttached'
    BY <2>1, <2>2 DEF FilesIn
  <2> QED BY <2>3, <2>4, <2>5
<1>5. ASSUME NEW S \in SUBSET Files, RemovesFiles(S) \/ Throws(S) PROVE RowInv'
  BY <1>5 DEF RemovesFiles, DeleteRows, Throws
<1>6. ASSUME NEW x \in Files, NEW p \in Folders \union {Root}, Puts(x, p) PROVE RowInv'
  <2>1. RowTypes' /\ Attached'
    BY <1>6 DEF Puts
  <2>2. FilesAttached'
    BY <1>6 DEF Puts
  <2> QED BY <2>1, <2>2
<1>7. ASSUME NEW x \in Files, Finishes(x) PROVE RowInv'
  BY <1>7 DEF Finishes
<1> QED BY <1>1, <1>2, <1>3, <1>4, <1>5, <1>6, <1>7 DEF RowStep

-----------------------------------------------------------------------------
(***************************************************************************)
(* What a request finds again after it has let the others run.             *)
(***************************************************************************)

\* The files below S that nobody has moved, made or finished since the start.
Fresh(S) == FilesIn(Under(S)) \ stirred

\* The others remove rows, but what was removed does not come back; and of the
\* files nobody has touched, none enters a subtree, and none leaves one alive.
Others ==
  /\ stirred \subseteq stirred' /\ trash \subseteq trash'
  /\ \A f \in Folders : /\ parent[f] = Gone => parent'[f] = Gone
                        /\ parent[f] # Unborn => parent'[f] # Unborn
  /\ \A x \in Files : /\ place[x] = Gone => place'[x] = Gone
                      /\ place[x] # Unborn => place'[x] # Unborn
                      /\ place[x] = Unborn => place'[x] # Gone
  /\ \A x \in Files \ stirred' : /\ status'[x] = status[x]
                                 /\ place'[x] = place[x] \/ place'[x] = Gone
  /\ \A S \in SUBSET Folders :
       \A x \in Files \ stirred' : FileExists(x)' => (x \in Fresh(S) <=> x \in Fresh(S)')
  /\ \A S \in SUBSET Folders : Fresh(S)' \subseteq Fresh(S)
  /\ \A g \in Folders : parent'[g] \in Folders /\ parent'[g] # parent[g] => Fresh({g})' = {}

\* A file that is below something exists.
LEMMA FreshExists ==
  ASSUME RowInv, NEW S \in SUBSET Folders, NEW x \in Fresh(S)
  PROVE  x \in Files /\ x \notin stirred /\ FileExists(x) /\ place[x] \in Folders
  BY ForestAssumption, UnderIsIn, UnderFacts
     DEF Fresh, FilesIn, RowInv, RowTypes, FileExists, NoRow, NotFolders

\* If files that are untouched keep their place, and subtrees change only by
\* folders where no file is untouched, the untouched files below S are the same.
LEMMA SameFresh ==
  ASSUME NEW S \in SUBSET Folders, stirred \subseteq stirred',
         \A x \in Files \ stirred' : FileExists(x)' => place'[x] = place[x],
         \A x \in Files \ stirred' : FileExists(x)'
           => (place[x] \in Under(S) <=> place[x] \in Under(S)')
  PROVE  \A x \in Files \ stirred' : FileExists(x)' => (x \in Fresh(S) <=> x \in Fresh(S)')
  BY DEF Fresh, FilesIn

LEMMA OthersStep == RowInv /\ RowStep => Others
<1> SUFFICES ASSUME RowInv, RowStep PROVE Others
  OBVIOUS
<1> DEFINE Rest ==
      /\ stirred \subseteq stirred' /\ trash \subseteq trash'
      /\ \A f \in Folders : /\ parent[f] = Gone => parent'[f] = Gone
                            /\ parent[f] # Unborn => parent'[f] # Unborn
      /\ \A x \in Files : /\ place[x] = Gone => place'[x] = Gone
                          /\ place[x] # Unborn => place'[x] # Unborn
                          /\ place[x] = Unborn => place'[x] # Gone
      /\ \A x \in Files \ stirred' : /\ status'[x] = status[x]
                                     /\ place'[x] = place[x] \/ place'[x] = Gone
    Alike == \A S \in SUBSET Folders : \A x \in Files \ stirred' :
               FileExists(x)' => (place[x] \in Under(S) <=> place[x] \in Under(S)')
    Hung == \A g \in Folders : parent'[g] \in Folders /\ parent'[g] # parent[g] => Fresh({g})' = {}
<1>r. RowInv'
  BY RowsStay
<1>a. ASSUME Rest, Alike, Hung PROVE Others
  <2>1. \A x \in Files \ stirred' : FileExists(x)' => place'[x] = place[x]
    BY <1>a DEF FileExists, NoRow
  <2>2. ASSUME NEW S \in SUBSET Folders
        PROVE  \A x \in Files \ stirred' : FileExists(x)' => (x \in Fresh(S) <=> x \in Fresh(S)')
    BY <1>a, <2>1, SameFresh
  <2>3. ASSUME NEW S \in SUBSET Folders PROVE Fresh(S)' \subseteq Fresh(S)
    <3>1. ASSUME NEW x \in Fresh(S)' PROVE x \in Files \ stirred' /\ FileExists(x)'
      <4>1. x \in Files /\ place'[x] \in Under(S)' /\ x \notin stirred'
        BY <3>1 DEF Fresh, FilesIn
      <4>2. place'[x] \in Folders
        BY <4>1, UnderIsIn, UnderFacts
      <4> QED BY <4>1, <4>2, ForestAssumption DEF FileExists, NoRow, NotFolders
    <3> QED BY <2>2, <3>1
  <2> QED BY <1>a, <2>2, <2>3 DEF Others
<1>b. ASSUME Rest, parent' = parent PROVE Others
  <2>1. Alike
    BY <1>b, UnderIsIn
  <2> QED BY <1>a, <1>b, <2>1
<1> USE ForestAssumption DEF RowInv, RowTypes
<1>1. CASE RowsKept
  BY <1>1, <1>b DEF RowsKept
<1>2. ASSUME NEW f \in Folders, NEW p \in Folders \union {Root}, Inserts(f, p) PROVE Others
  <2>1. Rest
    BY <1>2 DEF Inserts, Target, NotFolders
  <2>2. (\A g \in Folders : parent[g] # f) /\ (\A x \in Files : place[x] # f)
    <3>1. ~FolderExists(f) /\ ~Live(f)
      BY <1>2 DEF Inserts, FolderExists, Live, NoRow, NotFolders
    <3> QED BY <3>1 DEF Attached, FilesAttached
  <2>3. parent' = [parent EXCEPT ![f] = p] /\ place' = place
    BY <1>2 DEF Inserts
  <2>4. \A S \in SUBSET Folders : \A g \in Folders \ {f} : g \in Under(S) <=> g \in Under(S)'
    <3>1. ClosedIn(parent, {f}) /\ \A g \in Folders \ {f} : parent'[g] = parent[g]
      BY <2>2, <2>3 DEF ClosedIn
    <3> QED BY <3>1, UnderChange, UnderIsIn
  <2>5. Alike
    BY <2>2, <2>4, UnderIsIn, UnderFacts
  <2>6. Hung
    <3>1. \A g \in Folders : parent'[g] # parent[g] => g = f
      BY <2>3
    <3>2. \A g \in Folders : parent'[g] # f
      BY <1>2, <2>2, <2>3 DEF Inserts, Target, FolderExists, NoRow, NotFolders
    <3>3. Under({f})' = {f}
      BY <3>2, UnderLeaf, UnderIsIn
    <3> QED BY <2>2, <2>3, <3>1, <3>3 DEF Fresh, FilesIn
  <2> QED BY <1>a, <2>1, <2>5, <2>6
<1>3. ASSUME NEW f \in Folders, NEW p \in Folders \union {Root}, Hangs(f, p) PROVE Others
  <2> DEFINE D == Under({f})
  <2>1. Rest
    BY <1>3 DEF Hangs, Target, FolderExists, NoRow, NotFolders
  <2>2. parent' = [parent EXCEPT ![f] = p] /\ place' = place /\ stirred' = stirred \union FilesIn(D)
    BY <1>3 DEF Hangs
  <2>3. \A S \in SUBSET Folders : \A g \in Folders \ D : g \in Under(S) <=> g \in Under(S)'
    <3>1. D \subseteq Folders /\ ClosedIn(parent, D) /\ f \in D
      BY UnderIsIn, UnderFacts
    <3>2. \A g \in Folders \ D : parent'[g] = parent[g]
      BY <2>2, <3>1
    <3> HIDE DEF D
    <3> QED BY <3>1, <3>2, UnderChange, UnderIsIn
  <2>4. Alike
    <3>1. \A x \in Files \ stirred' : place[x] \notin D
      BY <2>2 DEF FilesIn
    <3> QED BY <2>3, <3>1, UnderIsIn, UnderFacts
  <2>5. Hung
    <3>1. \A g \in Folders : parent'[g] # parent[g] => g = f
      BY <2>2
    <3>2. Under({f})' \subseteq D
      <4>1. f \in D /\ Under({f})' \subseteq Folders
        BY UnderIsIn, UnderFacts
      <4> QED BY <2>3, <4>1, UnderIsIn, UnderFacts
    <3>3. FilesIn(Under({f}))' \subseteq FilesIn(D)
      BY <2>2, <3>2 DEF FilesIn
    <3> QED BY <2>2, <3>1, <3>3 DEF Fresh
  <2> QED BY <1>a, <2>1, <2>4, <2>5
<1>4. ASSUME NEW S \in SUBSET Folders, Removes(S) PROVE Others
  <2> DEFINE R == Under(S)
  <2>1. R \subseteq Folders /\ ClosedIn(parent, R)
    BY UnderIsIn, UnderFacts
  <2>2. /\ parent' = [f \in Folders |-> IF f \in R /\ FolderExists(f) THEN Gone ELSE parent[f]]
        /\ place' = [x \in Files |-> IF x \in FilesIn(R) /\ FileExists(x) THEN Gone ELSE place[x]]
        /\ UNCHANGED <<status, stirred, trash>>
    BY <1>4 DEF Removes, Cascade, DeleteRows
  <2> HIDE DEF R
  <2>3. Rest
    BY <2>2 DEF FolderExists, FileExists, NoRow
  <2>4. \A T \in SUBSET Folders : \A g \in Folders \ R : g \in Under(T) <=> g \in Under(T)'
    <3>2. \A f \in Folders \ R : parent'[f] = parent[f]
      BY <2>2
    <3> QED BY <2>1, <3>2, UnderChange, UnderIsIn
  <2>5. \A x \in Files \ stirred' : FileExists(x)' => place[x] \notin R
    BY <2>1, <2>2 DEF FilesIn, FileExists, NoRow, NotFolders
  <2>6. Alike
    BY <2>4, <2>5, UnderIsIn, UnderFacts
  <2>7. Hung
    BY <2>2 DEF NotFolders
  <2> QED BY <1>a, <2>3, <2>6, <2>7
<1>5. ASSUME NEW S \in SUBSET Files, RemovesFiles(S) \/ Throws(S) PROVE Others
  BY <1>5, <1>b DEF RemovesFiles, DeleteRows, Throws, FileExists, NoRow
<1>6. ASSUME NEW x \in Files, NEW p \in Folders \union {Root}, Puts(x, p) PROVE Others
  <2>1. Rest
    BY <1>6 DEF Puts, Target, FolderExists, NoRow, NotFolders
  <2> QED BY <1>6, <1>b, <2>1 DEF Puts
<1>7. ASSUME NEW x \in Files, Finishes(x) PROVE Others
  <2>1. Rest
    BY <1>7 DEF Finishes
  <2> QED BY <1>7, <1>b, <2>1 DEF Finishes
<1> QED BY <1>1, <1>2, <1>3, <1>4, <1>5, <1>6, <1>7 DEF RowStep

-----------------------------------------------------------------------------
(***************************************************************************)
(* Each statement is one of those steps on the rows, and the requests keep *)
(* their types.                                                            *)
(***************************************************************************)

\* What an operation of the instance is.
LEMMA OpTypes ==
  \A o \in Operations :
    /\ o.kind \in OnFolder \union OnFile \union {"create", "ensure"}
    /\ o.folder \in Folders \union {Root} /\ o.to \in Folders \union {Root}
    /\ o.path \in Seq(Names) /\ o.file \in Files \union {Root}
    /\ o.kind \in OnFolder => o.folder \in Folders
    /\ o.kind \in OnFile => o.file \in Files
    /\ o.kind \in {"create", "ensure", "rename"} => o.path # <<>>
    /\ o.kind = "create" => Len(o.path) = 1
    /\ o # NoOp
<1> SUFFICES ASSUME NEW o \in Operations
             PROVE  /\ o.kind \in OnFolder \union OnFile \union {"create", "ensure"}
                    /\ o.folder \in Folders \union {Root} /\ o.to \in Folders \union {Root}
                    /\ o.path \in Seq(Names) /\ o.file \in Files \union {Root}
                    /\ o.kind \in OnFolder => o.folder \in Folders
                    /\ o.kind \in OnFile => o.file \in Files
                    /\ o.kind = "ensure" => o.path # <<>>
                    /\ o.kind \in {"create", "rename"} => o.path # <<>> /\ Len(o.path) = 1
                    /\ o # NoOp
  OBVIOUS
<1>1. /\ o.kind \in OnFolder \union OnFile \union {"create", "ensure"}
      /\ o.folder \in Folders \union {Root} /\ o.to \in Folders \union {Root}
      /\ o.path \in Seq(Names) /\ o.file \in Files \union {Root}
  BY OperationsAssumption
<1>2. /\ o.kind \in OnFolder => o.folder \in Folders
      /\ o.kind \in OnFile => o.file \in Files
      /\ o.kind = "ensure" => o.path # <<>>
      /\ o.kind \in {"create", "rename"} => Len(o.path) = 1
  BY OperationsAssumption
<1>3. Len(o.path) = 1 => o.path # <<>>
  OBVIOUS
<1>4. o # NoOp
  BY <1>1 DEF NoOp, OnFolder, OnFile
<1> QED BY <1>1, <1>2, <1>3, <1>4

\* A path loses its head.
LEMMA TailOfPath ==
  ASSUME NEW S, NEW s \in Seq(S), s # <<>>
  PROVE  /\ Len(s) \in Nat \ {0} /\ Tail(s) \in Seq(S) /\ Len(Tail(s)) = Len(s) - 1
         /\ Len(s) # 1 => Tail(s) # <<>>
<1>1. Len(s) \in Nat \ {0} /\ Tail(s) \in Seq(S) /\ Len(Tail(s)) = Len(s) - 1
  OBVIOUS
<1>2. \A t : t = <<>> => Len(t) = 0
  OBVIOUS
<1>3. Tail(s) = <<>> => Len(Tail(s)) = 0
  BY ONLY <1>2, Zenon
<1> QED BY <1>1, <1>3

LEMMA StepOnRows ==
  ASSUME RowInv, ReqInv, NEW r \in Requests, Step(r)
  PROVE  RowStep
<1> DEFINE o == req[r].op
<1>1. Visits(r) /\ req[r] \in ReqType
  BY DEF ReqInv
<1>2. ~At(r, "idle") => o \in Operations
  BY <1>1 DEF Visits
<1> USE DEF At, Is
<1>3. CASE DriveKept
  BY <1>3 DEF DriveKept, TreeKept, FilesKept, RowStep, RowsKept
<1>4. CASE InsertFolder(r)
  <2>1. PICK f \in Folders : parent[f] = Unborn /\ parent' = [parent EXCEPT ![f] = req[r].cursor]
    BY <1>4 DEF InsertFolder
  <2>2. Inserts(f, req[r].cursor) /\ req[r].cursor \in Folders \union {Root}
    BY <1>1, <1>4, <2>1 DEF Visits, InsertFolder, Inserts, FilesKept
  <2> QED BY <2>1, <2>2 DEF RowStep
<1>5. CASE UpdateFolder(r)
  <2>1. o \in Operations /\ o.kind \in {"move", "rename"} /\ o.folder \in Folders
          /\ o.to \in Folders \union {Root}
    BY <1>1, <1>2, <1>5, OpTypes DEF UpdateFolder, Visits, OnFolder
  <2>2. CASE o.kind = "move" /\ parent' # parent
    <3>1. Hangs(o.folder, o.to)
      BY <1>5, <2>1, <2>2 DEF UpdateFolder, Hangs
    <3> QED BY <2>1, <3>1 DEF RowStep
  <2>3. CASE o.kind = "rename"
    <3>1. parent' = parent
      BY <1>5, <2>1, <2>3 DEF UpdateFolder, RowInv, RowTypes
    <3> QED BY <1>5, <2>3, <3>1 DEF UpdateFolder, RowStep, RowsKept
  <2>4. CASE o.kind = "move" /\ parent' = parent
    <3>1. CASE Hangs(o.folder, o.to)
      BY <2>1, <3>1 DEF RowStep
    <3>2. CASE UNCHANGED <<parent, name, stirred>>
      BY <1>5, <3>2 DEF UpdateFolder, RowStep, RowsKept
    <3> QED BY <1>5, <2>1, <2>4, <3>1, <3>2 DEF UpdateFolder, Hangs
  <2> QED BY <2>1, <2>2, <2>3, <2>4
<1>6. CASE DeleteBatch(r)
  <2>1. req[r].frontier \subseteq Files
    BY <1>1, <1>6 DEF DeleteBatch, Visits
  <2>2. RemovesFiles(req[r].frontier)
    BY <1>6 DEF DeleteBatch, RemovesFiles, TreeKept
  <2> QED BY <2>1, <2>2 DEF RowStep
<1>7. CASE DeleteTree(r)
  <2>1. req[r].seen \subseteq Folders
    BY <1>1, <1>7 DEF DeleteTree, Visits, OnFolder
  <2> QED BY <1>7, <2>1 DEF DeleteTree, Removes, RowStep
<1>8. CASE Sweep(r)
  <2>1. req[r].files \subseteq Files
    BY <1>1 DEF ReqType
  <2>2. Throws(req[r].files)
    BY <1>8 DEF Sweep, Throws, TreeKept, FilesKept
  <2> QED BY <2>1, <2>2 DEF RowStep
<1>9. CASE DropFolder(r)
  <2>1. o \in Operations /\ o.folder \in Folders
    BY <1>1, <1>2, <1>9, OpTypes DEF DropFolder, Visits, OnFolder
  <2> QED BY <1>3, <1>9, <2>1 DEF DropFolder, Removes, RowStep
<1>10. CASE PutFile(r)
  <2>1. o \in Operations /\ o.file \in Files /\ o.to \in Folders \union {Root}
    BY <1>1, <1>2, <1>10, OpTypes DEF PutFile, Visits, OnFile
  <2>2. CASE UNCHANGED <<place, stirred>>
    BY <1>10, <2>2 DEF PutFile, TreeKept, RowStep, RowsKept
  <2>3. CASE Target(o.to)
               /\ (IF Is(r, "upload") THEN place[o.file] = Unborn ELSE FileExists(o.file))
    <3>1. place[o.file] # Gone
      BY <2>3, ForestAssumption DEF FileExists, NoRow
    <3>2. Puts(o.file, o.to)
      BY <1>10, <2>1, <2>3, <3>1 DEF PutFile, Puts, TreeKept
    <3> QED BY <2>1, <3>2 DEF RowStep
  <2> QED BY <1>10, <2>2, <2>3 DEF PutFile
<1>11. CASE DeleteFile(r)
  <2>1. o.file \in Files
    BY <1>1, <1>2, <1>11, OpTypes DEF DeleteFile, Visits, OnFile
  <2>2. RemovesFiles({o.file})
    BY <1>11 DEF DeleteFile, RemovesFiles, TreeKept
  <2> QED BY <2>1, <2>2 DEF RowStep
<1> QED
  BY <1>3, <1>4, <1>5, <1>6, <1>7, <1>8, <1>9, <1>10, <1>11
     DEF Step, CheckName, FindSegment, InsertRefused, Climb, Walk, Gather, ReadBatch, CountFiles,
         Collect

LEMMA NextOnRows == RowInv /\ ReqInv /\ [DriveNext]_driveVars => RowStep
<1> SUFFICES ASSUME RowInv, ReqInv, [DriveNext]_driveVars PROVE RowStep
  OBVIOUS
<1>1. ASSUME NEW r \in Requests, Step(r) PROVE RowStep
  BY <1>1, StepOnRows
<1>2. ASSUME NEW r \in Requests, NEW o \in Operations, Begin(r, o) PROVE RowStep
  BY <1>2 DEF Begin, DriveKept, TreeKept, FilesKept, RowStep, RowsKept
<1>3. ASSUME NEW x \in Files, UploadFinishes(x) PROVE RowStep
  <2>1. Finishes(x)
    BY <1>3 DEF UploadFinishes, Finishes, TreeKept
  <2>2. Root \in Folders \union {Root}
    OBVIOUS
  <2> QED BY <2>1, <2>2 DEF RowStep
<1>4. CASE UNCHANGED driveVars
  BY <1>4 DEF driveVars, RowStep, RowsKept
<1> QED BY <1>1, <1>2, <1>3, <1>4 DEF DriveNext

\* A request stays the one it is.
LEMMA OpKept ==
  ASSUME ReqInv, NEW r \in Requests, Step(r)
  PROVE  req'[r].op = req[r].op
<1> DEFINE w == req[r]
<1>1. w \in ReqType /\ req \in [Requests -> ReqType]
  BY DEF ReqInv
<1>a. ASSUME NEW v, req' = [req EXCEPT ![r] = v], v.op = w.op PROVE req'[r].op = w.op
  BY <1>1, <1>a
<1>b. ASSUME NEW l, Goes(r, l) PROVE req'[r].op = w.op
  <2>1. [w EXCEPT !.at = l].op = w.op
    BY <1>1 DEF ReqType
  <2>2. req' = [req EXCEPT ![r] = [w EXCEPT !.at = l]]
    BY <1>b DEF Goes
  <2> QED BY <1>a, <2>1, <2>2
<1>2. CASE FindSegment(r) \/ InsertFolder(r)
  <2>1. ASSUME NEW f, req' = [req EXCEPT ![r] = NextSegment(@, f)] PROVE req'[r].op = w.op
    <3>1. NextSegment(w, f).op = w.op
      BY <1>1 DEF NextSegment, ReqType
    <3> QED BY <1>a, <2>1, <3>1
  <2> QED BY <1>2, <1>b, <2>1 DEF FindSegment, InsertFolder
<1>3. CASE Climb(r)
  <2> DEFINE v == [w EXCEPT !.depth = w.depth + 1, !.cursor = parent[w.cursor],
                     !.at = IF parent[w.cursor] # Root /\ w.depth + 1 < WalkLimit THEN "climb"
                            ELSE IF Is(r, "list") THEN "walk" ELSE "name"]
  <2>1. v.op = w.op
    BY <1>1 DEF ReqType
  <2>2. (\E l : Goes(r, l)) \/ req' = [req EXCEPT ![r] = v]
    BY <1>3 DEF Climb, Ends
  <2> HIDE DEF v
  <2> QED BY <1>a, <1>b, <2>1, <2>2
<1>4. CASE Walk(r)
  <2> DEFINE children == {f \in Folders : parent[f] \in w.frontier}
             after == CASE Is(r, "delete") -> "gather" [] Is(r, "zip") -> "collect"
                        [] Is(r, "ifEmpty") -> "count" [] OTHER -> "end"
             v == [w EXCEPT !.seen = w.seen \union children, !.frontier = children,
                     !.at = IF children = {} THEN after ELSE "walk"]
  <2>1. v.op = w.op
    BY <1>1 DEF ReqType
  <2>2. req' = [req EXCEPT ![r] = v]
    BY <1>4 DEF Walk
  <2> HIDE DEF v
  <2> QED BY <1>a, <2>1, <2>2
<1>5. CASE ReadBatch(r)
  <2>1. ASSUME NEW b, req' = [req EXCEPT ![r] = [w EXCEPT !.frontier = b, !.at = "rows"]]
        PROVE  req'[r].op = w.op
    <3>1. [w EXCEPT !.frontier = b, !.at = "rows"].op = w.op
      BY <1>1 DEF ReqType
    <3> QED BY <1>a, <2>1, <3>1
  <2> QED BY <1>5, <1>b, <2>1 DEF ReadBatch
<1>6. CASE Gather(r) \/ Collect(r)
  <2>1. ASSUME NEW l, NEW X, req' = [req EXCEPT ![r] = [w EXCEPT !.at = l, !.files = X]]
        PROVE  req'[r].op = w.op
    <3>1. [w EXCEPT !.at = l, !.files = X].op = w.op
      BY <1>1 DEF ReqType
    <3> QED BY <1>a, <2>1, <3>1
  <2> QED BY <1>6, <2>1 DEF Gather, Collect
<1> QED
  BY <1>b, <1>2, <1>3, <1>4, <1>5, <1>6
     DEF Step, CheckName, InsertRefused, UpdateFolder, DeleteBatch, DeleteTree, Sweep, CountFiles,
         DropFolder, PutFile, DeleteFile, Ends

\* The requests keep their types; a step of one leaves the others.
LEMMA ReqStays ==
  ASSUME RowInv, Named, ReqInv, NEW r \in Requests,
         Step(r) \/ \E o \in Operations : Begin(r, o)
  PROVE  ReqInv' /\ \A q \in Requests \ {r} : req'[q] = req[q]
<1> DEFINE o == req[r].op
<1>1. Visits(r) /\ req \in [Requests -> ReqType] /\ req[r] \in ReqType
  BY DEF ReqInv
<1>2. ~At(r, "idle") => o \in Operations
  BY <1>1 DEF Visits
<1>a. ASSUME req'[r] \in ReqType, Visits(r)', req' = [req EXCEPT ![r] = req'[r]]
      PROVE  ReqInv' /\ \A q \in Requests \ {r} : req'[q] = req[q]
  <2>1. req' \in [Requests -> ReqType] /\ \A q \in Requests \ {r} : req'[q] = req[q]
    BY <1>1, <1>a
  <2>2. \A q \in Requests \ {r} : Visits(q)'
    BY <2>1 DEF ReqInv, Visits, At, Is
  <2> QED BY <1>a, <2>1, <2>2 DEF ReqInv
<1> USE DEF At, Is, Goes, Ends, DriveKept
<1>b. ASSUME NEW l \in Labels, Goes(r, l),
             l \in {"end", "gather", "batch", "tree", "sweep", "drop", "insert", "update", "name"},
             ~At(r, "idle"),
             l \in {"gather", "batch", "tree"} => Is(r, "delete"),
             l = "sweep" => req[r].op.kind \in {"delete", "deleteFile"},
             l = "drop" => Is(r, "ifEmpty"),
             l \in {"insert", "update"} => At(r, "name"),
             l = "insert" => Is(r, "create"), l = "update" => ~Is(r, "create"), l # "name"
      PROVE  ReqInv' /\ \A q \in Requests \ {r} : req'[q] = req[q]
  <2>1. req' = [req EXCEPT ![r] = [req[r] EXCEPT !.at = l]]
    BY <1>b
  <2>2. req'[r] = [req[r] EXCEPT !.at = l]
    BY <1>1, <2>1
  <2>3. req'[r] \in ReqType
    BY <1>1, <2>2 DEF ReqType
  <2>4. Visits(r)'
    BY <1>1, <1>b, <2>2 DEF ReqType, Visits
  <2> QED BY <1>a, <2>1, <2>2, <2>3, <2>4
<1>p. ASSUME NEW f \in Folders, req[r].path # <<>>, ~At(r, "idle"),
             Is(r, "create") \/ Is(r, "ensure"), At(r, "insert") \/ At(r, "find"),
             req' = [req EXCEPT ![r] = NextSegment(@, f)]
      PROVE  ReqInv' /\ \A q \in Requests \ {r} : req'[q] = req[q]
  <2> DEFINE s == req[r].path
  <2>0. s \in Seq(Names) /\ s # <<>>
    BY <1>1, <1>p DEF ReqType
  <2>1. /\ Len(s) \in Nat \ {0} /\ Tail(s) \in Seq(Names) /\ Len(Tail(s)) = Len(s) - 1
        /\ Len(s) # 1 => Tail(s) # <<>>
    BY <2>0, TailOfPath
  <2>2. Len(s) =< 1 => Len(s) = 1 /\ Len(Tail(s)) =< 1
    BY <2>1
  <2>3. /\ req'[r] = NextSegment(req[r], f)
        /\ req' = [req EXCEPT ![r] = req'[r]]
    BY <1>1, <1>p
  <2>4. req'[r] = [req[r] EXCEPT !.cursor = f, !.path = Tail(s),
                                 !.at = IF Len(s) = 1 THEN "end" ELSE "find"]
    BY <2>3 DEF NextSegment
  <2> HIDE DEF s
  <2>5. req'[r] \in ReqType
    BY <1>1, <2>1, <2>4, ZenonT(30) DEF ReqType, Labels
  <2>6. Visits(r)'
    BY <1>1, <1>p, <2>1, <2>2, <2>4, ZenonT(30) DEF ReqType, Visits, s
  <2> QED BY <1>a, <2>3, <2>5, <2>6
<1>3. CASE CheckName(r)
  BY <1>1, <1>3, <1>b DEF CheckName, Visits, Labels
<1>4. CASE FindSegment(r)
  <2>1. CASE Goes(r, "insert")
    <3>1. req'[r] = [req[r] EXCEPT !.at = "insert"] /\ req' = [req EXCEPT ![r] = req'[r]]
      BY <1>1, <2>1
    <3>2. req'[r] \in ReqType
      BY <1>1, <3>1 DEF ReqType, Labels
    <3>3. Visits(r)'
      BY <1>1, <1>4, <3>1 DEF FindSegment, ReqType, Visits
    <3> QED BY <1>a, <3>1, <3>2, <3>3
  <2>2. ASSUME NEW f \in Folders,
               req' = [req EXCEPT ![r] = NextSegment(@, f)]
        PROVE  ReqInv' /\ \A q \in Requests \ {r} : req'[q] = req[q]
    BY <1>1, <1>4, <2>2, <1>p DEF FindSegment, Visits
  <2> QED BY <1>4, <2>1, <2>2 DEF FindSegment
<1>5. CASE InsertFolder(r)
  <2>1. PICK f \in Folders :
          req' = [req EXCEPT ![r] = NextSegment(@, f)]
    BY <1>5 DEF InsertFolder
  <2> QED BY <1>1, <1>5, <2>1, <1>p DEF InsertFolder, Visits
<1>6. CASE InsertRefused(r) \/ UpdateFolder(r) \/ Sweep(r) \/ DropFolder(r) \/ PutFile(r)
  BY <1>6, <1>b DEF InsertRefused, UpdateFolder, Sweep, DropFolder, PutFile, Labels
<1>7. CASE Climb(r)
  <2> DEFINE c == req[r].cursor
  <2>1. c \in Folders /\ req[r].op.kind \in {"move", "list"} /\ o \in Operations /\ At(r, "climb")
    BY <1>1, <1>2, <1>7 DEF Climb, Visits
  <2>2. ASSUME NEW l \in {"end", "walk"}, Goes(r, l), l = "walk" => ~Is(r, "move")
        PROVE  ReqInv' /\ \A q \in Requests \ {r} : req'[q] = req[q]
    <3>1. req'[r] = [req[r] EXCEPT !.at = l] /\ req' = [req EXCEPT ![r] = req'[r]]
      BY <1>1, <2>2
    <3>2. req'[r] \in ReqType
      BY <1>1, <2>2, <3>1 DEF ReqType, Labels
    <3>3. Visits(r)'
      BY <1>1, <2>1, <2>2, <3>1 DEF ReqType, Visits
    <3> QED BY <1>a, <3>1, <3>2, <3>3
  <2>3. CASE FolderExists(c) /\ ~(Is(r, "move") /\ c = o.folder)
    <3>1. PICK l \in {"climb", "walk", "name"} :
            /\ req'[r] = [req[r] EXCEPT !.depth = req[r].depth + 1, !.cursor = parent[c], !.at = l]
            /\ req' = [req EXCEPT ![r] = req'[r]]
            /\ l = "climb" => parent[c] # Root
            /\ l = "walk" => Is(r, "list")
            /\ l = "name" => ~Is(r, "list")
      <4> DEFINE l == IF parent[c] # Root /\ req[r].depth + 1 < WalkLimit THEN "climb"
                      ELSE IF Is(r, "list") THEN "walk" ELSE "name"
      <4>1. l \in {"climb", "walk", "name"} /\ (l = "climb" => parent[c] # Root)
            /\ (l = "walk" => Is(r, "list")) /\ (l = "name" => ~Is(r, "list"))
        OBVIOUS
      <4>2. req' = [req EXCEPT ![r] = [req[r] EXCEPT !.depth = req[r].depth + 1,
                                                     !.cursor = parent[c], !.at = l]]
        BY <1>7, <2>3 DEF Climb
      <4>3. /\ req'[r] = [req[r] EXCEPT !.depth = req[r].depth + 1, !.cursor = parent[c], !.at = l]
            /\ req' = [req EXCEPT ![r] = req'[r]]
        BY <1>1, <4>2
      <4> HIDE DEF l
      <4> QED BY <4>1, <4>3
    <3>2. parent[c] \in Folders \union {Root}
      BY <2>1, <2>3 DEF FolderExists, NoRow, RowInv, RowTypes, NotFolders
    <3>3. req'[r] \in ReqType
      <4>1. req[r].depth + 1 \in Nat
        BY <1>1 DEF ReqType
      <4>2. parent[c] \in Folders \union NotFolders /\ l \in Labels
        BY <3>2 DEF NotFolders, Labels
      <4> HIDE DEF c
      <4> QED BY <1>1, <3>1, <4>1, <4>2 DEF ReqType
    <3>4. req[r].path # <<>> \/ Is(r, "list")
      BY <1>1, <2>1 DEF Visits
    <3>5. Visits(r)'
      BY <1>1, <2>1, <3>1, <3>2, <3>4 DEF ReqType, Visits
    <3> QED BY <1>a, <3>1, <3>3, <3>5
  <2> QED BY <1>7, <2>1, <2>2, <2>3 DEF Climb
<1>8. CASE Walk(r)
  <2> DEFINE children == {f \in Folders : parent[f] \in req[r].frontier}
  <2>1. req[r].op.kind \in {"list", "delete", "ifEmpty", "zip"} /\ At(r, "walk")
    BY <1>1, <1>8 DEF Walk, Visits
  <2>2. PICK l \in {"gather", "collect", "count", "end", "walk"} :
          /\ req'[r] = [req[r] EXCEPT !.seen = req[r].seen \union children,
                                      !.frontier = children, !.at = l]
          /\ req' = [req EXCEPT ![r] = req'[r]]
          /\ l = "gather" => Is(r, "delete")
          /\ l = "collect" => Is(r, "zip")
          /\ l = "count" => Is(r, "ifEmpty")
    <3> DEFINE after == CASE Is(r, "delete") -> "gather" [] Is(r, "zip") -> "collect"
                          [] Is(r, "ifEmpty") -> "count" [] OTHER -> "end"
               l == IF children = {} THEN after ELSE "walk"
    <3>1. /\ l \in {"gather", "collect", "count", "end", "walk"}
               /\ (l = "gather" => Is(r, "delete"))
          /\ (l = "collect" => Is(r, "zip")) /\ (l = "count" => Is(r, "ifEmpty"))
      BY <2>1
    <3>2. req' = [req EXCEPT ![r] = [req[r] EXCEPT !.seen = req[r].seen \union children,
                                                   !.frontier = children, !.at = l]]
      BY <1>8 DEF Walk
    <3> HIDE DEF l
    <3> QED BY <1>1, <3>1, <3>2
  <2>3. children \subseteq Folders
    OBVIOUS
  <2> HIDE DEF children
  <2>4. req'[r] \in ReqType
    BY <1>1, <2>2, <2>3, ZenonT(30) DEF ReqType, Labels
  <2>5. Visits(r)'
    BY <1>1, <2>1, <2>2, <2>3 DEF ReqType, Visits
  <2> QED BY <1>a, <2>2, <2>4, <2>5
<1>9. CASE Gather(r)
  <2> DEFINE S == {x \in FilesIn(req[r].seen) : status[x] # "UPLOADING"}
  <2>1. S \subseteq Files /\ req' = [req EXCEPT ![r] = [req[r] EXCEPT !.at = "batch", !.files = S]]
    BY <1>9 DEF Gather, FilesIn
  <2> HIDE DEF S
  <2>2. /\ req'[r] = [req[r] EXCEPT !.at = "batch", !.files = S] /\ At(r, "gather")
        /\ req' = [req EXCEPT ![r] = req'[r]]
    BY <1>1, <1>9, <2>1 DEF Gather
  <2>3. req'[r] \in ReqType
    BY <1>1, <2>1, <2>2 DEF ReqType, Labels
  <2>4. Visits(r)'
    BY <1>1, <2>2 DEF ReqType, Visits
  <2> QED BY <1>a, <2>2, <2>3, <2>4
<1>10. CASE ReadBatch(r)
  <2>1. At(r, "batch") /\ Is(r, "delete")
    BY <1>1, <1>10 DEF ReadBatch, Visits
  <2>2. ASSUME NEW b \in SUBSET FilesIn(req[r].seen),
               req' = [req EXCEPT ![r] = [req[r] EXCEPT !.frontier = b, !.at = "rows"]]
        PROVE  ReqInv' /\ \A q \in Requests \ {r} : req'[q] = req[q]
    <3>1. b \subseteq Files
      BY DEF FilesIn
    <3>2. /\ req'[r] = [req[r] EXCEPT !.frontier = b, !.at = "rows"]
          /\ req' = [req EXCEPT ![r] = req'[r]]
      BY <1>1, <2>2
    <3>3. req'[r] \in ReqType
      BY <1>1, <3>1, <3>2 DEF ReqType, Labels
    <3>4. Visits(r)'
      BY <1>1, <2>1, <3>1, <3>2 DEF ReqType, Visits
    <3> QED BY <1>a, <3>2, <3>3, <3>4
  <2>3. ASSUME Goes(r, "tree") PROVE ReqInv' /\ \A q \in Requests \ {r} : req'[q] = req[q]
    BY <1>b, <2>1, <2>3 DEF Labels
  <2> QED BY <1>10, <2>2, <2>3 DEF ReadBatch
<1>11. CASE DeleteBatch(r) \/ DeleteTree(r) \/ CountFiles(r) \/ DeleteFile(r)
  BY <1>1, <1>11, <1>b DEF DeleteBatch, DeleteTree, CountFiles, DeleteFile, Labels, Visits
<1>12. CASE Collect(r)
  <2> DEFINE S == {x \in FilesIn(req[r].seen) : status[x] = "READY"}
  <2>1. S \subseteq Files /\ req' = [req EXCEPT ![r] = [req[r] EXCEPT !.at = "end", !.files = S]]
    BY <1>12 DEF Collect, FilesIn
  <2> HIDE DEF S
  <2>2. /\ req'[r] = [req[r] EXCEPT !.at = "end", !.files = S] /\ At(r, "collect")
        /\ req' = [req EXCEPT ![r] = req'[r]]
    BY <1>1, <1>12, <2>1 DEF Collect
  <2>3. req'[r] \in ReqType
    BY <1>1, <2>1, <2>2 DEF ReqType, Labels
  <2>4. Visits(r)'
    BY <1>1, <2>2 DEF ReqType, Visits
  <2> QED BY <1>a, <2>2, <2>3, <2>4
<1>13. ASSUME NEW op \in Operations, Begin(r, op)
       PROVE  ReqInv' /\ \A q \in Requests \ {r} : req'[q] = req[q]
  <2> DEFINE path == IF op.kind = "move" THEN <<name[op.folder]>> ELSE op.path
             cursor == IF op.kind = "list" THEN op.folder
                       ELSE IF op.kind = "rename" THEN parent[op.folder] ELSE op.to
             files == IF op.kind = "deleteFile" /\ status[op.file] # "UPLOADING"
                      THEN {op.file} ELSE {}
             l == FirstStep(op)
  <2>1. req' = [req EXCEPT ![r] = [op |-> op, at |-> l, cursor |-> cursor, depth |-> 0,
                                   path |-> path, seen |-> {op.folder},
                                   frontier |-> {op.folder}, files |-> files]]
    BY <1>13 DEF Begin
  <2>2. path \in Seq(Names)
    <3>1. op.kind = "move" => name[op.folder] \in Names
      BY OpTypes DEF OnFolder, Named
    <3>2. op.kind = "move" => <<name[op.folder]>> \in Seq(Names)
      BY <3>1
    <3> QED BY <3>2, OpTypes
  <2>3. cursor \in Folders \union NotFolders
    BY OpTypes DEF OnFolder, RowInv, RowTypes, NotFolders
  <2>4. files \subseteq Files
    BY OpTypes DEF OnFile
  <2>5. /\ l \in {"name", "find", "climb", "walk", "put", "unlink", "end"}
        /\ l = "climb" => op.kind \in {"move", "list"} /\ cursor \in Folders
        /\ l = "walk" => op.kind \in {"list", "delete", "ifEmpty", "zip"}
        /\ l = "find" => op.kind = "ensure"
        /\ l = "name" => op.kind \in {"create", "rename", "move"}
        /\ l = "unlink" => op.kind = "deleteFile"
        /\ l = "put" => op.kind \in {"moveFile", "upload"}
    BY OpTypes DEF FirstStep, OnFolder, OnFile
  <2>6. /\ op.kind \in {"create", "ensure"} => cursor \in Folders \union {Root}
        /\ op.kind \in {"create", "ensure", "rename", "move"} => path # <<>>
        /\ op.kind = "create" => Len(path) =< 1
    <3>1. op.kind = "create" => cursor = op.to /\ path = op.path /\ Len(path) =< 1
      <4>1. op.kind = "create" => Len(op.path) = 1
        BY OpTypes
      <4>2. op.kind = "create" => cursor = op.to /\ path = op.path
        OBVIOUS
      <4> HIDE DEF path, cursor
      <4> QED BY <4>1, <4>2
    <3>2. op.kind = "ensure" => cursor = op.to /\ path = op.path
      OBVIOUS
    <3>3. op.kind = "rename" => path = op.path
      OBVIOUS
    <3>4. op.kind = "move" => path # <<>>
      OBVIOUS
    <3> HIDE DEF path, cursor
    <3> QED BY <3>1, <3>2, <3>3, <3>4, OpTypes
  <2> HIDE DEF path, cursor, files, l
  <2>7. /\ req'[r] = [op |-> op, at |-> l, cursor |-> cursor, depth |-> 0, path |-> path,
                      seen |-> {op.folder}, frontier |-> {op.folder}, files |-> files]
        /\ req' = [req EXCEPT ![r] = req'[r]]
    BY <1>1, <2>1
  <2>8. op.folder \in Folders \union {Root} /\ (op.kind \in OnFolder => op.folder \in Folders)
          /\ op # NoOp
    BY OpTypes
  <2>9. req'[r] \in ReqType
    BY <2>2, <2>3, <2>4, <2>5, <2>7, <2>8 DEF ReqType, Labels
  <2>10. Visits(r)'
    <3>1. op.kind = "move" => r \in Movers
      BY <1>13 DEF Begin
    <3> QED BY <2>5, <2>6, <2>7, <2>8, <3>1 DEF Visits
  <2> QED BY <1>a, <2>7, <2>9, <2>10
<1> QED BY <1>3, <1>4, <1>5, <1>6, <1>7, <1>8, <1>9, <1>10, <1>11, <1>12, <1>13 DEF Step

LEMMA NameStays == Named /\ ReqInv /\ [DriveNext]_driveVars => Named'
<1> SUFFICES ASSUME Named, ReqInv, [DriveNext]_driveVars PROVE Named'
  OBVIOUS
<1>1. ASSUME NEW r \in Requests, NEW f, NEW n \in Names, name' = [name EXCEPT ![f] = n] PROVE Named'
  BY <1>1 DEF Named
<1>2. \A r \in Requests : Visits(r) /\ req[r].path \in Seq(Names)
  BY DEF ReqInv, ReqType
<1>3. \A s \in Seq(Names) : s # <<>> => Head(s) \in Names
  OBVIOUS
<1>4. ASSUME NEW r \in Requests, InsertFolder(r) PROVE Named'
  <2>1. PICK f \in Folders : name' = [name EXCEPT ![f] = Head(req[r].path)]
    BY <1>4 DEF InsertFolder
  <2>2. req[r].path # <<>>
    BY <1>2, <1>4 DEF InsertFolder, Visits, At
  <2> QED BY <1>1, <1>2, <1>3, <2>1, <2>2
<1>5. ASSUME NEW r \in Requests, UpdateFolder(r) PROVE Named'
  <2> DEFINE f == req[r].op.folder
             n == IF Is(r, "rename") THEN NewName(r) ELSE name[f]
  <2>1. req[r].path # <<>>
    BY <1>2, <1>5 DEF UpdateFolder, Visits, At
  <2>2. CASE name' = [name EXCEPT ![f] = n] /\ FolderExists(f)
    <3>1. n \in Names
      BY <1>2, <1>3, <2>1, <2>2 DEF NewName, Named, FolderExists
    <3> QED BY <1>1, <2>2, <3>1
  <2>3. CASE name' = name
    BY <2>3 DEF Named
  <2> QED BY <1>5, <2>2, <2>3 DEF UpdateFolder
<1> QED
  BY <1>4, <1>5, ZenonT(30)
     DEF Named, DriveNext, Step, Begin, UploadFinishes, CheckName, FindSegment, InsertRefused,
          Climb,
         Walk, Gather, ReadBatch, DeleteBatch, DeleteTree, Cascade, Sweep, CountFiles, DropFolder,
         Collect, PutFile, DeleteFile, DriveKept, TreeKept, driveVars

-----------------------------------------------------------------------------
(***************************************************************************)
(* What a request knows: the inductive invariant, of a request w.          *)
(***************************************************************************)

\* The folders seen: each is below the folder asked for, as far as untouched
\* files can tell, and no such file is below them but in them.
Searching(w) == w.op.kind \in {"delete", "ifEmpty", "zip"} /\ w.at # "end"
Searched(w) ==
  Searching(w) =>
    /\ w.seen \subseteq Folders /\ w.op.folder \in w.seen
    /\ w.at = "walk" => w.frontier \subseteq w.seen
    /\ \A g \in w.seen : Fresh({g}) \subseteq Fresh({w.op.folder})
    /\ \A g \in Folders \ w.seen :
         parent[g] \in w.seen /\ ~(w.at = "walk" /\ parent[g] \in w.frontier) => Fresh({g}) = {}

Ready(x) == x \in Files \ stirred /\ status[x] = "READY"

\* A deletion has noted the stored files of the folders it has seen, removes
\* no others, and has removed them all before it sweeps.
Noted(w) ==
  w.op.kind = "delete" =>
    /\ w.at # "end" => \A g \in w.seen : parent[g] # Unborn
    /\ w.at \in {"batch", "rows", "tree"} =>
         \A x \in Files : Ready(x) /\ place[x] \in w.seen => x \in w.files
    /\ w.at = "rows" =>
         \A x \in w.frontier : x \in Files \ stirred /\ FileExists(x) => place[x] \in w.seen
    /\ w.at \in {"batch", "rows", "tree", "sweep"} =>
         \A x \in w.files : /\ place[x] # Unborn
                            /\ FileExists(x) /\ x \notin stirred => place[x] \in w.seen
    /\ w.at = "sweep" => \A g \in w.seen : parent[g] = Gone

\* The deletion of one file has noted it.
NotedOne(w) ==
  w.op.kind = "deleteFile" /\ w.at # "end" =>
    /\ w.files \subseteq {w.op.file} /\ place[w.op.file] # Unborn
    /\ w.at = "unlink" /\ Ready(w.op.file) => w.op.file \in w.files
    /\ w.at = "sweep" => place[w.op.file] = Gone

\* A cleanup that goes on has found no stored file.
FoundEmpty(w) ==
  w.op.kind = "ifEmpty" /\ w.at = "drop" => \A x \in Files : Ready(x) => place[x] \notin w.seen

\* A zip that is made has the stored files.
Zipped(w) ==
  w.op.kind = "zip" /\ w.at = "end" =>
    \A x \in Fresh({w.op.folder}) : status[x] = "READY" => x \in w.files

Knows(w) == Searched(w) /\ Noted(w) /\ NotedOne(w) /\ FoundEmpty(w) /\ Zipped(w)

\* Whatever the others do, a request still knows it.
LEMMA KnowsStays ==
  ASSUME RowInv, RowInv', Others, NEW w \in ReqType, w.op \in Operations, Knows(w)
  PROVE  Knows(w)'
<1>1. \A x \in Files : Ready(x)' => Ready(x)
  BY DEF Ready, Others
<1>2. ASSUME NEW x \in Files \ stirred', FileExists(x)'
      PROVE  place'[x] = place[x] /\ FileExists(x) /\ x \notin stirred
  BY <1>2, ForestAssumption DEF Others, FileExists, NoRow
<1>3. Searched(w)'
  <2> SUFFICES ASSUME Searching(w) PROVE Searched(w)'
    BY DEF Searched, Searching
  <2>1. w.seen \subseteq Folders /\ w.op.folder \in w.seen
          /\ (w.at = "walk" => w.frontier \subseteq w.seen)
    BY DEF Knows, Searched
  <2>2. ASSUME NEW g \in w.seen PROVE Fresh({g})' \subseteq Fresh({w.op.folder})'
    <3>1. {g} \in SUBSET Folders /\ {w.op.folder} \in SUBSET Folders
      BY <2>1
    <3>2. ASSUME NEW x \in Fresh({g})' PROVE x \in Fresh({w.op.folder})'
      <4>1. x \in Files \ stirred' /\ FileExists(x)'
        BY <3>1, <3>2, UnderIsIn, UnderFacts, ForestAssumption
           DEF Fresh, FilesIn, FileExists, NoRow, NotFolders
      <4>2. x \in Fresh({g})
        BY <3>1, <3>2 DEF Others
      <4>3. x \in Fresh({w.op.folder})
        BY <4>2 DEF Knows, Searched
      <4> QED BY <3>1, <4>1, <4>3 DEF Others
    <3> QED BY <3>2
  <2>3. ASSUME NEW g \in Folders \ w.seen, parent'[g] \in w.seen,
               ~(w.at = "walk" /\ parent'[g] \in w.frontier)
        PROVE  Fresh({g})' = {}
    <3>1. CASE parent'[g] # parent[g]
      BY <2>1, <2>3, <3>1 DEF Others
    <3>2. CASE parent'[g] = parent[g]
      <4>1. Fresh({g}) = {}
        BY <2>3, <3>2 DEF Knows, Searched
      <4> QED BY <4>1 DEF Others
    <3> QED BY <3>1, <3>2
  <2> QED BY <2>1, <2>2, <2>3 DEF Searched
<1>4. Noted(w)'
  <2> SUFFICES ASSUME w.op.kind = "delete" PROVE Noted(w)'
    BY DEF Noted
  <2>1. w.op.folder \in Folders /\ (w.at # "end" => w.seen \subseteq Folders)
          /\ w.files \subseteq Files
    BY OpTypes DEF Knows, Searched, Searching, OnFolder, ReqType
  <2>2. w.at # "end" => \A g \in w.seen : parent'[g] # Unborn
    BY <2>1 DEF Knows, Noted, Others
  <2>3. ASSUME w.at \in {"batch", "rows", "tree"}, NEW x \in Files, Ready(x)', place'[x] \in w.seen
        PROVE  x \in w.files
    <3>1. FileExists(x)'
      BY <2>1, <2>3, ForestAssumption DEF FileExists, NoRow, NotFolders
    <3> QED BY <1>1, <1>2, <2>3, <3>1 DEF Knows, Noted, Ready
  <2>4. ASSUME w.at = "rows", NEW x \in w.frontier, x \in Files \ stirred', FileExists(x)'
        PROVE  place'[x] \in w.seen
    BY <1>2, <2>4 DEF Knows, Noted
  <2>5. ASSUME w.at \in {"batch", "rows", "tree", "sweep"}, NEW x \in w.files
        PROVE  place'[x] # Unborn /\ (FileExists(x)' /\ x \notin stirred' => place'[x] \in w.seen)
    BY <1>2, <2>1, <2>5 DEF Knows, Noted, Others
  <2>6. w.at = "sweep" => \A g \in w.seen : parent'[g] = Gone
    BY <2>1 DEF Knows, Noted, Others
  <2> QED BY <2>2, <2>3, <2>4, <2>5, <2>6 DEF Noted
<1>5. NotedOne(w)'
  <2>1. w.op.kind = "deleteFile" => w.op.file \in Files
    BY OpTypes DEF OnFile
  <2> QED BY <1>1, <2>1 DEF Knows, NotedOne, Others
<1>6. FoundEmpty(w)'
  <2> SUFFICES ASSUME w.op.kind = "ifEmpty", w.at = "drop", NEW x \in Files, Ready(x)',
                      place'[x] \in w.seen
               PROVE  FALSE
    BY DEF FoundEmpty
  <2>1. w.seen \subseteq Folders
    BY DEF Knows, Searched, Searching
  <2>2. FileExists(x)'
    BY <2>1, ForestAssumption DEF FileExists, NoRow, NotFolders
  <2> QED BY <1>1, <1>2, <2>2 DEF Knows, FoundEmpty, Ready
<1>7. Zipped(w)'
  <2> SUFFICES ASSUME w.op.kind = "zip", w.at = "end", NEW x \in Fresh({w.op.folder})',
                      status'[x] = "READY"
               PROVE  x \in w.files
    BY DEF Zipped
  <2>1. {w.op.folder} \in SUBSET Folders
    BY OpTypes DEF OnFolder
  <2>2. x \in Fresh({w.op.folder}) /\ x \in Files \ stirred'
    BY <2>1 DEF Others, Fresh, FilesIn
  <2> QED BY <2>2 DEF Knows, Zipped, Others
<1> QED BY <1>3, <1>4, <1>5, <1>6, <1>7 DEF Knows

\* What is below the folder asked for lies in the folders seen, once the walk
\* is over, and so does what is below any of them.
LEMMA SeenAll ==
  ASSUME RowInv, NEW w, Searching(w), Searched(w), w.at # "walk"
  PROVE  /\ \A x \in Fresh(w.seen) : place[x] \in w.seen
         /\ \A x \in Fresh({w.op.folder}) : place[x] \in w.seen
<1> DEFINE D == {g \in Folders \ w.seen : parent[g] \in w.seen}
           T == w.seen \union {f \in Folders : \E g \in D : f \in Under({g})}
<1>1. w.seen \subseteq Folders /\ w.op.folder \in w.seen /\ \A g \in D : Fresh({g}) = {}
  BY DEF Searched
<1>2. \A g \in Folders : /\ g \in Under({g}) /\ Under({g}) \subseteq Folders
                         /\ \A f \in Folders : parent[f] \in Under({g}) => f \in Under({g})
  BY UnderIsIn, UnderFacts DEF ClosedIn
<1>3. T \in SUBSET Folders /\ w.seen \subseteq T
  BY <1>1
<1>4. \A f \in Folders : parent[f] \in T => f \in T
  BY <1>2
<1>5. Under(w.seen) \subseteq T
  <2> HIDE DEF T
  <2> QED BY <1>1, <1>3, <1>4, UnderIsIn, UnderFacts DEF ClosedIn
<1>6. \A x \in Fresh(w.seen) : place[x] \in w.seen
  BY <1>1, <1>5 DEF Fresh, FilesIn
<1>7. Under({w.op.folder}) \subseteq Under(w.seen)
  BY <1>1, UnderIsIn, UnderFacts, UnderMonotone
<1> QED BY <1>6, <1>7 DEF Fresh, FilesIn

\* A step of a request teaches it what it knows after.
LEMMA KnowsMore ==
  ASSUME RowInv, RowInv', ReqInv, ReqInv', Others, NEW r \in Requests, Knows(req[r]),
         Step(r) \/ \E o \in Operations : Begin(r, o)
  PROVE  Knows(req[r])'
<1> DEFINE w == req[r]
           v == req'[r]
<1>1. Visits(r) /\ w \in ReqType /\ v \in ReqType /\ req \in [Requests -> ReqType]
  BY DEF ReqInv
<1>2. ~At(r, "idle") => w.op \in Operations
  BY <1>1 DEF Visits
<1>a. ASSUME Knows(v), v.op \in Operations PROVE Knows(req[r])'
  BY <1>a, <1>1, KnowsStays
<1> USE DEF At, Is
<1>b. ASSUME v.op \in Operations, ~(v.op.kind \in {"delete", "ifEmpty", "zip", "deleteFile"})
      PROVE  Knows(req[r])'
  <2>1. Knows(v)
    BY <1>b DEF Knows, Searched, Searching, Noted, NotedOne, FoundEmpty, Zipped
  <2> QED BY <1>a, <1>b, <2>1
<1>c. ASSUME v.op \in Operations, v.at = "end", v.op.kind # "zip" PROVE Knows(req[r])'
  <2>1. Knows(v)
    BY <1>c DEF Knows, Searched, Searching, Noted, NotedOne, FoundEmpty, Zipped
  <2> QED BY <1>a, <1>c, <2>1
<1>d. ASSUME NEW l, Goes(r, l) PROVE v = [w EXCEPT !.at = l] /\ v.op = w.op
  <2>1. v = [w EXCEPT !.at = l]
    BY <1>1, <1>d DEF Goes
  <2> QED BY <1>1, <2>1 DEF ReqType
<1>3. CASE CheckName(r) \/ FindSegment(r) \/ InsertFolder(r) \/ InsertRefused(r) \/ Climb(r)
           \/ UpdateFolder(r) \/ PutFile(r)
  <2>1. w.op \in Operations /\ ~(w.op.kind \in {"delete", "ifEmpty", "zip", "deleteFile"})
    BY <1>1, <1>2, <1>3
       DEF Visits, CheckName, FindSegment, InsertFolder, InsertRefused, Climb, UpdateFolder, PutFile
  <2>2. v.op = w.op
    BY <1>3, OpKept DEF Step
  <2> QED BY <1>b, <2>1, <2>2
<1>4. CASE Walk(r)
  <2> DEFINE children == {f \in Folders : parent[f] \in w.frontier}
             kinds == {"delete", "ifEmpty", "zip"}
  <2>1. w.op \in Operations /\ w.op.kind \in kinds \union {"list"} /\ w.at = "walk"
    BY <1>1, <1>2, <1>4 DEF Walk, Visits
  <2>2. PICK l \in {"gather", "collect", "count", "end", "walk"} :
          /\ v = [w EXCEPT !.seen = w.seen \union children, !.frontier = children, !.at = l]
          /\ l = "walk" \/ children = {}
          /\ w.op.kind \in kinds => l # "end"
    <3> DEFINE after == CASE Is(r, "delete") -> "gather" [] Is(r, "zip") -> "collect"
                          [] Is(r, "ifEmpty") -> "count" [] OTHER -> "end"
               l == IF children = {} THEN after ELSE "walk"
    <3>1. /\ l \in {"gather", "collect", "count", "end", "walk"}
          /\ l = "walk" \/ children = {}
          /\ w.op.kind \in kinds => l # "end"
      BY <2>1
    <3>2. req' = [req EXCEPT ![r] = [req[r] EXCEPT !.seen = req[r].seen \union children,
                                                   !.frontier = children, !.at = l]]
      BY <1>4 DEF Walk
    <3> HIDE DEF l
    <3> QED BY <1>1, <3>1, <3>2
  <2>3. /\ v.op = w.op /\ v.seen = w.seen \union children /\ v.frontier = children /\ v.at = l
    BY <1>1, <2>2 DEF ReqType
  <2>4. CASE w.op.kind \in kinds
    <3>1. /\ w.seen \subseteq Folders /\ w.op.folder \in w.seen /\ w.frontier \subseteq w.seen
          /\ \A g \in w.seen : Fresh({g}) \subseteq Fresh({w.op.folder})
          /\ \A g \in Folders \ w.seen :
               parent[g] \in w.seen /\ ~(parent[g] \in w.frontier) => Fresh({g}) = {}
      BY <2>1, <2>4 DEF Knows, Searched, Searching
    <3>2. children \subseteq Folders /\ \A g \in children : parent[g] \in w.seen
      BY <3>1
    <3>3. ASSUME NEW g \in children PROVE Fresh({g}) \subseteq Fresh({w.op.folder})
      <4>1. parent[g] \in Folders /\ parent[g] \in w.seen
        BY <3>1, <3>2
      <4>2. {g} \subseteq Under({parent[g]})
        BY <4>1, UnderIsIn, UnderFacts DEF ClosedIn
      <4>3. Under({g}) \subseteq Under({parent[g]})
        BY <4>1, <4>2, UnderIsIn, UnderMonotone
      <4>4. Fresh({g}) \subseteq Fresh({parent[g]})
        BY <4>3 DEF Fresh, FilesIn
      <4> QED BY <3>1, <4>1, <4>4
    <3>4. ASSUME NEW g \in Folders \ v.seen, parent[g] \in v.seen,
                 ~(v.at = "walk" /\ parent[g] \in v.frontier)
          PROVE  Fresh({g}) = {}
      <4>1. parent[g] \in w.seen
        BY <2>2, <2>3, <3>4
      <4>2. parent[g] \notin w.frontier
        BY <2>3, <3>4
      <4> QED BY <2>3, <3>1, <3>4, <4>1, <4>2
    <3>5. Searched(v)
      BY <2>3, <3>1, <3>2, <3>3, <3>4 DEF Searched
    <3>6. \A g \in children : parent[g] # Unborn
      BY <3>1, <3>2, ForestAssumption DEF NotFolders
    <3>7. Noted(v)
      <4> SUFFICES ASSUME w.op.kind = "delete" PROVE Noted(v)
        BY <2>3 DEF Noted
      <4>1. l \in {"walk", "gather", "collect", "count"} /\ \A g \in w.seen : parent[g] # Unborn
        BY <2>1, <2>2 DEF Knows, Noted
      <4> QED BY <2>3, <3>6, <4>1 DEF Noted
    <3>8. NotedOne(v) /\ FoundEmpty(v) /\ Zipped(v)
      BY <2>2, <2>3, <2>4 DEF NotedOne, FoundEmpty, Zipped
    <3> QED BY <1>a, <2>1, <2>3, <3>5, <3>7, <3>8 DEF Knows
  <2>5. CASE w.op.kind = "list"
    BY <1>b, <2>1, <2>3, <2>5
  <2> QED BY <2>1, <2>4, <2>5
<1>5. CASE Gather(r)
  <2> DEFINE S == {x \in FilesIn(w.seen) : status[x] # "UPLOADING"}
  <2>1. v = [w EXCEPT !.at = "batch", !.files = S] /\ w.at = "gather"
    BY <1>1, <1>5 DEF Gather
  <2>2. w.op.kind = "delete" /\ w.op \in Operations
    BY <1>1, <1>2, <2>1 DEF Visits
  <2>3. w.seen \subseteq Folders
    BY <2>1, <2>2 DEF Knows, Searched, Searching
  <2>4. \A x \in Files : Ready(x) /\ place[x] \in w.seen => x \in S
    BY DEF Ready, FilesIn
  <2>5. \A x \in S : place[x] # Unborn /\ place[x] \in w.seen
    BY <2>3, ForestAssumption DEF FilesIn, NotFolders
  <2> HIDE DEF S
  <2>6. Searched(v)
    BY <2>1, <2>2 DEF Knows, Searched, Searching
  <2>7. Noted(v)
    BY <2>1, <2>2, <2>4, <2>5 DEF Knows, Noted
  <2>8. NotedOne(v) /\ FoundEmpty(v) /\ Zipped(v)
    BY <2>1, <2>2 DEF NotedOne, FoundEmpty, Zipped
  <2> QED BY <1>a, <2>1, <2>2, <2>6, <2>7, <2>8 DEF Knows
<1>6. CASE ReadBatch(r)
  <2>1. w.op.kind = "delete" /\ w.op \in Operations /\ w.at = "batch"
    BY <1>1, <1>2, <1>6 DEF ReadBatch, Visits
  <2>2. CASE Goes(r, "tree")
    <3>1. v = [w EXCEPT !.at = "tree"]
      BY <1>d, <2>2
    <3>2. Knows(v)
      BY <2>1, <3>1, SMTT(30) DEF Knows, Searched, Searching, Noted, NotedOne, FoundEmpty, Zipped
    <3> QED BY <1>a, <2>1, <3>1, <3>2
  <2>3. ASSUME NEW b \in SUBSET FilesIn(w.seen),
               req' = [req EXCEPT ![r] = [req[r] EXCEPT !.frontier = b, !.at = "rows"]]
        PROVE  Knows(req[r])'
    <3>1. v = [w EXCEPT !.frontier = b, !.at = "rows"]
      BY <1>1, <2>3
    <3>2. \A x \in b : place[x] \in w.seen
      BY DEF FilesIn
    <3>3. Searched(v) /\ NotedOne(v) /\ FoundEmpty(v) /\ Zipped(v)
      BY <2>1, <3>1, SMTT(30) DEF Knows, Searched, Searching, NotedOne, FoundEmpty, Zipped
    <3>4. Noted(v)
      BY <2>1, <3>1, <3>2 DEF Knows, Noted
    <3> QED BY <1>a, <2>1, <3>1, <3>3, <3>4 DEF Knows
  <2> QED BY <1>6, <2>2, <2>3 DEF ReadBatch
<1>7. CASE DeleteBatch(r)
  <2>1. v = [w EXCEPT !.at = "batch"] /\ w.at = "rows"
    BY <1>d, <1>7 DEF DeleteBatch
  <2>2. w.op.kind = "delete" /\ w.op \in Operations
    BY <1>1, <1>2, <2>1 DEF Visits
  <2>3. Knows(v)
    BY <2>1, <2>2, SMTT(30) DEF Knows, Searched, Searching, Noted, NotedOne, FoundEmpty, Zipped
  <2> QED BY <1>a, <2>1, <2>2, <2>3
<1>8. CASE DeleteTree(r)
  <2>1. v = [w EXCEPT !.at = "sweep"] /\ v.op = w.op /\ w.at = "tree"
    BY <1>d, <1>8 DEF DeleteTree
  <2>2. w.op.kind = "delete" /\ w.op \in Operations
    BY <1>1, <1>2, <2>1 DEF Visits
  <2>3. v.at = "sweep" /\ v.seen = w.seen /\ v.files = w.files /\ v.frontier = w.frontier
    BY <1>1, <2>1 DEF ReqType
  <2>4. w.seen \subseteq Folders /\ \A g \in w.seen : parent[g] # Unborn
    BY <2>1, <2>2 DEF Knows, Searched, Searching, Noted
  <2>5. \A g \in w.seen : parent'[g] = Gone
    <3>1. \A g \in w.seen : g \in Under(w.seen)
      BY <2>4, UnderIsIn, UnderFacts
    <3> QED BY <1>8, <2>4, <3>1 DEF DeleteTree, Cascade, FolderExists, NoRow
  <2>6. PICK u \in ReqType : /\ u.op = w.op /\ u.at = "batch"
                             /\ u.seen = w.seen /\ u.files = w.files
    <3>1. [w EXCEPT !.at = "batch"] \in ReqType
      BY <1>1 DEF ReqType, Labels
    <3>2. /\ [w EXCEPT !.at = "batch"].op = w.op /\ [w EXCEPT !.at = "batch"].at = "batch"
          /\ [w EXCEPT !.at = "batch"].seen = w.seen /\ [w EXCEPT !.at = "batch"].files = w.files
      BY <1>1 DEF ReqType
    <3> QED BY <3>1, <3>2
  <2>7. Knows(u)
    BY <2>1, <2>2, <2>6 DEF Knows, Searched, Searching, Noted, NotedOne, FoundEmpty, Zipped
  <2>8. Knows(u)'
    BY <2>2, <2>6, <2>7, KnowsStays
  <2>9. Knows(req[r])'
    BY <2>1, <2>2, <2>3, <2>5, <2>6, <2>8
       DEF Knows, Searched, Searching, Noted, NotedOne, FoundEmpty, Zipped
  <2> QED BY <2>9
<1>9. CASE Sweep(r) \/ DropFolder(r)
  <2>1. w.op \in Operations /\ w.op.kind # "zip"
    BY <1>1, <1>2, <1>9 DEF Visits, Sweep, DropFolder
  <2>2. v = [w EXCEPT !.at = "end"]
    BY <1>d, <1>9 DEF Sweep, DropFolder, Ends
  <2>3. v.op = w.op /\ v.at = "end"
    BY <1>1, <2>2 DEF ReqType
  <2> QED BY <1>c, <2>1, <2>3
<1>10. CASE CountFiles(r)
  <2>1. w.op.kind = "ifEmpty" /\ w.op \in Operations /\ w.at = "count"
    BY <1>1, <1>2, <1>10 DEF CountFiles, Visits
  <2>2. CASE Ends(r)
    <3>1. v = [w EXCEPT !.at = "end"]
      BY <1>d, <2>2 DEF Ends
    <3>2. v.op = w.op /\ v.at = "end"
      BY <1>1, <3>1 DEF ReqType
    <3> QED BY <1>c, <2>1, <3>2
  <2>3. CASE Goes(r, "drop") /\ ~\E x \in FilesIn(w.seen) : status[x] # "LOST"
    <3>1. v = [w EXCEPT !.at = "drop"]
      BY <1>d, <2>3
    <3>2. Searched(v) /\ Noted(v) /\ NotedOne(v) /\ Zipped(v)
      BY <2>1, <3>1 DEF Knows, Searched, Searching, Noted, NotedOne, Zipped
    <3>3. FoundEmpty(v)
      BY <2>1, <2>3, <3>1 DEF FoundEmpty, Ready, FilesIn
    <3> QED BY <1>a, <2>1, <3>1, <3>2, <3>3 DEF Knows
  <2> QED BY <1>10, <2>2, <2>3 DEF CountFiles
<1>11. CASE Collect(r)
  <2> DEFINE S == {x \in FilesIn(w.seen) : status[x] = "READY"}
  <2>1. v = [w EXCEPT !.at = "end", !.files = S] /\ w.at = "collect"
    BY <1>1, <1>11 DEF Collect
  <2>2. w.op.kind = "zip" /\ w.op \in Operations
    BY <1>1, <1>2, <2>1 DEF Visits
  <2>3. \A x \in Fresh({w.op.folder}) : place[x] \in w.seen
    BY <2>1, <2>2, SeenAll DEF Searching, Knows
  <2>4. \A x \in Fresh({w.op.folder}) : status[x] = "READY" => x \in S
    BY <2>3 DEF Fresh, FilesIn
  <2> HIDE DEF S
  <2>5. v.op = w.op /\ v.at = "end" /\ v.files = S
    BY <1>1, <2>1 DEF ReqType
  <2>6. Knows(v)
    BY <2>2, <2>4, <2>5 DEF Knows, Searched, Searching, Noted, NotedOne, FoundEmpty, Zipped
  <2> QED BY <1>a, <2>2, <2>5, <2>6
<1>12. CASE DeleteFile(r)
  <2>1. w.op.kind = "deleteFile" /\ w.op \in Operations /\ w.at = "unlink"
    BY <1>1, <1>2, <1>12 DEF DeleteFile, Visits
  <2>2. CASE Goes(r, "end")
    <3>1. v.op = w.op /\ v.at = "end"
      <4>1. v = [w EXCEPT !.at = "end"]
        BY <1>d, <2>2
      <4> QED BY <1>1, <4>1 DEF ReqType
    <3> QED BY <1>c, <2>1, <3>1
  <2>3. CASE Goes(r, "sweep") /\ FileExists(w.op.file)
    <3>1. v = [w EXCEPT !.at = "sweep"]
      BY <1>d, <2>3
    <3>2. v.op = w.op /\ v.at = "sweep" /\ v.files = w.files
      BY <1>1, <3>1 DEF ReqType
    <3>3. w.op.file \in Files
      BY <2>1, OpTypes DEF OnFile
    <3>4. place'[w.op.file] = Gone
      BY <1>12, <2>3, <3>3 DEF DeleteFile, DeleteRows
    <3>5. w.files \subseteq {w.op.file}
      BY <2>1 DEF Knows, NotedOne
    <3>6. Knows(req[r])'
      BY <2>1, <3>2, <3>4, <3>5, ForestAssumption
         DEF Knows, Searched, Searching, Noted, NotedOne, FoundEmpty, Zipped
    <3> QED BY <3>6
  <2> QED BY <1>12, <2>2, <2>3 DEF DeleteFile
<1>13. ASSUME NEW o \in Operations, Begin(r, o) PROVE Knows(req[r])'
  <2>1. /\ v.op = o /\ v.at = FirstStep(o) /\ v.seen = {o.folder} /\ v.frontier = {o.folder}
        /\ v.files = IF o.kind = "deleteFile" /\ status[o.file] # "UPLOADING"
                     THEN {o.file} ELSE {}
    BY <1>1, <1>13 DEF Begin
  <2>2. /\ o.kind \in {"delete", "ifEmpty", "zip"} =>
             o.folder \in Folders /\ v.at = (IF FolderExists(o.folder) THEN "walk" ELSE "end")
        /\ o.kind = "deleteFile" =>
             o.file \in Files /\ v.at = (IF FileExists(o.file) THEN "unlink" ELSE "end")
    BY <2>1, OpTypes DEF FirstStep, OnFolder, OnFile
  <2>3. Searched(v)
    BY <2>1, <2>2 DEF Searched, Searching
  <2>4. Noted(v)
    BY <2>1, <2>2 DEF Noted, FolderExists, NoRow
  <2>5. NotedOne(v)
    BY <2>1, <2>2 DEF NotedOne, Ready, FileExists, NoRow
  <2>6. FoundEmpty(v)
    BY <2>1, <2>2 DEF FoundEmpty
  <2>7. Zipped(v)
    <3> SUFFICES ASSUME o.kind = "zip", ~FolderExists(o.folder), o.folder \in Folders
                 PROVE  Fresh({o.folder}) = {}
      BY <2>1, <2>2 DEF Zipped
    <3>1. (\A g \in Folders : parent[g] # o.folder) /\ (\A x \in Files : place[x] # o.folder)
      <4>1. ~Live(o.folder)
        BY ForestAssumption DEF FolderExists, Live, NoRow, NotFolders
      <4> QED BY <4>1 DEF RowInv, Attached, FilesAttached
    <3>2. Under({o.folder}) = {o.folder}
      BY <3>1, UnderLeaf, UnderIsIn
    <3> QED BY <3>1, <3>2 DEF Fresh, FilesIn
  <2> QED BY <1>a, <2>1, <2>3, <2>4, <2>5, <2>6, <2>7 DEF Knows
<1> QED BY <1>3, <1>4, <1>5, <1>6, <1>7, <1>8, <1>9, <1>10, <1>11, <1>12, <1>13 DEF Step

-----------------------------------------------------------------------------
(***************************************************************************)
(* The inductive invariant of the requests, and what follows from it.      *)
(***************************************************************************)

\* A file that exists although its message was thrown away was touched since,
\* and the folders of the deletion that did it are gone.
TrashOk ==
  \A x \in trash :
    /\ place[x] # Unborn
    /\ FileExists(x) =>
         /\ x \in stirred
         /\ \E r \in Requests : /\ Is(r, "delete") /\ At(r, "end") /\ x \in req[r].files
                                /\ \A g \in req[r].seen : parent[g] = Gone

\* A stored file that is gone is swept, or a deletion that noted it will.
Sweeps(r, x) == /\ req[r].at \in {"batch", "rows", "tree", "sweep"}
                /\ req[r].op.kind \in {"delete", "deleteFile"} /\ x \in req[r].files
SweptOk ==
  \A x \in Files : Ready(x) /\ place[x] = Gone => x \in trash \/ \E r \in Requests : Sweeps(r, x)

DriveInv == RowInv /\ Named /\ ReqInv /\ (\A r \in Requests : Knows(req[r])) /\ TrashOk /\ SweptOk

\* Who removes a stored file that nobody has touched.
LEMMA WhoRemoves ==
  ASSUME DriveInv, NEW r \in Requests, Step(r), NEW x \in Files,
         Ready(x), FileExists(x), place'[x] = Gone
  PROVE  /\ \/ Is(r, "deleteFile") /\ req[r].op.file = x
            \/ Is(r, "delete") /\ x \in FilesIn(Under({req[r].op.folder}))
         /\ req[r].files = req'[r].files /\ Sweeps(r, x)'
<1> DEFINE w == req[r]
<1>1. Visits(r) /\ w \in ReqType /\ req \in [Requests -> ReqType] /\ Knows(w)
  BY DEF DriveInv, ReqInv
<1>2. ~At(r, "idle") => w.op \in Operations
  BY <1>1 DEF Visits
<1>3. place[x] # Gone /\ x \in Files \ stirred
  BY ForestAssumption DEF FileExists, NoRow, Ready
<1> USE DEF At, Is
<1>4. ASSUME NEW l, Goes(r, l) PROVE req'[r].at = l /\ req'[r].op = w.op /\ req'[r].files = w.files
  <2>1. req'[r] = [w EXCEPT !.at = l]
    BY <1>1, <1>4 DEF Goes
  <2> QED BY <1>1, <2>1 DEF ReqType
<1>5. ASSUME place[x] \in w.seen, w.op.kind = "delete", w.at # "end"
      PROVE  x \in FilesIn(Under({w.op.folder}))
  <2>1. place[x] \in Folders /\ Fresh({place[x]}) \subseteq Fresh({w.op.folder})
    BY <1>1, <1>5 DEF Knows, Searched, Searching
  <2>2. place[x] \in Under({place[x]})
    BY <2>1, UnderIsIn, UnderFacts
  <2> QED BY <1>3, <2>1, <2>2 DEF Fresh, FilesIn
<1>6. CASE DeleteBatch(r)
  <2>1. w.op.kind = "delete" /\ w.at = "rows" /\ Goes(r, "batch") /\ x \in w.frontier
    BY <1>1, <1>3, <1>6 DEF DeleteBatch, Visits, DeleteRows
  <2>2. place[x] \in w.seen /\ x \in w.files
    BY <1>1, <1>3, <2>1 DEF Knows, Noted
  <2> QED BY <1>4, <1>5, <2>1, <2>2 DEF Sweeps
<1>7. CASE DeleteTree(r)
  <2>1. w.op.kind = "delete" /\ w.at = "tree" /\ Goes(r, "sweep")
    BY <1>1, <1>7 DEF DeleteTree, Visits
  <2>2. x \in Fresh(w.seen)
    BY <1>3, <1>7 DEF DeleteTree, Cascade, DeleteRows, Fresh
  <2>3. place[x] \in w.seen
    BY <1>1, <2>1, <2>2, SeenAll DEF Searching, Knows, DriveInv
  <2>4. x \in w.files
    BY <1>1, <2>1, <2>3 DEF Knows, Noted
  <2> QED BY <1>4, <1>5, <2>1, <2>3, <2>4 DEF Sweeps
<1>8. CASE DropFolder(r)
  <2>1. w.op.kind = "ifEmpty" /\ w.at = "drop"
    BY <1>1, <1>8 DEF DropFolder, Visits
  <2>2. x \in Fresh({w.op.folder})
    BY <1>3, <1>8 DEF DropFolder, Cascade, DeleteRows, Fresh, DriveKept, FilesKept
  <2>3. place[x] \in w.seen
    BY <1>1, <2>1, <2>2, SeenAll DEF Searching, Knows, DriveInv
  <2> QED BY <1>1, <2>1, <2>3 DEF Knows, FoundEmpty
<1>9. CASE DeleteFile(r)
  <2>1. w.op.kind = "deleteFile" /\ w.at = "unlink" /\ x = w.op.file
    BY <1>1, <1>3, <1>9 DEF DeleteFile, Visits, DeleteRows
  <2>2. Goes(r, "sweep") /\ x \in w.files
    BY <1>1, <1>9, <2>1 DEF DeleteFile, Knows, NotedOne
  <2> QED BY <1>4, <2>1, <2>2 DEF Sweeps
<1>10. CASE PutFile(r)
  <2>1. w.op.to # Gone
    BY <1>1, <1>2, <1>10, OpTypes, ForestAssumption DEF PutFile, NotFolders
  <2> QED BY <1>3, <1>10, <2>1 DEF PutFile, DriveInv, RowInv, RowTypes
<1>11. CASE UNCHANGED place
  BY <1>3, <1>11
<1> QED
  BY <1>6, <1>7, <1>8, <1>9, <1>10, <1>11
     DEF Step, CheckName, FindSegment, InsertFolder, InsertRefused, Climb, UpdateFolder, Walk,
         Gather, ReadBatch, Sweep, CountFiles, Collect, DriveKept, FilesKept

\* The invariant holds at the start,
LEMMA DriveInvInit == DriveInit => DriveInv
<1> SUFFICES ASSUME DriveInit PROVE DriveInv
  OBVIOUS
<1> PICK s \in StartStates :
      parent = s.parent /\ name = s.name /\ place = s.place /\ status = s.status
  BY DEF DriveInit
<1>1. \A r \in Requests : req[r] = Idle
  BY DEF DriveInit
<1>2. RowInv
  BY StartAssumption, ForestAssumption
     DEF DriveInit, RowInv, RowTypes, Attached, FilesAttached, FolderExists, Live, NoRow, NotFolders
<1>3. Named
  BY StartAssumption DEF Named
<1>4. ReqInv
  <2>1. Idle \in ReqType /\ req \in [Requests -> ReqType]
    <3>1. <<>> \in Seq(Names) /\ Root \in Folders \union NotFolders
      BY DEF NotFolders
    <3>2. Idle \in ReqType
      BY <3>1 DEF Idle, ReqType, Labels
    <3> QED BY <3>2 DEF DriveInit
  <2>2. \A r \in Requests : Visits(r)
    BY <1>1 DEF Visits, At, Is, Idle, NoOp, OnFolder
  <2> QED BY <2>1, <2>2 DEF ReqInv
<1>5. \A r \in Requests : Knows(req[r])
  BY <1>1 DEF Idle, NoOp, Knows, Searched, Searching, Noted, NotedOne, FoundEmpty, Zipped
<1>6. TrashOk
  BY DEF DriveInit, TrashOk
<1>7. SweptOk
  BY StartAssumption, ForestAssumption DEF SweptOk, NotFolders
<1> QED BY <1>2, <1>3, <1>4, <1>5, <1>6, <1>7 DEF DriveInv

\* and every step keeps it.
LEMMA DriveInvNext == DriveInv /\ [DriveNext]_driveVars => DriveInv'
<1> SUFFICES ASSUME DriveInv, [DriveNext]_driveVars PROVE DriveInv'
  OBVIOUS
<1>1. RowInv' /\ Others
  BY NextOnRows, RowsStay, OthersStep DEF DriveInv
<1>2. Named'
  BY NameStays DEF DriveInv
<1>a. ASSUME NEW x \in Files, FileExists(x)', x \notin stirred'
      PROVE  FileExists(x) /\ x \notin stirred
  BY <1>1, <1>a, ForestAssumption DEF Others, FileExists, NoRow
<1>3. ASSUME \A r \in Requests : At(r, "end") => req'[r] = req[r],
             \A x \in trash' \ trash :
               /\ place'[x] # Unborn
               /\ FileExists(x)' =>
                    /\ x \in stirred'
                    /\ \E r \in Requests : /\ Is(r, "delete")' /\ At(r, "end")'
                                        /\ x \in req'[r].files
                                           /\ \A g \in req'[r].seen : parent'[g] = Gone
      PROVE  TrashOk'
  <2> SUFFICES ASSUME NEW x \in trash
               PROVE  /\ place'[x] # Unborn
                      /\ FileExists(x)' =>
                           /\ x \in stirred'
                           /\ \E r \in Requests :
                                /\ Is(r, "delete")' /\ At(r, "end")' /\ x \in req'[r].files
                                /\ \A g \in req'[r].seen : parent'[g] = Gone
    BY <1>3 DEF TrashOk
  <2>1. x \in Files
    BY DEF DriveInv, RowInv, RowTypes
  <2>2. place'[x] # Unborn
    BY <1>1, <2>1 DEF DriveInv, TrashOk, Others
  <2>3. ASSUME FileExists(x)'
        PROVE  /\ x \in stirred'
               /\ \E r \in Requests :
                    /\ Is(r, "delete")' /\ At(r, "end")' /\ x \in req'[r].files
                    /\ \A g \in req'[r].seen : parent'[g] = Gone
    <3>1. FileExists(x)
      BY <1>1, <2>1, <2>3 DEF DriveInv, TrashOk, Others, FileExists, NoRow
    <3>2. x \in stirred'
      BY <1>1, <3>1 DEF DriveInv, TrashOk, Others
    <3>3. PICK r \in Requests : /\ Is(r, "delete") /\ At(r, "end") /\ x \in req[r].files
                                /\ \A g \in req[r].seen : parent[g] = Gone
      BY <3>1 DEF DriveInv, TrashOk
    <3>4. req[r].seen \subseteq Folders
      BY <3>3 DEF DriveInv, ReqInv, Visits, Is, OnFolder
    <3>5. req'[r] = req[r]
      BY <1>3, <3>3
    <3>6. \A g \in req'[r].seen : parent'[g] = Gone
      BY <1>1, <3>3, <3>4, <3>5 DEF Others
    <3> QED BY <3>2, <3>3, <3>5, <3>6 DEF Is, At
  <2> QED BY <2>2, <2>3
<1>4. ASSUME \A x \in Files, r \in Requests : Sweeps(r, x) => Sweeps(r, x)' \/ x \in trash',
             \A x \in Files : Ready(x) /\ FileExists(x) /\ place'[x] = Gone =>
               \E r \in Requests : Sweeps(r, x)'
      PROVE  SweptOk'
  <2> SUFFICES ASSUME NEW x \in Files, Ready(x)', place'[x] = Gone
               PROVE  x \in trash' \/ \E r \in Requests : Sweeps(r, x)'
    BY DEF SweptOk
  <2>1. Ready(x)
    BY <1>1 DEF Others, Ready
  <2>2. CASE place[x] = Gone
    BY <1>1, <1>4, <2>1, <2>2 DEF DriveInv, SweptOk, Others
  <2>3. CASE place[x] # Gone
    BY <1>1, <1>4, <2>1, <2>3 DEF Others, FileExists, NoRow
  <2> QED BY <2>2, <2>3
<1>5. ASSUME UNCHANGED req, trash' = trash, \A x \in Files : place'[x] = place[x] PROVE DriveInv'
  <2>1. ReqInv'
    BY <1>5 DEF DriveInv, ReqInv, Visits, At, Is
  <2>2. \A r \in Requests : Knows(req[r])'
    <3> SUFFICES ASSUME NEW r \in Requests PROVE Knows(req[r])'
      OBVIOUS
    <3>1. CASE At(r, "idle")
      BY <1>5, <3>1 DEF DriveInv, ReqInv, Visits, Is, At, NoOp, Knows, Searched, Searching, Noted,
                        NotedOne, FoundEmpty, Zipped
    <3>2. CASE ~At(r, "idle")
      <4>1. req[r] \in ReqType /\ req[r].op \in Operations /\ Knows(req[r])
        BY <3>2 DEF DriveInv, ReqInv, Visits
      <4> QED BY <1>1, <1>5, <4>1, KnowsStays DEF DriveInv
    <3> QED BY <3>1, <3>2
  <2>3. TrashOk'
    BY <1>3, <1>5
  <2>4. SweptOk'
    BY <1>4, <1>5, ForestAssumption DEF Sweeps, FileExists, NoRow
  <2> QED BY <1>1, <1>2, <2>1, <2>2, <2>3, <2>4 DEF DriveInv
<1>6. CASE UNCHANGED driveVars
  BY <1>5, <1>6 DEF driveVars
<1>7. ASSUME NEW x \in Files, UploadFinishes(x) PROVE DriveInv'
  BY <1>5, <1>7 DEF UploadFinishes
<1>8. ASSUME NEW r \in Requests, Step(r) \/ \E o \in Operations : Begin(r, o) PROVE DriveInv'
  <2>1. ReqInv' /\ \A q \in Requests \ {r} : req'[q] = req[q]
    BY <1>8, ReqStays DEF DriveInv
  <2>2. ASSUME NEW q \in Requests PROVE Knows(req[q])'
    <3>1. CASE q = r
      BY <1>1, <1>8, <2>1, <3>1, KnowsMore DEF DriveInv
    <3>2. CASE q # r /\ At(q, "idle")
      <4>1. req'[q] = req[q] /\ req[q].op = NoOp
        BY <2>1, <3>2 DEF DriveInv, ReqInv, Visits
      <4> QED BY <4>1 DEF NoOp, Knows, Searched, Searching, Noted, NotedOne, FoundEmpty, Zipped
    <3>3. CASE q # r /\ ~At(q, "idle")
      <4>1. req[q] \in ReqType /\ req[q].op \in Operations /\ Knows(req[q]) /\ req'[q] = req[q]
        BY <2>1, <3>3 DEF DriveInv, ReqInv, Visits
      <4> QED BY <1>1, <4>1, KnowsStays DEF DriveInv
    <3> QED BY <3>1, <3>2, <3>3
  <2>3. ~At(r, "end")
    BY <1>8
       DEF Begin, Step, CheckName, FindSegment, InsertFolder, InsertRefused, Climb, UpdateFolder,
           Walk, Gather, ReadBatch, DeleteBatch, DeleteTree, Sweep, CountFiles, DropFolder, Collect,
           PutFile, DeleteFile, At
  <2>4. \A q \in Requests : At(q, "end") => req'[q] = req[q]
    BY <2>1, <2>3
  <2> DEFINE w == req[r]
  <2>w. Visits(r) /\ w \in ReqType /\ req \in [Requests -> ReqType] /\ Knows(w)
    BY DEF DriveInv, ReqInv
  <2>5. CASE Sweep(r)
    <3>1. /\ w.at = "sweep" /\ trash' = trash \union w.files
               /\ w.op.kind \in {"delete", "deleteFile"}
          /\ UNCHANGED <<parent, place, status, stirred>> /\ w.files \subseteq Files
      BY <2>5, <2>w DEF Sweep, TreeKept, FilesKept, Visits, At, ReqType
    <3>2. req'[r] = [w EXCEPT !.at = "end"]
      BY <2>5, <2>w DEF Sweep, Ends, Goes
    <3>3. req'[r].at = "end" /\ req'[r].op = w.op /\ req'[r].files = w.files
            /\ req'[r].seen = w.seen
      BY <2>w, <3>2 DEF ReqType
    <3>4. ASSUME NEW x \in w.files
          PROVE  /\ place[x] # Unborn
                 /\ FileExists(x) => /\ x \in stirred /\ w.op.kind = "delete"
                                     /\ \A g \in w.seen : parent[g] = Gone
      <4>1. CASE w.op.kind = "deleteFile"
        BY <2>w, <3>1, <3>4, <4>1 DEF Knows, NotedOne, FileExists, NoRow
      <4>2. CASE w.op.kind = "delete"
        <5>1. /\ place[x] # Unborn /\ \A g \in w.seen : parent[g] = Gone
              /\ FileExists(x) /\ x \notin stirred => place[x] \in w.seen
          BY <2>w, <3>1, <3>4, <4>2 DEF Knows, Noted
        <5>2. w.seen \subseteq Folders
          BY <2>w, <3>1, <4>2 DEF Knows, Searched, Searching
        <5>3. place[x] \in w.seen => FolderExists(place[x])
          BY <3>1, <3>4, <5>2 DEF DriveInv, RowInv, FilesAttached
        <5> QED BY <4>2, <5>1, <5>3 DEF FolderExists, NoRow
      <4> QED BY <3>1, <4>1, <4>2
    <3>5. TrashOk'
      BY <1>3, <2>4, <3>1, <3>3, <3>4 DEF FileExists, Is, At
    <3>6. \A x \in Files, q \in Requests : Sweeps(q, x) => Sweeps(q, x)' \/ x \in trash'
      BY <2>1, <3>1 DEF Sweeps
    <3>7. SweptOk'
      BY <1>4, <3>1, <3>6, ForestAssumption DEF FileExists, NoRow
    <3> QED BY <1>1, <1>2, <2>1, <2>2, <3>5, <3>7 DEF DriveInv
  <2>6. CASE ~Sweep(r)
    <3>1. trash' = trash
      BY <1>8, <2>6
         DEF Begin, Step, CheckName, FindSegment, InsertFolder, InsertRefused, Climb, UpdateFolder,
             Walk, Gather, ReadBatch, DeleteBatch, DeleteTree, Cascade, CountFiles, DropFolder,
             Collect, PutFile, DeleteFile, DriveKept
    <3>2. TrashOk'
      BY <1>3, <2>4, <3>1
    <3>3. ASSUME NEW x, Sweeps(r, x) PROVE Sweeps(r, x)'
      <4>1. w.at \in {"batch", "rows", "tree", "sweep"}
        BY <3>3 DEF Sweeps
      <4>2. /\ req'[r].at \in {"batch", "rows", "tree", "sweep"}
            /\ req'[r].op = w.op /\ req'[r].files = w.files
        <5>1. CASE DeleteBatch(r) \/ DeleteTree(r)
          <6>1. PICK l \in {"batch", "sweep"} : req' = [req EXCEPT ![r].at = l]
            BY <5>1 DEF DeleteBatch, DeleteTree, Goes
          <6>2. req'[r] = [w EXCEPT !.at = l]
            BY <2>w, <6>1
          <6> QED BY <2>w, <6>2 DEF ReqType
        <5>2. CASE ReadBatch(r)
          <6>1. CASE Goes(r, "tree")
            <7>1. req'[r] = [w EXCEPT !.at = "tree"]
              BY <2>w, <6>1 DEF Goes
            <7> QED BY <2>w, <7>1 DEF ReqType
          <6>2. ASSUME NEW b,
                       req' = [req EXCEPT ![r] = [req[r] EXCEPT !.frontier = b, !.at = "rows"]]
                PROVE  /\ req'[r].at \in {"batch", "rows", "tree", "sweep"}
                       /\ req'[r].op = w.op /\ req'[r].files = w.files
            <7>1. req'[r] = [w EXCEPT !.frontier = b, !.at = "rows"]
              BY <2>w, <6>2
            <7> QED BY <2>w, <7>1 DEF ReqType
          <6> QED BY <5>2, <6>1, <6>2 DEF ReadBatch
        <5> QED
          BY <1>8, <2>6, <4>1, <5>1, <5>2
             DEF Begin, Step, CheckName, FindSegment, InsertFolder, InsertRefused, Climb,
                 UpdateFolder, Walk, Gather, CountFiles, DropFolder, Collect, PutFile, DeleteFile,
                 At
      <4> QED BY <3>3, <4>2 DEF Sweeps
    <3>4. ASSUME NEW x \in Files, Ready(x), FileExists(x), place'[x] = Gone
          PROVE  \E q \in Requests : Sweeps(q, x)'
      <4>1. CASE Step(r)
        BY <3>4, <4>1, WhoRemoves
      <4>2. CASE \E o \in Operations : Begin(r, o)
        BY <3>4, <4>2 DEF Begin, DriveKept, FilesKept, FileExists, NoRow
      <4> QED BY <1>8, <4>1, <4>2
    <3>5. \A x \in Files, q \in Requests : Sweeps(q, x) => Sweeps(q, x)' \/ x \in trash'
      BY <2>1, <3>3 DEF Sweeps
    <3>6. SweptOk'
      BY <1>4, <3>4, <3>5
    <3> QED BY <1>1, <1>2, <2>1, <2>2, <3>2, <3>6 DEF DriveInv
  <2> QED BY <2>5, <2>6
<1> QED BY <1>6, <1>7, <1>8 DEF DriveNext

\* Every variable has its type, whatever the requests do.
THEOREM DriveTypes == DriveSpec => []DriveTypeOK
<1>1. DriveInv => DriveTypeOK
  BY DEF DriveInv, RowInv, RowTypes, Named, ReqInv, ReqType, DriveTypeOK, NotFolders
<1> QED BY <1>1, DriveInvInit, DriveInvNext, PTL DEF DriveSpec

\* The only way a file that still exists loses its message is that it was moved
\* out of a folder whose deletion had noted it: whatever moves, uploads and
\* deletions do at the same time, and in whatever batches.
THEOREM MessagesKept == DriveSpec => []TrashedOnlyIfMovedOut
<1>1. DriveInv => TrashedOnlyIfMovedOut
  <2> SUFFICES ASSUME DriveInv, NEW x \in trash, FileExists(x) PROVE
        /\ x \in stirred
        /\ \E r \in Requests : Is(r, "delete") /\ x \in req[r].files /\ place[x] \notin req[r].seen
    BY DEF TrashedOnlyIfMovedOut
  <2>1. PICK r \in Requests : /\ Is(r, "delete") /\ At(r, "end") /\ x \in req[r].files
                              /\ \A g \in req[r].seen : parent[g] = Gone
    BY DEF DriveInv, TrashOk
  <2>2. req[r].seen \subseteq Folders /\ x \in Files
    BY <2>1 DEF DriveInv, ReqInv, Visits, Is, OnFolder, RowInv, RowTypes
  <2>3. place[x] \in req[r].seen => FolderExists(place[x])
    BY <2>2 DEF DriveInv, RowInv, FilesAttached
  <2>4. place[x] \notin req[r].seen
    BY <2>1, <2>2, <2>3 DEF FolderExists, NoRow
  <2> QED BY <2>1, <2>4 DEF DriveInv, TrashOk
<1> QED BY <1>1, DriveInvInit, DriveInvNext, PTL DEF DriveSpec

\* A deletion forgets no message: once the requests are done, every stored file
\* that nobody touched meanwhile and that is gone is swept.
THEOREM MessagesSwept == DriveSpec => []DeletedIsSwept
<1>1. DriveInv => DeletedIsSwept
  <2> SUFFICES ASSUME DriveInv, \A r \in Requests : req[r].at \in {"idle", "end"},
                      NEW x \in Files \ stirred, place[x] = Gone, status[x] = "READY"
               PROVE  x \in trash
    BY DEF DeletedIsSwept
  <2>1. \A r \in Requests : ~Sweeps(r, x)
    BY DEF Sweeps
  <2> QED BY <2>1 DEF DriveInv, SweptOk, Ready
<1> QED BY <1>1, DriveInvInit, DriveInvNext, PTL DEF DriveSpec

\* A zip holds every stored file that was below its folder all along.
THEOREM ZipsComplete == DriveSpec => []ZipComplete
<1>1. DriveInv => ZipComplete
  BY DEF DriveInv, Knows, Zipped, ZipComplete, Fresh, Is, At
<1> QED BY <1>1, DriveInvInit, DriveInvNext, PTL DEF DriveSpec

\* Nothing but a request to delete it, or a folder above it, removes a stored
\* file that nobody touched: a cleanup of empty folders takes none along.
THEOREM DataStays == DriveSpec => DataGoesByRequestOnly
<1> DEFINE Goes1 == \A x \in Files \ stirred :
                      FileExists(x) /\ status[x] = "READY" /\ place'[x] = Gone =>
                        \E r \in Requests :
                          \/ Is(r, "deleteFile") /\ req[r].op.file = x
                          \/ Is(r, "delete") /\ x \in FilesIn(Under({req[r].op.folder}))
<1>1. DriveInv /\ [DriveNext]_driveVars => [Goes1]_driveVars
  <2> SUFFICES ASSUME DriveInv, DriveNext, NEW x \in Files \ stirred,
                      FileExists(x), status[x] = "READY", place'[x] = Gone
               PROVE  \E r \in Requests :
                        \/ Is(r, "deleteFile") /\ req[r].op.file = x
                        \/ Is(r, "delete") /\ x \in FilesIn(Under({req[r].op.folder}))
    OBVIOUS
  <2>1. Ready(x) /\ place'[x] # place[x]
    BY DEF Ready, FileExists, NoRow
  <2>2. ASSUME NEW r \in Requests, NEW o \in Operations, Begin(r, o) PROVE FALSE
    BY <2>1, <2>2 DEF Begin, DriveKept, FilesKept
  <2>3. ASSUME NEW y \in Files, UploadFinishes(y) PROVE FALSE
    BY <2>1, <2>3 DEF UploadFinishes
  <2>4. PICK r \in Requests : Step(r)
    BY <2>2, <2>3 DEF DriveNext
  <2> QED BY <2>1, <2>4, WhoRemoves
<1> QED BY <1>1, DriveInvInit, DriveInvNext, PTL DEF DriveSpec, DataGoesByRequestOnly

-----------------------------------------------------------------------------
(***************************************************************************)
(* The service is the abstract forest, when no two moves overlap and the   *)
(* cycle check is not cut off.                                             *)
(***************************************************************************)

\* A move between its first read and its write.
Moving(r) == Is(r, "move") /\ req[r].at \in {"climb", "name", "update"}

\* No two moves overlap: what the service does not see to itself.
Serialised == \A q, r \in Requests : Moving(q) /\ Moving(r) => q = r

\* The cycle check is not cut off by its limit below the root.
NotCutOff ==
  \A r \in Requests :
    /\ Is(r, "move") /\ At(r, "climb") /\ FolderExists(req[r].cursor)
    /\ req[r].depth + 1 >= WalkLimit
    => parent[req[r].cursor] = Root

\* The way up: the folders A that the cycle check has passed on its way from
\* the target to c are all different from the one to be moved, and none has
\* been hung elsewhere since.
WayUp(w, A, c) ==
  /\ w.op.folder \notin A /\ (w.op.to \in A \/ w.op.to = c)
  /\ \A g \in A : parent[g] \in A \union {c, Gone}
MoveOk(w) ==
  w.op.kind = "move" =>
    /\ w.at = "climb" => \E A \in SUBSET Folders : /\ WayUp(w, A, w.cursor)
                                                   /\ IsFiniteSet(A) /\ Cardinality(A) = w.depth
    /\ w.at \in {"name", "update"} => \E A \in SUBSET Folders : WayUp(w, A, Root)

\* A step that hangs no folder elsewhere breaks no way up.
LEMMA MoveOkStays ==
  ASSUME RowInv, NEW w \in ReqType, MoveOk(w), w.at = "climb" => w.cursor \in Folders,
         \A g \in Folders : parent[g] # Unborn => parent'[g] \in {parent[g], Gone}
  PROVE  MoveOk(w)'
<1>1. ASSUME NEW A \in SUBSET Folders, NEW c, c # Unborn, WayUp(w, A, c) PROVE WayUp(w, A, c)'
  BY <1>1, ForestAssumption DEF WayUp, NotFolders
<1>2. ASSUME w.op.kind = "move", w.at \in {"name", "update"}
      PROVE  \E A \in SUBSET Folders : WayUp(w, A, Root)'
  <2>1. PICK A \in SUBSET Folders : WayUp(w, A, Root)
    BY <1>2 DEF MoveOk
  <2> QED BY <1>1, <2>1, ForestAssumption
<1>3. ASSUME w.op.kind = "move", w.at = "climb", w.cursor \in Folders
      PROVE  \E A \in SUBSET Folders : /\ WayUp(w, A, w.cursor)'
                                       /\ IsFiniteSet(A) /\ Cardinality(A) = w.depth
  <2>1. PICK A \in SUBSET Folders : /\ WayUp(w, A, w.cursor)
                                    /\ IsFiniteSet(A) /\ Cardinality(A) = w.depth
    BY <1>3 DEF MoveOk
  <2> QED BY <1>1, <1>3, <2>1, ForestAssumption DEF NotFolders
<1> QED BY <1>2, <1>3 DEF MoveOk

\* With no cycle, a folder that exists is not on a way up that ends at it.
LEMMA NoLoop ==
  ASSUME RowInv, Acyclic, NEW A \in SUBSET Folders, NEW c \in A, FolderExists(c),
         \A g \in A : parent[g] \in A \union {Gone}
  PROVE  FALSE
<1> DEFINE E == {g \in A : FolderExists(g)}
<1>1. \A g \in E : parent[g] \in E
  BY ForestAssumption DEF RowInv, Attached, Live, FolderExists, NoRow, NotFolders
<1>2. c \in E
  OBVIOUS
<1> QED BY <1>1, <1>2 DEF Acyclic

\* One step of the cycle check.
LEMMA ClimbStep ==
  ASSUME DriveInv, Acyclic, NotCutOff, NEW r \in Requests, Climb(r), Is(r, "move"), MoveOk(req[r])
  PROVE  MoveOk(req[r])'
<1> DEFINE w == req[r]
           c == w.cursor
<1>1. Visits(r) /\ w \in ReqType /\ req \in [Requests -> ReqType] /\ w.op \in Operations
      /\ w.at = "climb" /\ c \in Folders /\ w.depth \in Nat /\ w.op.kind = "move"
  BY DEF DriveInv, ReqInv, Visits, Climb, At, ReqType, Is, NoOp
<1>2. parent' = parent
  BY DEF Climb, DriveKept, TreeKept
<1>3. CASE Goes(r, "end")
  <2>1. req'[r] = [w EXCEPT !.at = "end"]
    BY <1>1, <1>3 DEF Goes
  <2>2. req'[r].at = "end"
    BY <1>1, <2>1 DEF ReqType
  <2> QED BY <2>2 DEF MoveOk
<1>4. CASE ~Goes(r, "end")
  <2> DEFINE l == IF parent[c] # Root /\ w.depth + 1 < WalkLimit THEN "climb"
                  ELSE IF Is(r, "list") THEN "walk" ELSE "name"
  <2>1. /\ c # w.op.folder /\ FolderExists(c)
        /\ req' = [req EXCEPT ![r] =
                     [w EXCEPT !.depth = w.depth + 1, !.cursor = parent[c], !.at = l]]
    BY <1>1, <1>4 DEF Climb, Ends, Is
  <2>2. l = "climb" \/ (l = "name" /\ parent[c] = Root)
    <3>1. parent[c] # Root => w.depth + 1 < WalkLimit
      BY <1>1, <2>1, LimitsAssumption DEF NotCutOff, Is, At
    <3> QED BY <1>1, <3>1 DEF Is
  <2> HIDE DEF l
  <2>3. req'[r] = [w EXCEPT !.depth = w.depth + 1, !.cursor = parent[c], !.at = l]
    BY <1>1, <2>1
  <2>4. /\ req'[r].op = w.op /\ req'[r].depth = w.depth + 1
        /\ req'[r].cursor = parent[c] /\ req'[r].at = l
    BY <1>1, <2>3 DEF ReqType
  <2>5. PICK A \in SUBSET Folders : WayUp(w, A, c) /\ IsFiniteSet(A) /\ Cardinality(A) = w.depth
    BY <1>1 DEF MoveOk
  <2>6. c \notin A
    <3> SUFFICES ASSUME c \in A PROVE FALSE
      OBVIOUS
    <3>1. \A g \in A : parent[g] \in A \union {Gone}
      BY <2>5 DEF WayUp
    <3> QED BY <2>1, <3>1, NoLoop DEF DriveInv
  <2> DEFINE B == A \union {c}
  <2>7. B \in SUBSET Folders /\ IsFiniteSet(B) /\ Cardinality(B) = w.depth + 1
    BY <1>1, <2>5, <2>6, FS_AddElement
  <2>8. /\ w.op.folder \notin B /\ w.op.to \in B
        /\ \A g \in B : parent'[g] \in B \union {parent[c], Gone}
    BY <1>2, <2>1, <2>5 DEF WayUp
  <2> HIDE DEF B
  <2> QED BY <1>1, <2>2, <2>4, <2>7, <2>8 DEF MoveOk, WayUp
<1> QED BY <1>3, <1>4

\* Every move on its way has a way up.
MovesOk == \A r \in Requests : MoveOk(req[r])

\* The only step that hangs a folder elsewhere is a move's write, and the way up
\* it has found is what makes it safe.
LEMMA StepOnForest ==
  ASSUME DriveInv, MovesOk, [DriveNext]_driveVars
  PROVE  /\ [ForestNext]_parent
         /\ \/ \A g \in Folders : parent[g] # Unborn => parent'[g] \in {parent[g], Gone}
            \/ \E r \in Requests : Moving(r) /\ UpdateFolder(r)
<1> DEFINE Kept == \A g \in Folders : parent[g] # Unborn => parent'[g] \in {parent[g], Gone}
<1>1. CASE UNCHANGED parent
  BY <1>1
<1>2. ASSUME NEW r \in Requests, InsertFolder(r) PROVE [ForestNext]_parent /\ Kept
  <2>1. PICK f \in Folders : parent[f] = Unborn /\ parent' = [parent EXCEPT ![f] = req[r].cursor]
    BY <1>2 DEF InsertFolder
  <2>2. req[r].cursor \in Folders \union {Root} /\ Live(req[r].cursor)
    BY <1>2, ForestAssumption
       DEF DriveInv, ReqInv, Visits, At, InsertFolder, Target, Live, FolderExists, NoRow
  <2>3. AddFolder(f, req[r].cursor)
    BY <2>1, <2>2 DEF AddFolder
  <2>4. Kept
    BY <2>1 DEF DriveInv, RowInv, RowTypes
  <2> QED BY <2>1, <2>2, <2>3, <2>4 DEF ForestNext
<1>3. ASSUME NEW r \in Requests, UpdateFolder(r), parent' # parent
      PROVE  [ForestNext]_parent /\ Moving(r)
  <2> DEFINE w == req[r]
             f == w.op.folder
  <2>1. w.op \in Operations /\ w.at = "update" /\ w.op.kind \in {"move", "rename"}
    BY <1>3 DEF UpdateFolder, DriveInv, ReqInv, Visits, At
  <2>2. f \in Folders /\ w.op.to \in Folders \union {Root}
    BY <2>1, OpTypes DEF OnFolder
  <2>3. w.op.kind = "move"
    <3>1. w.op.kind = "rename" => parent' = parent
      BY <1>3, <2>2 DEF UpdateFolder, Is, DriveInv, RowInv, RowTypes
    <3> QED BY <1>3, <2>1, <3>1
  <2>4. FolderExists(f) /\ Target(w.op.to) /\ parent' = [parent EXCEPT ![f] = w.op.to]
    BY <1>3, <2>3 DEF UpdateFolder, Is
  <2>5. PICK A \in SUBSET Folders : WayUp(w, A, Root)
    BY <2>1, <2>3 DEF MovesOk, MoveOk
  <2>6. Closed(Folders \ A) /\ f \in Folders \ A /\ w.op.to \notin Folders \ A
    BY <2>2, <2>5, ForestAssumption DEF WayUp, Closed, NotFolders
  <2>7. MoveFolder(f, w.op.to)
    <3>1. \E S \in SUBSET Folders : Closed(S) /\ f \in S /\ w.op.to \notin S
      BY <2>6
    <3> QED BY <2>4, <3>1 DEF MoveFolder, FolderExists, Target, Live, NoRow
  <2> QED BY <2>1, <2>2, <2>3, <2>7 DEF ForestNext, Moving, Is
<1>4. ASSUME NEW S \in SUBSET Folders, Cascade(S) PROVE [ForestNext]_parent /\ Kept
  <2> DEFINE R == {f \in Under(S) : FolderExists(f)}
  <2>1. Under(S) \subseteq Folders /\ \A f \in Folders : parent[f] \in Under(S) => f \in Under(S)
    BY UnderIsIn, UnderFacts DEF ClosedIn
  <2>2. Closed(R)
    BY <2>1, ForestAssumption DEF Closed, FolderExists, NoRow, NotFolders
  <2>3. parent' = [f \in Folders |-> IF f \in R THEN Gone ELSE parent[f]]
    BY <1>4 DEF Cascade
  <2>4. R \in SUBSET Folders
    BY <2>1
  <2> HIDE DEF R
  <2>5. RemoveFolders(R)
    BY <2>2, <2>3 DEF RemoveFolders
  <2> QED BY <2>3, <2>4, <2>5 DEF ForestNext
<1>5. ASSUME NEW r \in Requests, DeleteTree(r) PROVE [ForestNext]_parent /\ Kept
  <2>1. req[r].seen \subseteq Folders
    BY <1>5 DEF DeleteTree, DriveInv, ReqInv, Visits, At, Is, OnFolder
  <2> QED BY <1>4, <1>5, <2>1 DEF DeleteTree
<1>6. ASSUME NEW r \in Requests, DropFolder(r) PROVE [ForestNext]_parent /\ Kept
  <2>1. Is(r, "ifEmpty") /\ req[r].op \in Operations
    BY <1>6 DEF DropFolder, DriveInv, ReqInv, Visits, At, Is
  <2>2. {req[r].op.folder} \in SUBSET Folders
    BY <2>1, OpTypes DEF OnFolder, Is
  <2> QED BY <1>4, <1>6, <2>2 DEF DropFolder, DriveKept, TreeKept
<1> QED
  BY <1>1, <1>2, <1>3, <1>5, <1>6, ZenonT(30)
     DEF DriveNext, Step, Begin, UploadFinishes, CheckName, FindSegment, InsertRefused, Climb, Walk,
         Gather, ReadBatch, DeleteBatch, Sweep, CountFiles, Collect, PutFile, DeleteFile, DriveKept,
         TreeKept, driveVars

LEMMA MovesNext ==
  ASSUME DriveInv, DriveInv', Acyclic, Serialised, NotCutOff, MovesOk, [DriveNext]_driveVars
  PROVE  MovesOk'
<1> SUFFICES ASSUME NEW q \in Requests PROVE MoveOk(req[q])'
  BY DEF MovesOk
<1> DEFINE Kept == \A g \in Folders : parent[g] # Unborn => parent'[g] \in {parent[g], Gone}
<1>1. /\ Visits(q) /\ req[q] \in ReqType /\ req \in [Requests -> ReqType] /\ MoveOk(req[q])
      /\ (req[q].op.kind = "move" /\ req[q].at = "climb" => req[q].cursor \in Folders)
  BY DEF DriveInv, ReqInv, MovesOk, Visits, At
\* A request that does not step.
<1>2. ASSUME req'[q] = req[q] PROVE MoveOk(req[q])'
  <2>1. CASE ~Moving(q)
    BY <1>2, <2>1 DEF Moving, MoveOk, Is
  <2>2. CASE Moving(q) /\ Kept
    BY <1>1, <1>2, <2>2, MoveOkStays DEF Moving, Is, DriveInv
  <2>3. ASSUME Moving(q), NEW r \in Requests, Moving(r), UpdateFolder(r) PROVE FALSE
    <3>1. r = q
      BY <2>3 DEF Serialised
    <3>2. req' = [req EXCEPT ![q] = [req[q] EXCEPT !.at = "end"]] /\ req[q].at = "update"
      BY <2>3, <3>1 DEF UpdateFolder, Ends, Goes, At
    <3>3. req'[q] = [req[q] EXCEPT !.at = "end"]
      BY <1>1, <3>2
    <3>4. req'[q].at = "end"
      BY <1>1, <3>3 DEF ReqType
    <3> QED BY <1>2, <3>2, <3>4
  <2> QED BY <2>1, <2>2, <2>3, StepOnForest
\* A step of its own.
<1>3. ASSUME Step(q) \/ \E o \in Operations : Begin(q, o) PROVE MoveOk(req[q])'
  <2> DEFINE w == req[q]
  <2>1. CASE Climb(q) /\ Is(q, "move")
    BY <1>1, <2>1, ClimbStep
  <2>2. CASE CheckName(q)
    <3>1. parent' = parent /\ w.at = "name" /\ \E l \in {"end", "insert", "update"} : Goes(q, l)
      BY <2>2 DEF CheckName, DriveKept, TreeKept, At, Ends
    <3>2. PICK l \in {"end", "insert", "update"} : req'[q] = [w EXCEPT !.at = l]
      BY <1>1, <3>1 DEF Goes
    <3>3. req'[q].at = l /\ req'[q].op = w.op
      BY <1>1, <3>2 DEF ReqType
    <3> QED BY <1>1, <3>1, <3>3 DEF MoveOk, WayUp
  <2>3. ASSUME NEW o \in Operations, Begin(q, o) PROVE MoveOk(req[q])'
    <3>1. /\ req'[q].op = o /\ req'[q].at = FirstStep(o) /\ req'[q].depth = 0
          /\ o.kind = "move" => req'[q].cursor = o.to
      BY <1>1, <2>3 DEF Begin
    <3>2. o.kind = "move" => /\ FirstStep(o) \in {"end", "name", "climb"}
                             /\ FirstStep(o) = "name" => o.to = Root
      BY DEF FirstStep
    <3>3. IsFiniteSet({}) /\ Cardinality({}) = 0 /\ {} \in SUBSET Folders
      BY FS_EmptySet
    <3> QED BY <3>1, <3>2, <3>3 DEF MoveOk, WayUp
  <2>4. ASSUME ~(Climb(q) /\ Is(q, "move")), ~CheckName(q), Step(q) PROVE MoveOk(req[q])'
    <3>1. w.op.kind # "move" \/ \E l : Goes(q, l) /\ l = "end"
      BY <1>1, <2>4
         DEF Step, FindSegment, InsertFolder, InsertRefused, Climb, UpdateFolder, Walk, Gather,
             ReadBatch, DeleteBatch, DeleteTree, Sweep, CountFiles, DropFolder, Collect, PutFile,
             DeleteFile, Visits, Is, At, Ends
    <3>2. CASE w.op.kind # "move"
      <4>1. req'[q].op.kind # "move"
        BY <1>1, <2>4, <3>2, OpKept DEF DriveInv
      <4> QED BY <4>1 DEF MoveOk
    <3>3. CASE Goes(q, "end")
      <4>1. req'[q] = [w EXCEPT !.at = "end"]
        BY <1>1, <3>3 DEF Goes
      <4>2. req'[q].at = "end"
        BY <1>1, <4>1 DEF ReqType
      <4> QED BY <4>2 DEF MoveOk
    <3> QED BY <3>1, <3>2, <3>3
  <2> QED BY <1>3, <2>1, <2>2, <2>3, <2>4
<1>4. CASE \E r \in Requests : r # q /\ (Step(r) \/ \E o \in Operations : Begin(r, o))
  BY <1>2, <1>4, ReqStays DEF DriveInv
<1>5. CASE UNCHANGED req
  BY <1>2, <1>5
<1> QED BY <1>3, <1>4, <1>5 DEF DriveNext, UploadFinishes, driveVars

\* The folders a behaviour starts from are a forest.
LEMMA StartIsForest == DriveInit => ForestInit
<1> SUFFICES ASSUME DriveInit PROVE ForestInit
  OBVIOUS
<1>1. PICK s \in StartStates : parent = s.parent
  BY DEF DriveInit
<1>2. /\ parent \in [Folders -> Folders \union {Root, Unborn}]
      /\ \A f \in Folders : parent[f] \in Folders => parent[parent[f]] # Unborn
  BY <1>1, StartAssumption
<1>3. Acyclic
  BY <1>1, StartAssumption DEF Acyclic
<1>4. Attached
  BY <1>2, ForestAssumption DEF Attached, Live, NotFolders
<1> QED BY <1>2, <1>3, <1>4 DEF ForestInit

\* The tree stays a forest, and a move's way up leads to the root.
LEMMA ForestInvNext ==
  ASSUME DriveInv, DriveInv', Acyclic, Serialised, NotCutOff, MovesOk, [DriveNext]_driveVars
  PROVE  Acyclic' /\ MovesOk' /\ [ForestNext]_parent
<1>1. [ForestNext]_parent
  BY StepOnForest
<1>2. ForestInv
  BY DEF DriveInv, RowInv, RowTypes, ForestInv, ForestTypeOK
<1> QED BY <1>1, <1>2, ForestStep, MovesNext DEF ForestInv

LEMMA ForestInvInit == DriveInit => Acyclic /\ MovesOk
  BY StartIsForest DEF DriveInit, ForestInit, MovesOk, MoveOk, Idle, NoOp

\* While no two moves overlap, and none climbs further than the cycle check
\* does, the service's statements are the abstract forest's steps, however the
\* other requests come in between,
THEOREM ServiceIsForest == DriveSpec /\ []Serialised /\ []NotCutOff => ForestSpec
<1> QED BY DriveInvInit, DriveInvNext, StartIsForest, ForestInvInit, ForestInvNext, PTL
        DEF DriveSpec, ForestSpec

\* and so its tree never holds a cycle.
THEOREM TreeStaysAcyclic == DriveSpec /\ []Serialised /\ []NotCutOff => []Acyclic
  BY ServiceIsForest, ForestStaysAcyclic, PTL

\* Both hypotheses are met where at most one request may move folders and the
\* account has no more folders than the cycle check climbs: what it has climbed
\* are that many different folders.
LEMMA OneMoverSerialised ==
  ASSUME DriveInv, \A q, r \in Movers : q = r
  PROVE  Serialised
  BY DEF DriveInv, ReqInv, Visits, Serialised, Moving, Is

LEMMA FewFoldersNotCutOff ==
  ASSUME DriveInv, Acyclic, MovesOk, IsFiniteSet(Folders), Cardinality(Folders) =< WalkLimit
  PROVE  NotCutOff
<1> SUFFICES ASSUME NEW r \in Requests, Is(r, "move"), At(r, "climb"), FolderExists(req[r].cursor),
                    req[r].depth + 1 >= WalkLimit, parent[req[r].cursor] # Root
             PROVE  FALSE
  BY DEF NotCutOff
<1> DEFINE c == req[r].cursor
<1>1. c \in Folders /\ req[r].depth \in Nat
  BY DEF DriveInv, ReqInv, Visits, ReqType
<1>2. PICK A \in SUBSET Folders : /\ WayUp(req[r], A, c)
                                  /\ IsFiniteSet(A) /\ Cardinality(A) = req[r].depth
  BY DEF MovesOk, MoveOk, Is, At
<1>3. c \notin A
  <2> SUFFICES ASSUME c \in A PROVE FALSE
    OBVIOUS
  <2>1. \A g \in A : parent[g] \in A \union {Gone}
    BY <1>2 DEF WayUp
  <2> QED BY <2>1, NoLoop DEF DriveInv
<1> DEFINE B == A \union {c}
<1>4. B \in SUBSET Folders /\ IsFiniteSet(B) /\ Cardinality(B) = req[r].depth + 1
  BY <1>1, <1>2, <1>3, FS_AddElement
<1>5. B = Folders
  <2> HIDE DEF B
  <2>1. Cardinality(Folders) \in Nat /\ Cardinality(B) \in Nat
    BY <1>4, FS_CardinalityType
  <2>2. Cardinality(B) >= Cardinality(Folders)
    BY <1>1, <1>4, <2>1, LimitsAssumption
  <2>3. Cardinality(B) =< Cardinality(Folders)
          /\ (Cardinality(B) = Cardinality(Folders) => B = Folders)
    BY <1>4, FS_Subset
  <2> QED BY <2>1, <2>2, <2>3
<1>6. \A g \in B : parent[g] \in B \union {Gone}
  <2>1. parent[c] \in Folders
    BY <1>1 DEF FolderExists, NoRow, DriveInv, RowInv, RowTypes, NotFolders
  <2> QED BY <1>2, <1>5, <2>1 DEF WayUp
<1>7. c \in B
  OBVIOUS
<1> HIDE DEF B
<1> QED BY <1>4, <1>6, <1>7, NoLoop DEF DriveInv

\* An account with one mover and few folders: no hypothesis on behaviours.
THEOREM OneMoverIsForest ==
  ASSUME \A q, r \in Movers : q = r, IsFiniteSet(Folders), Cardinality(Folders) =< WalkLimit
  PROVE  DriveSpec => ForestSpec /\ []Acyclic
<1> DEFINE Inv == DriveInv /\ Acyclic /\ MovesOk
<1>1. Inv => Serialised /\ NotCutOff
  BY OneMoverSerialised, FewFoldersNotCutOff
<1>2. Inv /\ [DriveNext]_driveVars => Inv' /\ [ForestNext]_parent
  BY <1>1, DriveInvNext, ForestInvNext
<1>3. DriveInit => Inv /\ ForestInit
  BY DriveInvInit, ForestInvInit, StartIsForest
<1> QED BY <1>2, <1>3, PTL DEF DriveSpec, ForestSpec
-----------------------------------------------------------------------------
(***************************************************************************)
(* Loops.  The library's induction theorems are about operators, which the *)
(* provers cannot instantiate; that the numbers are well-founded is a fact *)
(* about sets, and so is the induction that follows from it.               *)
(***************************************************************************)

\* Every non-empty set of numbers has a least one: induction, as a fact about sets.
LEMMA LeastNatural ==
  ASSUME NEW S \in SUBSET Nat, S # {}
  PROVE  \E m \in S : \A n \in S : m =< n
<1> DEFINE R == {ss \in Nat \X Nat : ss[1] < ss[2]}
<1>1. IsWellFoundedOn(R, Nat)
  BY NatLessThanWellFounded DEF OpToRel
<1> HIDE DEF R
<1>2. PICK m \in S : \A n \in S : <<n, m>> \notin R
  BY <1>1, WFMin
<1>3. \A n \in S : ~(n < m)
  BY <1>2 DEF R
<1> QED BY <1>3

LEMMA SetInduction ==
  ASSUME NEW S \in SUBSET Nat, 0 \in S, \A n \in S : n + 1 \in S
  PROVE  S = Nat
<1> SUFFICES ASSUME Nat \ S # {} PROVE FALSE
  OBVIOUS
<1>1. PICK m \in Nat \ S : \A n \in Nat \ S : m =< n
  BY LeastNatural
<1>2. m # 0 /\ m - 1 \in Nat /\ m - 1 < m
  BY <1>1
<1> QED BY <1>1, <1>2

\* The rounds of a loop whose states stay in D are what the recursion says.
LEMMA RoundsAre ==
  ASSUME NEW D, NEW start \in D, NEW step \in [D -> D]
  PROVE  /\ Rounds(step, start) \in [Nat -> D] /\ Rounds(step, start)[0] = start
         /\ \A n \in Nat : Rounds(step, start)[n + 1] = step[Rounds(step, start)[n]]
<1> DEFINE Good(g, n) == g[0] = start /\ \A i \in 1..n : g[i] = step[g[i - 1]]
           P == {n \in Nat : \E g \in [0..n -> D] : Good(g, n)}
\* There are beginnings of any length,
<1>1. P = Nat
  <2>1. 0 \in P
    <3> [i \in 0..0 |-> start] \in [0..0 -> D] /\ Good([i \in 0..0 |-> start], 0)
      OBVIOUS
    <3> QED OBVIOUS
  <2>2. ASSUME NEW n \in P PROVE n + 1 \in P
    <3>1. PICK g \in [0..n -> D] : Good(g, n)
      OBVIOUS
    <3> DEFINE h == [i \in 0..(n + 1) |-> IF i = n + 1 THEN step[g[n]] ELSE g[i]]
    <3>2. h \in [0..(n + 1) -> D] /\ h[0] = start
      BY <3>1
    <3>3. \A i \in 1..(n + 1) : h[i] = step[h[i - 1]]
      <4> TAKE i \in 1..(n + 1)
      <4>1. CASE i = n + 1
        BY <4>1, <3>1
      <4>2. CASE i # n + 1
        <5>1. i \in 1..n /\ i - 1 \in 0..n /\ i \in 0..n /\ i # n + 1 /\ i - 1 # n + 1
          BY <4>2
        <5> QED BY <3>1, <5>1
      <4> QED BY <4>1, <4>2
    <3> HIDE DEF h
    <3>4. Good(h, n + 1)
      BY <3>2, <3>3
    <3> HIDE DEF Good
    <3> QED BY <3>2, <3>4
  <2> HIDE DEF P
  <2>3. P \in SUBSET Nat
    BY DEF P
  <2> QED BY <2>1, <2>2, <2>3, SetInduction
\* which agree as far as they go,
<1>2. ASSUME NEW m \in Nat, NEW n \in Nat, m =< n, NEW g \in [0..m -> D], NEW h \in [0..n -> D],
             Good(g, m), Good(h, n)
      PROVE  g[m] = h[m]
  <2> DEFINE Q == {i \in Nat : i =< m => g[i] = h[i]}
  <2>1. 0 \in Q
    BY <1>2
  <2>2. ASSUME NEW i \in Q PROVE i + 1 \in Q
    <3> SUFFICES ASSUME i + 1 =< m PROVE g[i + 1] = h[i + 1]
      OBVIOUS
    <3>1. i + 1 \in 1..m /\ i + 1 \in 1..n /\ i + 1 - 1 = i /\ g[i] = h[i]
      BY <1>2
    <3> QED BY <3>1, <1>2
  <2> HIDE DEF Q
  <2>3. Q \in SUBSET Nat
    BY DEF Q
  <2>4. m \in Q
    BY <2>1, <2>2, <2>3, SetInduction
  <2> QED BY <2>4 DEF Q
\* so that together they are a function f that satisfies the recursion.
<1> DEFINE G == [n \in Nat |-> CHOOSE g \in [0..n -> D] : Good(g, n)]
           f == [n \in Nat |-> G[n][n]]
<1>3. ASSUME NEW n \in Nat PROVE G[n] \in [0..n -> D] /\ Good(G[n], n)
  <2>1. \E g \in [0..n -> D] : Good(g, n)
    BY <1>1
  <2> HIDE DEF Good
  <2> QED BY <2>1
<1> HIDE DEF G
<1>4. f \in [Nat -> D] /\ f[0] = start
  BY <1>3
<1>5. ASSUME NEW n \in Nat PROVE f[n + 1] = step[f[n]]
  <2>1. G[n + 1] \in [0..(n + 1) -> D] /\ Good(G[n + 1], n + 1)
    BY <1>3
  <2>2. G[n + 1][n + 1] = step[G[n + 1][n]]
    BY <2>1
  <2>3. G[n] \in [0..n -> D] /\ Good(G[n], n) /\ n =< n + 1 /\ n + 1 \in Nat
    BY <1>3
  <2> HIDE DEF Good
  <2>4. G[n + 1][n] = G[n][n]
    BY <1>2, <2>1, <2>3
  <2> QED BY <2>2, <2>4
<1> HIDE DEF f
<1>6. f = [n \in Nat |-> IF n = 0 THEN start ELSE step[f[n - 1]]]
  <2>1. ASSUME NEW n \in Nat, n # 0 PROVE f[n] = step[f[n - 1]]
    <3>1. n - 1 \in Nat /\ n - 1 + 1 = n
      BY <2>1
    <3> QED BY <3>1, <1>5
  <2> QED BY <2>1, <1>4
<1> DEFINE it == Rounds(step, start)
<1>7. it = [n \in Nat |-> IF n = 0 THEN start ELSE step[it[n - 1]]]
  BY <1>6 DEF Rounds
<1> HIDE DEF it
<1>8. it[0] = start
  BY <1>7
<1>9. ASSUME NEW n \in Nat PROVE it[n + 1] = step[it[n]]
  <2>1. n + 1 \in Nat /\ n + 1 # 0 /\ n + 1 - 1 = n
    OBVIOUS
  <2> QED BY <1>7, <2>1
<1>10. it \in [Nat -> D]
  <2> DEFINE T == {n \in Nat : it[n] \in D}
  <2>1. 0 \in T
    BY <1>8
  <2>2. \A n \in T : n + 1 \in T
    BY <1>9
  <2>3. T \in SUBSET Nat
    OBVIOUS
  <2> HIDE DEF T
  <2>4. T = Nat
    BY <2>1, <2>2, <2>3, SetInduction
  <2>5. \A n \in Nat : it[n] \in D
    BY <2>4 DEF T
  <2> QED BY <1>7, <2>5
<1> QED BY <1>8, <1>9, <1>10 DEF it

-----------------------------------------------------------------------------
(***************************************************************************)
(* The sync counts: up the tree in a loop, from each file.                 *)
(***************************************************************************)

\* Above a folder of a subtree, other than its root, is a folder of the subtree;
LEMMA UnderUp ==
  ASSUME NEW P, NEW f \in Folders, NEW c \in UnderIn(P, {f}), c # f
  PROVE  P[c] \in UnderIn(P, {f})
<1> SUFFICES ASSUME P[c] \notin UnderIn(P, {f}) PROVE FALSE
  OBVIOUS
<1> DEFINE T == UnderIn(P, {f}) \ {c}
<1>1. T \in SUBSET Folders /\ {f} \subseteq T /\ ClosedIn(P, T)
  BY UnderFacts DEF ClosedIn
<1> QED BY <1>1, UnderFacts

\* and in a forest the root's own parent is none.
LEMMA AboveRoot ==
  ASSUME Acyclic, NEW f \in Folders
  PROVE  parent[f] \notin UnderIn(parent, {f})
<1> SUFFICES ASSUME parent[f] \in UnderIn(parent, {f}) PROVE FALSE
  OBVIOUS
<1>1. \A c \in UnderIn(parent, {f}) : parent[c] \in UnderIn(parent, {f})
  BY UnderUp
<1>2. f \in UnderIn(parent, {f}) /\ UnderIn(parent, {f}) \in SUBSET Folders
  BY UnderFacts
<1> QED BY <1>1, <1>2 DEF Acyclic

\* The folders on the way up from c, c with them.
Above(c) == {g \in Folders : c \in Under({g})}

\* No file on its way lies deeper than the loop of the sync counts climbs.
NotTooDeep ==
  \A x \in Files : status[x] = "UPLOADING" =>
    IsFiniteSet(Above(place[x])) /\ Cardinality(Above(place[x])) =< CountDepth

\* The loop of the sync counts finds the one listed folder that the file is
\* below, if the listed folders are the children of one folder.
LEMMA FindsListed ==
  ASSUME RowTypes, Acyclic, NotTooDeep, NEW x \in Files, status[x] = "UPLOADING",
         NEW p \in Folders \union {Root}, NEW f \in Folders, parent[f] = p
  PROVE  ListedAbove(x, {g \in Folders : parent[g] = p}) = f <=> place[x] \in Under({f})
<1> DEFINE L == {g \in Folders : parent[g] = p}
           D == Folders \union NotFolders
           up == [c \in D |-> IF c \in Folders \ L THEN parent[c] ELSE c]
           at == Rounds(up, place[x])
           U == UnderIn(parent, {f})
<1>1. place[x] \in D /\ up \in [D -> D]
  BY DEF RowTypes
<1> HIDE DEF up, D
<1>2. /\ at \in [Nat -> D] /\ at[0] = place[x]
      /\ \A n \in Nat : at[n + 1] = up[at[n]]
  BY <1>1, RoundsAre
<1> HIDE DEF at
<1> USE DEF D
<1>3. \A n \in Nat : at[n + 1] = IF at[n] \in Folders \ L THEN parent[at[n]] ELSE at[n]
  BY <1>2 DEF up
<1>4. f \in L /\ f \in U /\ U \in SUBSET Folders /\ Under({f}) = U
  BY UnderFacts, UnderIsIn
<1> DEFINE last == at[CountDepth - 1]
<1>5. ListedAbove(x, L) = IF last \in L THEN last ELSE Root
  BY DEF ListedAbove, at, up
<1>6. CountDepth - 1 \in Nat
  BY LimitsAssumption
\* Wherever the loop is, the file is below it.
<1>7. ASSUME last = f PROVE place[x] \in U
  <2> DEFINE S == {n \in Nat : at[n] \in Folders => place[x] \in UnderIn(parent, {at[n]})}
  <2>1. 0 \in S
    BY <1>2, UnderFacts
  <2>2. ASSUME NEW n \in S PROVE n + 1 \in S
    <3> SUFFICES ASSUME at[n + 1] \in Folders PROVE place[x] \in UnderIn(parent, {at[n + 1]})
      OBVIOUS
    <3>1. CASE at[n] \in Folders \ L
      <4>1. at[n + 1] = parent[at[n]] /\ place[x] \in UnderIn(parent, {at[n]})
        BY <1>3, <3>1
      <4>2. at[n] \in UnderIn(parent, {at[n + 1]})
        BY <3>1, <4>1, UnderFacts DEF ClosedIn
      <4>3. {at[n]} \in SUBSET Folders /\ {at[n + 1]} \in SUBSET Folders
        BY <3>1
      <4> QED BY <4>1, <4>2, <4>3, UnderMonotone
    <3>2. CASE at[n] \notin Folders \ L
      BY <1>3, <3>2
    <3> QED BY <3>1, <3>2
  <2> HIDE DEF S
  <2>3. S = Nat
    <3> S \in SUBSET Nat BY DEF S
    <3> QED BY <2>1, <2>2, SetInduction
  <2>4. CountDepth - 1 \in S
    BY <1>6, <2>3
  <2> QED BY <1>4, <1>7, <2>4 DEF S
\* A file below f is never left by the loop before it is at f,
<1>8. ASSUME place[x] \in U PROVE last = f
  <2>1. \A g \in L : g \in U => g = f
    <3> SUFFICES ASSUME NEW g \in L, g \in U, g # f PROVE FALSE
      OBVIOUS
    <3>1. p \in U
      BY UnderUp
    <3> QED BY <3>1, AboveRoot
  <2> DEFINE S == {n \in Nat : at[n] \in U}
  <2>2. 0 \in S
    BY <1>2, <1>8
  <2>3. ASSUME NEW n \in S PROVE n + 1 \in S
    <3>1. CASE at[n] \in L
      BY <1>3, <3>1
    <3>2. CASE at[n] \notin L
      <4>1. at[n] # f /\ at[n] \in Folders /\ at[n] \in U
        BY <1>4, <3>2
      <4> QED BY <1>3, <3>2, <4>1, UnderUp
    <3> QED BY <3>1, <3>2
  <2> HIDE DEF S
  <2>4. S = Nat
    <3> S \in SUBSET Nat BY DEF S
    <3> QED BY <2>2, <2>3, SetInduction
  <2>5. \A n \in Nat : at[n] \in U
    BY <2>4 DEF S
  <2> SUFFICES ASSUME last # f PROVE FALSE
    OBVIOUS
\* where it then stays.
  <2>6. ASSUME NEW n \in 0..(CountDepth - 1) PROVE at[n] # f
    <3> SUFFICES ASSUME at[n] = f PROVE FALSE
      OBVIOUS
    <3> DEFINE R == {m \in Nat : at[n + m] = f}
    <3>1. 0 \in R
      BY <2>6
    <3>2. ASSUME NEW m \in R PROVE m + 1 \in R
      <4>1. n + m \in Nat /\ at[n + m] = f /\ n + (m + 1) = (n + m) + 1
        BY <2>6
      <4>2. at[(n + m) + 1] = f
        BY <1>3, <1>4, <4>1
      <4> QED BY <4>1, <4>2
    <3>3. R \in SUBSET Nat
      OBVIOUS
    <3> HIDE DEF R
    <3>4. R = Nat
      BY <3>1, <3>2, <3>3, SetInduction
    <3>5. (CountDepth - 1) - n \in R
      BY <1>6, <2>6, <3>4
    <3> QED BY <1>6, <2>6, <3>5 DEF R
\* If it never gets there, it has passed as many folders as it has had rounds,
\* f is not among them, and the file lies too deep.
  <2> DEFINE I == 0..(CountDepth - 1)
             seen == [n \in I |-> at[n]]
             A == Above(place[x])
  <2>7. \A n \in I : at[n] \in U /\ at[n] \notin L /\ at[n + 1] = parent[at[n]] /\ n \in Nat
    <3> TAKE n \in I
    <3>1. n \in Nat /\ at[n] # f
      BY <1>6, <2>6
    <3>2. at[n] \in U
      BY <2>5, <3>1
    <3> QED BY <1>3, <1>4, <2>1, <3>1, <3>2
  <2>8. ASSUME NEW i \in I, NEW j \in I, i < j, at[i] = at[j] PROVE FALSE
    <3> DEFINE C == {at[k] : k \in i..(j - 1)}
    <3>0. /\ i \in Nat /\ j \in Nat /\ j =< CountDepth - 1
          /\ i \in i..(j - 1) /\ i..(j - 1) \subseteq Nat
      BY <1>6, <2>8
    <3>1. \A k \in i..(j - 1) : k \in I /\ k + 1 \in i..j
      BY <1>6, <2>8, <3>0
    <3>2. \A k \in i..(j - 1) : parent[at[k]] \in C
      <4> TAKE k \in i..(j - 1)
      <4>1. parent[at[k]] = at[k + 1]
        BY <2>7, <3>1
      <4>2. CASE k + 1 = j
        BY <2>8, <4>1, <4>2
      <4>3. CASE k + 1 # j
        <5>1. k + 1 \in i..(j - 1)
          BY <3>1, <4>3, <1>6
        <5> QED BY <4>1, <5>1
      <4> QED BY <4>2, <4>3
    <3>3. C \in SUBSET Folders /\ C # {}
      <4>1. at[i] \in C
        BY <3>0
      <4>2. \A k \in i..(j - 1) : at[k] \in Folders
        BY <1>4, <2>5, <3>0
      <4> QED BY <4>1, <4>2
    <3> QED BY <3>2, <3>3 DEF Acyclic
  <2>9. \A n \in I : at[n] \in A
    <3> DEFINE T == {n \in Nat : n \in I => at[n] \in A}
    <3>1. 0 \in T
      BY <1>2, <1>4, <1>8, UnderFacts, UnderIsIn DEF Above
    <3>2. ASSUME NEW n \in T PROVE n + 1 \in T
      <4> SUFFICES ASSUME n + 1 \in I PROVE at[n + 1] \in A
        OBVIOUS
      <4>1. n \in I /\ at[n] \in A /\ at[n + 1] = parent[at[n]]
        BY <1>6, <2>7, <3>2
      <4>2. at[n] \in Folders /\ at[n + 1] \in Folders
        BY <1>4, <2>5, <4>1
      <4>3. place[x] \in UnderIn(parent, {at[n]}) /\ place[x] \in Folders
        BY <1>4, <1>8, <4>1, <4>2, UnderIsIn DEF Above
      <4>4. {at[n]} \in SUBSET Folders /\ {at[n + 1]} \in SUBSET Folders
             /\ at[n] \in UnderIn(parent, {at[n + 1]})
        BY <4>1, <4>2, UnderFacts DEF ClosedIn
      <4>5. place[x] \in UnderIn(parent, {at[n + 1]})
        BY <4>3, <4>4, UnderMonotone
      <4> QED BY <4>2, <4>5, UnderIsIn DEF Above
    <3>3. T \in SUBSET Nat
      OBVIOUS
    <3> HIDE DEF T
    <3>4. T = Nat
      BY <3>1, <3>2, <3>3, SetInduction
    <3> QED BY <1>6, <3>4 DEF T
  <2>10. f \in A /\ IsFiniteSet(A) /\ Cardinality(A) =< CountDepth
    BY <1>4, <1>8 DEF Above, NotTooDeep
  <2> HIDE DEF A
  <2>11. seen \in Injection(I, A)
    <3>1. seen \in [I -> A]
      BY <2>9
    <3>2. \A i, j \in I : seen[i] = seen[j] => i = j
      <4> SUFFICES ASSUME NEW i \in I, NEW j \in I, at[i] = at[j], i # j PROVE FALSE
        OBVIOUS
      <4>1. i < j \/ j < i
        BY <1>6
      <4> QED BY <2>8, <4>1
    <3> HIDE DEF seen
    <3> QED BY <3>1, <3>2 DEF Injection, IsInjective
  <2>12. IsFiniteSet(I) /\ Cardinality(I) = CountDepth
    BY <1>6, FS_Interval, LimitsAssumption
  <2> HIDE DEF I, seen
  <2>13. seen \in Surjection(I, A)
    BY <2>10, <2>11, <2>12, FS_Injection, FS_CardinalityType, LimitsAssumption
  <2>14. PICK n \in I : seen[n] = f
    BY <2>10, <2>13 DEF Surjection
  <2> QED BY <2>6, <2>14 DEF I, seen
<1> QED BY <1>4, <1>5, <1>7, <1>8, ForestAssumption DEF NotFolders

\* The sync counts agree with the subtrees in a forest of limited depth.
LEMMA ForestCounts ==
  ASSUME RowTypes, Acyclic, NotTooDeep
  PROVE  SyncingCountsAgree
<1> SUFFICES ASSUME NEW p \in Folders \union {Root}, NEW f \in Folders, parent[f] = p
             PROVE  SyncingCount(f, {g \in Folders : parent[g] = p}) =
                      Cardinality({x \in FilesIn(Under({f})) : status[x] = "UPLOADING"})
  BY DEF SyncingCountsAgree
<1> DEFINE L == {g \in Folders : parent[g] = p}
<1>1. \A x \in Files :
        status[x] = "UPLOADING" => (ListedAbove(x, L) = f <=> place[x] \in Under({f}))
  BY FindsListed
<1> HIDE DEF L
<1>2. {x \in Files : status[x] = "UPLOADING" /\ ListedAbove(x, L) = f}
        = {x \in FilesIn(Under({f})) : status[x] = "UPLOADING"}
  BY <1>1 DEF FilesIn
<1>3. SyncingCount(f, L) = Cardinality({x \in FilesIn(Under({f})) : status[x] = "UPLOADING"})
  BY <1>2 DEF SyncingCount
<1> QED BY <1>3 DEF L

-----------------------------------------------------------------------------
(***************************************************************************)
(* The tree of the activity log: down from a folder, with a budget.        *)
(***************************************************************************)

\* The sequence q lists the members of S, each once.
Lists(q, S) ==
  /\ q \in Seq(S)
  /\ \A f \in S : \E i \in 1..Len(q) : q[i] = f
  /\ \A i, j \in 1..Len(q) : q[i] = q[j] => i = j

LEMMA SetToSeqLists ==
  ASSUME NEW S, IsFiniteSet(S)
  PROVE  Lists(SetToSeq(S), S)
<1> DEFINE n == Cardinality(S)
           q == SetToSeq(S)
<1>1. n \in Nat /\ ExistsBijection(1..n, S)
  BY FS_CardinalityType
<1>2. \E f \in [1..n -> S] : IsInjective(f)
  BY <1>1 DEF ExistsBijection, Bijection, Injection
<1>3. q \in [1..n -> S] /\ IsInjective(q)
  BY <1>2 DEF SetToSeq
<1> HIDE DEF q
<1>4. IsFiniteSet(1..n) /\ Cardinality(1..n) = n
  BY <1>1, FS_Interval
<1>5. q \in Injection(1..n, S)
  BY <1>3 DEF Injection
<1> HIDE DEF n
<1>6. q \in Surjection(1..n, S)
  BY <1>4, <1>5, FS_Injection DEF n
<1>7. q \in Seq(S) /\ Len(q) = n /\ DOMAIN q = 1..n
  BY <1>1, <1>3
<1> QED BY <1>3, <1>6, <1>7 DEF Lists, Surjection, IsInjective, q

\* What follows the head lists the others;
LEMMA ListsTail ==
  ASSUME NEW S, NEW q, Lists(q, S), q # <<>>
  PROVE  Head(q) \in S /\ Lists(Tail(q), S \ {Head(q)})
<1> DEFINE t == Tail(q)
           W == S \ {Head(q)}
<1>1. q \in Seq(S) /\ Len(q) \in Nat /\ Len(q) # 0 /\ Head(q) = q[1]
  BY DEF Lists
<1>2. /\ t \in Seq(S) /\ Len(t) = Len(q) - 1 /\ Len(t) \in Nat
      /\ \A i \in 1..Len(t) : t[i] = q[i + 1]
  BY <1>1
<1>3. Head(q) \in S
  BY <1>1
<1> HIDE DEF t
<1>4. \A i \in 1..Len(t) : t[i] \in W
  <2> TAKE i \in 1..Len(t)
  <2>1. i + 1 \in 1..Len(q) /\ 1 \in 1..Len(q) /\ i + 1 # 1 /\ q[i + 1] \in S
    BY <1>1, <1>2
  <2> QED BY <1>1, <1>2, <2>1 DEF Lists
<1>5. t \in Seq(W)
  <2> HIDE DEF W
  <2>1. t \in [1..Len(t) -> W]
    BY <1>2, <1>4, LenProperties
  <2> QED BY <1>2, <2>1, SeqDef
<1>6. \A f \in W : \E i \in 1..Len(t) : t[i] = f
  <2> TAKE f \in W
  <2>1. PICK i \in 1..Len(q) : q[i] = f
    BY DEF Lists
  <2>2. i # 1 /\ i - 1 \in 1..Len(t) /\ (i - 1) + 1 = i
    BY <1>1, <1>2, <2>1
  <2> QED BY <1>2, <2>1, <2>2
<1>7. \A i, j \in 1..Len(t) : t[i] = t[j] => i = j
  <2> TAKE i, j \in 1..Len(t)
  <2>1. i + 1 \in 1..Len(q) /\ j + 1 \in 1..Len(q) /\ t[i] = q[i + 1] /\ t[j] = q[j + 1]
    BY <1>1, <1>2
  <2>2. q[i + 1] = q[j + 1] => i + 1 = j + 1
    BY <2>1 DEF Lists
  <2>3. i \in Nat /\ j \in Nat
    BY <1>2
  <2> QED BY <2>1, <2>2, <2>3
<1> QED BY <1>3, <1>5, <1>6, <1>7 DEF Lists, t

\* and the lists of two sets that have nothing in common are a list of both.
LEMMA ListsJoin ==
  ASSUME NEW S, NEW q, Lists(q, S), NEW T, NEW r, Lists(r, T), T \intersect S = {}
  PROVE  Lists(r \o q, T \union S)
<1> DEFINE W == T \union S
           v == r \o q
<1> HIDE DEF W
<1>1. r \in Seq(W) /\ q \in Seq(W) /\ Len(r) \in Nat /\ Len(q) \in Nat
  BY LenProperties, SeqMonotonic DEF Lists, W
<1>2. /\ v \in Seq(W) /\ Len(v) = Len(r) + Len(q)
      /\ \A i \in 1..(Len(r) + Len(q)) : v[i] = IF i =< Len(r) THEN r[i] ELSE q[i - Len(r)]
  BY <1>1, ConcatProperties
<1> HIDE DEF v
<1>3. \A i \in 1..Len(r) : i \in 1..Len(v) /\ v[i] = r[i] /\ v[i] \in T
  BY <1>1, <1>2 DEF Lists
<1>4. \A i \in 1..Len(q) : Len(r) + i \in 1..Len(v) /\ v[Len(r) + i] = q[i]
  <2> TAKE i \in 1..Len(q)
  <2>1. Len(r) + i \in 1..(Len(r) + Len(q)) /\ ~(Len(r) + i =< Len(r)) /\ (Len(r) + i) - Len(r) = i
    BY <1>1
  <2> QED BY <1>2, <2>1
<1>5. \A i \in 1..Len(v) : \/ i \in 1..Len(r) /\ v[i] = r[i] /\ v[i] \in T
                           \/ i - Len(r) \in 1..Len(q) /\ v[i] = q[i - Len(r)] /\ v[i] \in S
  <2>1. \A i \in 1..Len(q) : q[i] \in S
    BY DEF Lists
  <2> QED BY <1>1, <1>2, <1>3, <2>1
<1>6. \A f \in W : \E i \in 1..Len(v) : v[i] = f
  <2> TAKE f \in W
  <2>1. CASE f \in T
    <3>1. PICK i \in 1..Len(r) : r[i] = f
      BY <2>1 DEF Lists
    <3> QED BY <1>3, <3>1
  <2>2. CASE f \in S
    <3>1. PICK i \in 1..Len(q) : q[i] = f
      BY <2>2 DEF Lists
    <3> QED BY <1>4, <3>1
  <2> QED BY <2>1, <2>2 DEF W
<1>7. ASSUME NEW i \in 1..Len(v), NEW j \in 1..Len(v), v[i] = v[j] PROVE i = j
  <2>1. CASE v[i] \in T
    <3>1. i \in 1..Len(r) /\ j \in 1..Len(r) /\ r[i] = r[j]
      BY <1>5, <1>7, <2>1
    <3> QED BY <3>1 DEF Lists
  <2>2. CASE v[i] \in S
    <3> DEFINE a == i - Len(r)
               b == j - Len(r)
    <3>1. a \in 1..Len(q) /\ b \in 1..Len(q) /\ q[a] = q[b]
      BY <1>5, <1>7, <2>2
    <3> HIDE DEF a, b
    <3>2. a = b
      BY <3>1 DEF Lists
    <3> QED BY <1>1, <1>2, <3>2 DEF a, b
  <2> QED BY <1>5, <2>1, <2>2
<1> QED BY <1>2, <1>6, <1>7 DEF Lists, W, v

\* The entries of the folders in V: their files, and the folders but for the root.
Entries(V) == Cardinality(FilesIn(V)) + Cardinality(V) - 1

\* The walk so far: V has been built and everything in it paid for, and what is
\* still to be built are the children of V outside it.
Within(root, s, V) ==
  /\ s \in TreeState /\ ~s.cut
  /\ V \in SUBSET Under({root}) /\ root \in V
  /\ \A f \in V \ {root} : parent[f] \in V
  /\ Lists(s.todo, {f \in Folders : parent[f] \in V /\ f \notin V})
  /\ s.left + Entries(V) = TreeEntries

\* The budget did not suffice.
Exceeded(root, s) == s \in TreeState /\ s.cut /\ s.left = 0 /\ Entries(Under({root})) > TreeEntries

\* Entries add up, folder by folder.
LEMMA EntriesAdd ==
  ASSUME RowTypes, IsFiniteSet(Folders), IsFiniteSet(Files),
         NEW V \in SUBSET Folders, NEW c \in Folders \ V
  PROVE  /\ Entries(V) \in Int /\ Cardinality(FilesIn({c})) \in Nat
         /\ Entries(V \union {c}) = Entries(V) + 1 + Cardinality(FilesIn({c}))
<1> DEFINE A == FilesIn(V)
           B == FilesIn({c})
<1>1. IsFiniteSet(V) /\ IsFiniteSet(A) /\ IsFiniteSet(B)
  <2>1. A \in SUBSET Files /\ B \in SUBSET Files
    BY DEF FilesIn
  <2> HIDE DEF A, B
  <2> QED BY <2>1, FS_Subset
<1>2. Cardinality(V) \in Nat /\ Cardinality(A) \in Nat /\ Cardinality(B) \in Nat
  BY <1>1, FS_CardinalityType
<1>3. Cardinality(V \union {c}) = Cardinality(V) + 1
  BY <1>1, FS_AddElement
<1>4. FilesIn(V \union {c}) = A \union B /\ A \intersect B = {}
  BY DEF FilesIn
<1> HIDE DEF A, B
<1>5. Cardinality(A \union B) = Cardinality(A) + Cardinality(B)
  <2>1. Cardinality(A \union B) = Cardinality(A) + Cardinality(B) - Cardinality(A \intersect B)
    BY <1>1, FS_Union
  <2>2. Cardinality(A \intersect B) = 0
    BY <1>4, FS_EmptySet
  <2> QED BY <1>2, <2>1, <2>2
<1>6. Entries(V \union {c}) = Cardinality(A \union B) + Cardinality(V \union {c}) - 1
  BY <1>4 DEF Entries
<1>7. Entries(V) = Cardinality(A) + Cardinality(V) - 1
  BY DEF Entries, A
<1> QED BY <1>2, <1>3, <1>5, <1>6, <1>7 DEF B

\* More folders have no fewer entries.
LEMMA EntriesGrow ==
  ASSUME RowTypes, IsFiniteSet(Folders), IsFiniteSet(Files),
         NEW V \in SUBSET Folders, NEW W \in SUBSET Folders, V \subseteq W
  PROVE  Entries(V) \in Int /\ Entries(W) \in Int /\ Entries(V) =< Entries(W)
<1>1. IsFiniteSet(W) /\ IsFiniteSet(FilesIn(W))
  <2>1. FilesIn(W) \in SUBSET Files
    BY DEF FilesIn
  <2> QED BY <2>1, FS_Subset
<1>2. FilesIn(V) \in SUBSET FilesIn(W)
  BY DEF FilesIn
<1>3. /\ IsFiniteSet(V) /\ Cardinality(V) =< Cardinality(W)
      /\ IsFiniteSet(FilesIn(V)) /\ Cardinality(FilesIn(V)) =< Cardinality(FilesIn(W))
  BY <1>1, <1>2, FS_Subset
<1>4. /\ Cardinality(V) \in Nat /\ Cardinality(W) \in Nat
      /\ Cardinality(FilesIn(V)) \in Nat /\ Cardinality(FilesIn(W)) \in Nat
  BY <1>1, <1>3, FS_CardinalityType
<1> QED BY <1>3, <1>4 DEF Entries

\* Building c, the first of the folders to come, or the root to begin with.
LEMMA BuildStep ==
  ASSUME RowTypes, Acyclic, IsFiniteSet(Folders), IsFiniteSet(Files), NEW root \in Folders,
         NEW V \in SUBSET Under({root}), NEW c \in Under({root}) \ V,
         c = root \/ root \in V,
         \A f \in V \union {c} : f # root => parent[f] \in V,
         NEW S, S = {f \in Folders : parent[f] \in V /\ f \notin V} \ {c},
         NEW others \in Seq(Folders), Lists(others, S),
         NEW left \in Nat, left + Entries(V) + 1 = TreeEntries
  PROVE  LET s == Build(root, c, others, left, FALSE)
         IN  Within(root, s, V \union {c}) \/ Exceeded(root, s)
<1> DEFINE s == Build(root, c, others, left, FALSE)
           W == V \union {c}
           K == {k \in Folders \ {root} : parent[k] = c}
           files == Cardinality(FilesIn({c}))
           U == Under({root})
<1>1. U \in SUBSET Folders /\ root \in U /\ ClosedIn(parent, U) /\ parent[root] \notin U
  BY UnderFacts, UnderIsIn, AboveRoot
<1>2. files \in Nat /\ Entries(V) \in Int /\ Entries(W) = Entries(V) + 1 + files
  BY <1>1, EntriesAdd
<1>3. Lists(SetToSeq(K), K) /\ IsFiniteSet(K)
  BY FS_Subset, SetToSeqLists
<1> HIDE DEF files, K
<1>4. /\ s.todo = SetToSeq(K) \o others
      /\ s.left = IF files > left THEN 0 ELSE left - files
      /\ s.cut = (FALSE \/ files > left)
      /\ s = [todo |-> s.todo, left |-> s.left, cut |-> s.cut]
  BY DEF Build, K, files
<1> HIDE DEF s
<1>5. K \intersect S = {} /\ K \intersect W = {}
  <2>1. c \notin V /\ c \in Folders
    BY <1>1
  <2>2. parent[c] # c
    <3>1. {c} \in SUBSET Folders
      BY <2>1
    <3> QED BY <3>1 DEF Acyclic
  <2> QED BY <2>1, <2>2 DEF K
<1>6. {f \in Folders : parent[f] \in W /\ f \notin W} = K \union S
  <2>1. ASSUME NEW f \in Folders, parent[f] \in W, f \notin W PROVE f \in K \union S
    <3>1. f # root
      BY <1>1, <2>1
    <3> QED BY <2>1, <3>1 DEF K
  <2>2. ASSUME NEW f \in K PROVE parent[f] \in W /\ f \notin W /\ f \in Folders
    BY <1>5, <2>2 DEF K
  <2>3. ASSUME NEW f \in S PROVE parent[f] \in W /\ f \notin W /\ f \in Folders
    BY <2>3
  <2> QED BY <2>1, <2>2, <2>3
<1>7. Lists(s.todo, K \union S)
  BY <1>3, <1>4, <1>5, ListsJoin
<1>8. s \in TreeState
  <2>1. s.todo \in Seq(Folders)
    <3>1. K \union S \subseteq Folders
      BY DEF K
    <3> QED BY <1>7, <3>1, SeqMonotonic DEF Lists
  <2>2. s.left \in Nat /\ s.cut \in BOOLEAN
    BY <1>2, <1>4
  <2> QED BY <1>4, <2>1, <2>2 DEF TreeState
<1>9. W \in SUBSET U /\ root \in W /\ \A f \in W \ {root} : parent[f] \in W
  BY <1>1
<1>10. CASE files > left
  <2>1. Entries(W) > TreeEntries
    BY <1>2, <1>10
  <2>2. Entries(W) =< Entries(U) /\ Entries(U) \in Int /\ Entries(W) \in Int
    BY <1>1, <1>9, EntriesGrow
  <2>3. Entries(U) > TreeEntries
    BY <2>1, <2>2, LimitsAssumption
  <2> QED BY <1>4, <1>8, <1>10, <2>3 DEF Exceeded, s
<1>11. CASE ~(files > left)
  <2>1. s.left + Entries(W) = TreeEntries /\ ~s.cut
    <3>1. s.left = left - files
      BY <1>4, <1>11
    <3>2. Entries(W) = Entries(V) + 1 + files
      BY <1>2
    <3>3. ~s.cut
      BY <1>4, <1>11
    <3> HIDE DEF W
    <3> QED BY <1>2, <3>1, <3>2, <3>3
  <2>2. Within(root, s, W)
    BY <1>6, <1>7, <1>8, <1>9, <2>1 DEF Within
  <2> QED BY <2>2 DEF s
<1> QED BY <1>10, <1>11

LEMMA BuildTypes ==
  ASSUME IsFiniteSet(Folders), IsFiniteSet(Files), NEW root \in Folders, NEW c \in Folders,
         NEW others \in Seq(Folders), NEW left \in Nat, NEW cut \in BOOLEAN
  PROVE  Build(root, c, others, left, cut) \in TreeState
<1> DEFINE K == {k \in Folders \ {root} : parent[k] = c}
           files == Cardinality(FilesIn({c}))
<1>1. files \in Nat
  <2>1. FilesIn({c}) \in SUBSET Files
    BY DEF FilesIn
  <2> QED BY <2>1, FS_Subset, FS_CardinalityType
<1>2. SetToSeq(K) \in Seq(Folders)
  <2>1. K \in SUBSET Folders
    OBVIOUS
  <2> HIDE DEF K
  <2>2. SetToSeq(K) \in Seq(K)
    BY <2>1, FS_Subset, SetToSeqLists DEF Lists
  <2> QED BY <2>1, <2>2, SeqMonotonic
<1>3. SetToSeq(K) \o others \in Seq(Folders)
  BY <1>2, ConcatProperties
<1> HIDE DEF K, files
<1>4. (IF files > left THEN 0 ELSE left - files) \in Nat /\ (cut \/ files > left) \in BOOLEAN
  BY <1>1
<1>5. Build(root, c, others, left, cut)
        = [todo |-> SetToSeq(K) \o others, left |-> IF files > left THEN 0 ELSE left - files,
           cut |-> cut \/ files > left]
  BY DEF Build, K, files
<1> QED BY <1>3, <1>4, <1>5 DEF TreeState

LEMMA BuildNextTypes ==
  ASSUME IsFiniteSet(Folders), IsFiniteSet(Files), NEW root \in Folders, NEW s \in TreeState
  PROVE  BuildNext(root, s) \in TreeState
<1>1. /\ s.todo \in Seq(Folders) /\ s.left \in Nat /\ s.cut \in BOOLEAN
      /\ s = [todo |-> s.todo, left |-> s.left, cut |-> s.cut]
  BY DEF TreeState
<1>2. CASE s.todo = <<>>
  BY <1>2 DEF BuildNext
<1>3. CASE s.todo # <<>> /\ s.left = 0
  <2>1. BuildNext(root, s) = [todo |-> <<>>, left |-> s.left, cut |-> TRUE]
    BY <1>1, <1>3 DEF BuildNext
  <2>2. <<>> \in Seq(Folders)
    BY EmptySeq
  <2> QED BY <1>1, <2>1, <2>2 DEF TreeState
<1>4. CASE s.todo # <<>> /\ s.left # 0
  <2>1. Head(s.todo) \in Folders /\ Tail(s.todo) \in Seq(Folders) /\ s.left - 1 \in Nat
    BY <1>1, <1>4, HeadTailProperties
  <2> QED BY <1>1, <1>4, <2>1, BuildTypes DEF BuildNext
<1> QED BY <1>2, <1>3, <1>4

\* A round keeps what is known of the walk, and builds one more folder.
LEMMA BuildNextStep ==
  ASSUME RowTypes, Acyclic, IsFiniteSet(Folders), IsFiniteSet(Files), NEW root \in Folders,
         NEW s \in TreeState, NEW V \in SUBSET Folders, Within(root, s, V)
  PROVE  \/ s.todo = <<>> /\ BuildNext(root, s) = s
         \/ Exceeded(root, BuildNext(root, s))
         \/ \E c \in Folders \ V : Within(root, BuildNext(root, s), V \union {c})
<1> DEFINE U == Under({root})
           N == {f \in Folders : parent[f] \in V /\ f \notin V}
           c == Head(s.todo)
<1>1. U \in SUBSET Folders /\ ClosedIn(parent, U)
  BY UnderFacts, UnderIsIn
<1>2. /\ s.todo \in Seq(Folders) /\ s.left \in Nat /\ s.cut \in BOOLEAN /\ ~s.cut
      /\ s = [todo |-> s.todo, left |-> s.left, cut |-> s.cut]
      /\ V \in SUBSET U /\ root \in V /\ Lists(s.todo, N) /\ s.left + Entries(V) = TreeEntries
      /\ \A f \in V \ {root} : parent[f] \in V
  BY DEF TreeState, Within
<1> SUFFICES ASSUME s.todo # <<>>
             PROVE  \/ Exceeded(root, BuildNext(root, s))
                    \/ \E d \in Folders \ V : Within(root, BuildNext(root, s), V \union {d})
  BY DEF BuildNext
<1>3. c \in N /\ Lists(Tail(s.todo), N \ {c}) /\ Tail(s.todo) \in Seq(Folders)
  BY <1>2, ListsTail, HeadTailProperties
<1>4. c \in U \ V /\ c \in Folders \ V
  BY <1>1, <1>2, <1>3 DEF ClosedIn
<1>5. CASE s.left = 0
  <2>1. BuildNext(root, s) = [todo |-> <<>>, left |-> 0, cut |-> TRUE]
    BY <1>2, <1>5 DEF BuildNext
  <2>2. /\ Entries(V) \in Int /\ Cardinality(FilesIn({c})) \in Nat
        /\ Entries(V \union {c}) = Entries(V) + 1 + Cardinality(FilesIn({c}))
    BY <1>1, <1>2, <1>4, EntriesAdd
  <2>3. V \union {c} \in SUBSET U
    BY <1>2, <1>4
  <2>4. Entries(V \union {c}) =< Entries(U) /\ Entries(U) \in Int
    BY <1>1, <2>3, EntriesGrow
  <2>5. Entries(U) > TreeEntries
    BY <1>2, <1>5, <2>2, <2>4, LimitsAssumption
  <2>6. BuildNext(root, s) \in TreeState
    BY BuildNextTypes
  <2> QED BY <2>1, <2>5, <2>6 DEF Exceeded
<1>6. CASE s.left # 0
  <2>1. BuildNext(root, s) = Build(root, c, Tail(s.todo), s.left - 1, FALSE)
    <3>1. s.cut = FALSE
      BY <1>2
    <3> QED BY <1>6, <3>1 DEF BuildNext
  <2>2. s.left - 1 \in Nat /\ (s.left - 1) + Entries(V) + 1 = TreeEntries
    <3>1. Entries(V) \in Int
      BY <1>1, <1>2, <1>4, EntriesAdd
    <3> QED BY <1>2, <1>6, <3>1
  <2>3. \A f \in V \union {c} : f # root => parent[f] \in V
    BY <1>2, <1>3
  <2> DEFINE left == s.left - 1
             others == Tail(s.todo)
             S == N \ {c}
  <2>4. /\ left \in Nat /\ left + Entries(V) + 1 = TreeEntries
        /\ others \in Seq(Folders) /\ Lists(others, S)
    BY <1>3, <2>2
  <2>5. c \in U \ V /\ root \in V /\ V \in SUBSET U
    BY <1>2, <1>4
  <2>6. S = {f \in Folders : parent[f] \in V /\ f \notin V} \ {c}
    OBVIOUS
  <2> HIDE DEF left, others, S, c
  <2>7. \/ Within(root, Build(root, c, others, left, FALSE), V \union {c})
        \/ Exceeded(root, Build(root, c, others, left, FALSE))
    BY <2>3, <2>4, <2>5, <2>6, BuildStep
  <2> QED BY <1>4, <2>1, <2>7 DEF left, others, c
<1> QED BY <1>5, <1>6, <1>2

\* When nothing is left to build, the whole subtree has been.
LEMMA WithinAll ==
  ASSUME NEW root \in Folders, NEW s, NEW V, Within(root, s, V), s.todo = <<>>
  PROVE  V = Under({root})
<1>1. V \in SUBSET Under({root}) /\ Under({root}) \in SUBSET Folders /\ root \in V
  BY UnderFacts, UnderIsIn DEF Within
<1>2. {f \in Folders : parent[f] \in V /\ f \notin V} = {}
  BY DEF Within, Lists
<1>3. ClosedIn(parent, V)
  BY <1>2 DEF ClosedIn
<1>4. {root} \in SUBSET Folders /\ {root} \subseteq V /\ V \in SUBSET Folders
  BY <1>1
<1>5. UnderIn(parent, {root}) \subseteq V
  BY <1>3, <1>4, UnderFacts
<1> QED BY <1>1, <1>4, <1>5, UnderIsIn

\* The walk is through after as many rounds as there are folders.
LEMMA TreeWalk ==
  ASSUME RowTypes, Acyclic, IsFiniteSet(Folders), IsFiniteSet(Files), NEW root \in Folders
  PROVE  \/ Exceeded(root, DeletedTree(root))
         \/ Within(root, DeletedTree(root), Under({root}))
<1> DEFINE step == [s \in TreeState |-> BuildNext(root, s)]
           start == Build(root, root, <<>>, TreeEntries, FALSE)
           at == Rounds(step, start)
           Sure(s, n) == \/ Exceeded(root, s)
                         \/ \E V \in SUBSET Folders :
                              Within(root, s, V) /\ (s.todo # <<>> => Cardinality(V) >= n + 1)
           P == {n \in Nat : Sure(at[n], n)}
<1>1. start \in TreeState /\ step \in [TreeState -> TreeState]
  BY BuildTypes, BuildNextTypes, EmptySeq, LimitsAssumption
<1>2. /\ at \in [Nat -> TreeState] /\ at[0] = start
      /\ \A n \in Nat : at[n + 1] = BuildNext(root, at[n])
  <2>1. /\ at \in [Nat -> TreeState] /\ at[0] = start
        /\ \A n \in Nat : at[n + 1] = step[at[n]]
    <3> HIDE DEF step, start
    <3> QED BY <1>1, RoundsAre
  <2> QED BY <1>1, <2>1
<1> HIDE DEF at
<1>3. 0 \in P
  <2>1. Lists(<<>>, {}) /\ <<>> \in Seq(Folders)
    BY EmptySeq DEF Lists
  <2>2. Entries({}) = -1
    <3>1. FilesIn({}) = {}
      BY DEF FilesIn
    <3> QED BY <3>1, FS_EmptySet DEF Entries
  <2>3. TreeEntries \in Nat /\ TreeEntries + Entries({}) + 1 = TreeEntries
    BY <2>2, LimitsAssumption
  <2>4. root \in Under({root}) \ {} /\ {} \in SUBSET Under({root})
    BY UnderFacts, UnderIsIn
  <2>5. {} = {f \in Folders : parent[f] \in {} /\ f \notin {}} \ {root}
    OBVIOUS
  <2>6. \A f \in {} \union {root} : f # root => parent[f] \in {}
    OBVIOUS
  <2>7. Within(root, start, {} \union {root}) \/ Exceeded(root, start)
    <3> DEFINE V == {}
               others == <<>>
               left == TreeEntries
    <3>1. /\ V \in SUBSET Under({root}) /\ root \in Under({root}) \ V
          /\ \A f \in V \union {root} : f # root => parent[f] \in V
          /\ V = {f \in Folders : parent[f] \in V /\ f \notin V} \ {root}
          /\ others \in Seq(Folders) /\ Lists(others, V)
          /\ left \in Nat /\ left + Entries(V) + 1 = TreeEntries
      BY <2>1, <2>3, <2>4
    <3> HIDE DEF V, others, left
    <3>2. \/ Within(root, Build(root, root, others, left, FALSE), V \union {root})
          \/ Exceeded(root, Build(root, root, others, left, FALSE))
      BY <3>1, BuildStep
    <3> QED BY <3>2 DEF V, others, left
  <2>8. Cardinality({root}) = 1 /\ {} \union {root} = {root} /\ {root} \in SUBSET Folders
    BY FS_Singleton
  <2> HIDE DEF start
  <2>9. Sure(start, 0)
    BY <2>7, <2>8
  <2> QED BY <1>2, <2>9
<1>4. ASSUME NEW n \in P PROVE n + 1 \in P
  <2> DEFINE s == at[n]
             t == BuildNext(root, s)
  <2>1. n \in Nat /\ s \in TreeState /\ at[n + 1] = t /\ t \in TreeState
    BY <1>2, BuildNextTypes
  <2>2. CASE Exceeded(root, s)
    <3>1. s.cut = TRUE /\ s.left = 0 /\ (t = s \/ t = [s EXCEPT !.todo = <<>>, !.cut = TRUE])
      BY <2>1, <2>2 DEF Exceeded, BuildNext, TreeState
    <3>2. t.cut /\ t.left = 0
      BY <2>1, <3>1 DEF TreeState
    <3> QED BY <2>1, <2>2, <3>2 DEF Exceeded
  <2>3. CASE ~Exceeded(root, s)
    <3>1. PICK V \in SUBSET Folders :
            Within(root, s, V) /\ (s.todo # <<>> => Cardinality(V) >= n + 1)
      BY <2>3
    <3>2. IsFiniteSet(V) /\ Cardinality(V) \in Nat
      BY FS_Subset, FS_CardinalityType
    <3> HIDE DEF s, t
    <3>3. CASE s.todo = <<>> /\ t = s
      BY <2>1, <3>1, <3>3
    <3>4. CASE Exceeded(root, t)
      BY <2>1, <3>4
    <3>5. CASE s.todo # <<>> /\ \E c \in Folders \ V : Within(root, t, V \union {c})
      <4>1. PICK c \in Folders \ V : Within(root, t, V \union {c})
        BY <3>5
      <4>2. Cardinality(V \union {c}) = Cardinality(V) + 1 /\ V \union {c} \in SUBSET Folders
        BY <3>2, FS_AddElement
      <4>3. Cardinality(V \union {c}) >= (n + 1) + 1
        BY <2>1, <3>1, <3>2, <3>5, <4>2
      <4>4. Sure(t, n + 1)
        BY <4>1, <4>2, <4>3
      <4> QED BY <2>1, <4>4
    <3>6. \/ s.todo = <<>> /\ t = s
          \/ Exceeded(root, t)
          \/ \E c \in Folders \ V : Within(root, t, V \union {c})
      BY <2>1, <3>1, BuildNextStep DEF t
    <3>7. s.todo = <<>> => t = s
      BY DEF t, BuildNext
    <3> QED BY <3>3, <3>4, <3>5, <3>6, <3>7
  <2> QED BY <2>2, <2>3
<1> HIDE DEF P
<1>5. P = Nat
  <2>1. P \in SUBSET Nat
    BY DEF P
  <2> QED BY <1>3, <1>4, <2>1, SetInduction
<1> DEFINE N == Cardinality(Folders)
           r == at[N]
<1>6. N \in Nat /\ DeletedTree(root) = r
  BY FS_CardinalityType DEF DeletedTree, at
<1>7. Sure(r, N)
  BY <1>5, <1>6 DEF P
<1> SUFFICES ASSUME ~Exceeded(root, r) PROVE Within(root, r, Under({root}))
  BY <1>6
<1>8. PICK V \in SUBSET Folders : Within(root, r, V) /\ (r.todo # <<>> => Cardinality(V) >= N + 1)
  BY <1>7
<1>9. Cardinality(V) \in Nat /\ Cardinality(V) =< N
  BY FS_Subset, FS_CardinalityType
<1>10. r.todo = <<>>
  BY <1>6, <1>8, <1>9
<1> HIDE DEF r
<1> QED BY <1>8, <1>10, WithinAll

\* The tree of the activity log is honest of any forest.
LEMMA ForestTreeHonest ==
  ASSUME RowTypes, Acyclic, IsFiniteSet(Folders), IsFiniteSet(Files)
  PROVE  DeletedTreeHonest
<1> SUFFICES ASSUME NEW f \in Folders
             PROVE  LET all == Cardinality(FilesIn(Under({f}))) + Cardinality(Under({f})) - 1
                        tree == DeletedTree(f)
                    IN  /\ TreeEntries - tree.left = IF all < TreeEntries THEN all ELSE TreeEntries
                        /\ tree.cut <=> all > TreeEntries
  BY DEF DeletedTreeHonest, FolderExists
<1> DEFINE U == Under({f})
           all == Entries(U)
           tree == DeletedTree(f)
<1>1. all \in Int
  <2>1. U \in SUBSET Folders
    BY UnderFacts, UnderIsIn
  <2> QED BY <2>1, EntriesGrow
<1> HIDE DEF tree
<1>2. CASE Exceeded(f, tree)
  <2>1. tree.cut /\ tree.left = 0 /\ all > TreeEntries
    BY <1>2 DEF Exceeded
  <2>2. TreeEntries - tree.left = IF all < TreeEntries THEN all ELSE TreeEntries
    BY <1>1, <2>1, LimitsAssumption
  <2> QED BY <2>1, <2>2 DEF Entries, tree
<1>3. CASE Within(f, tree, U)
  <2>1. ~tree.cut /\ tree.left \in Nat /\ tree.left + all = TreeEntries
    BY <1>3 DEF Within, TreeState
  <2>2. ~(all > TreeEntries)
    BY <1>1, <2>1, LimitsAssumption
  <2>3. TreeEntries - tree.left = IF all < TreeEntries THEN all ELSE TreeEntries
    BY <1>1, <2>1, LimitsAssumption
  <2> QED BY <2>1, <2>2, <2>3 DEF Entries, tree
<1> QED BY <1>2, <1>3, TreeWalk DEF tree

-----------------------------------------------------------------------------
\* While the tree is a forest, the two ways of counting agree: the files that a
\* listing says are on their way below a folder are those that the totals of the
\* folder would count.
THEOREM CountsAgree ==
  DriveSpec /\ []Serialised /\ []NotCutOff /\ []NotTooDeep => []SyncingCountsAgree
<1>1. DriveInv /\ Acyclic /\ NotTooDeep => SyncingCountsAgree
  BY ForestCounts DEF DriveInv, RowInv
<1> QED BY <1>1, DriveInvInit, DriveInvNext, TreeStaysAcyclic, PTL DEF DriveSpec

\* While the tree is a forest, the activity log's tree of a folder holds as many
\* entries as fit and says that it was cut exactly when some did not.
THEOREM DeletedTreesHonest ==
  ASSUME IsFiniteSet(Folders), IsFiniteSet(Files)
  PROVE  DriveSpec /\ []Serialised /\ []NotCutOff => []DeletedTreeHonest
<1>1. DriveInv /\ Acyclic => DeletedTreeHonest
  BY ForestTreeHonest DEF DriveInv, RowInv
<1> QED BY <1>1, DriveInvInit, DriveInvNext, TreeStaysAcyclic, PTL DEF DriveSpec

\* In an account with one mover and no more folders than the walks climb, both
\* hold of every behaviour.
THEOREM OneMoverCounts ==
  ASSUME \A q, r \in Movers : q = r, IsFiniteSet(Folders), IsFiniteSet(Files),
         Cardinality(Folders) =< WalkLimit, Cardinality(Folders) =< CountDepth
  PROVE  DriveSpec => []SyncingCountsAgree /\ []DeletedTreeHonest
<1>1. NotTooDeep
  <2> SUFFICES ASSUME NEW c
               PROVE  IsFiniteSet(Above(c)) /\ Cardinality(Above(c)) =< CountDepth
    BY DEF NotTooDeep
  <2>1. Above(c) \in SUBSET Folders
    BY DEF Above
  <2>2. /\ IsFiniteSet(Above(c)) /\ Cardinality(Above(c)) =< Cardinality(Folders)
        /\ Cardinality(Above(c)) \in Nat /\ Cardinality(Folders) \in Nat
    BY <2>1, FS_Subset, FS_CardinalityType
  <2> QED BY <2>2, LimitsAssumption
<1>2. DriveInv /\ Acyclic => SyncingCountsAgree /\ DeletedTreeHonest
  BY <1>1, ForestCounts, ForestTreeHonest DEF DriveInv, RowInv
<1> QED BY <1>2, DriveInvInit, DriveInvNext, OneMoverIsForest, PTL DEF DriveSpec

-----------------------------------------------------------------------------
(***************************************************************************)
(* The tests' database (TestDatabase): what it deletes along with a folder *)
(* or a file is what the schema's cascades delete, whatever the database.  *)
(***************************************************************************)

\* The recursion of the fake goes down the tree,
LEMMA ReachIs ==
  ASSUME NEW db, NEW folder
  PROVE  /\ Reach(db, folder)[0] = {folder}
         /\ \A n \in Nat :
              Reach(db, folder)[n + 1]
                = Reach(db, folder)[n] \union InsideOf(db, Reach(db, folder)[n])
<1> DEFINE all == {folder} \union {f.id : f \in db.folder}
           step == [S \in SUBSET all |-> S \union InsideOf(db, S)]
           R == Reach(db, folder)
<1>1. {folder} \in SUBSET all /\ step \in [SUBSET all -> SUBSET all]
  <2>1. ASSUME NEW S PROVE InsideOf(db, S) \in SUBSET all
    BY DEF InsideOf
  <2> HIDE DEF all
  <2>2. step \in [SUBSET all -> SUBSET all]
    BY <2>1
  <2> QED BY <2>2 DEF all
<1>2. PICK f \in [Nat -> SUBSET all] : f[0] = {folder} /\ \A n \in Nat : f[n + 1] = step[f[n]]
  <2> DEFINE D == SUBSET all
             top == {folder}
  <2>1. top \in D /\ step \in [D -> D]
    BY <1>1
  <2> HIDE DEF all, step, D, top
  <2>2. Rounds(step, top) \in [Nat -> D] /\ Rounds(step, top)[0] = top
        /\ \A n \in Nat : Rounds(step, top)[n + 1] = step[Rounds(step, top)[n]]
    BY <2>1, RoundsAre
  <2> QED BY <2>2 DEF D, top
<1>3. f = [n \in Nat |-> IF n = 0 THEN {folder} ELSE f[n - 1] \union InsideOf(db, f[n - 1])]
  <2> HIDE DEF all
  <2>1. \A n \in Nat : n # 0 => n - 1 \in Nat /\ n - 1 + 1 = n
    OBVIOUS
  <2>2. \A n \in Nat : step[f[n]] = f[n] \union InsideOf(db, f[n])
    OBVIOUS
  <2> HIDE DEF step
  <2>3. \A n \in Nat : f[n] = IF n = 0 THEN {folder} ELSE f[n - 1] \union InsideOf(db, f[n - 1])
    BY <1>2, <2>1, <2>2
  <2> QED BY <2>3
<1> DEFINE F(g) == [n \in Nat |->
                     IF n = 0 THEN {folder} ELSE g[n - 1] \union InsideOf(db, g[n - 1])]
<1>4. R = F(R)
  <2>1. \E g : g = F(g)
    BY <1>3
  <2>2. R = CHOOSE g : g = F(g)
    BY DEF Reach
  <2> HIDE DEF F, R
  <2> QED BY <2>1, <2>2
<1>5. F(R)[0] = {folder}
  OBVIOUS
<1>6. ASSUME NEW n \in Nat PROVE F(R)[n + 1] = R[n] \union InsideOf(db, R[n])
  <2>1. n + 1 \in Nat /\ n + 1 # 0 /\ n + 1 - 1 = n
    OBVIOUS
  <2> HIDE DEF R
  <2> QED BY <2>1
<1> HIDE DEF R, F
<1>7. R[0] = {folder} /\ \A n \in Nat : R[n + 1] = R[n] \union InsideOf(db, R[n])
  BY <1>4, <1>5, <1>6
<1> QED BY <1>7 DEF R

\* and the schema's from row to row.
LEMMA WavesAre ==
  ASSUME NEW db, NEW first
  PROVE  /\ Waves(db, first)[0] = first
         /\ \A n \in Nat :
              Waves(db, first)[n + 1]
                = Waves(db, first)[n] \union Referring(db, Waves(db, first)[n])
<1> DEFINE all == first \union UNION {{<<key[1], r.id>> : r \in db[key[1]]} : key \in ForeignKeys}
           step == [S \in SUBSET all |-> S \union Referring(db, S)]
           W == Waves(db, first)
<1>1. first \in SUBSET all /\ step \in [SUBSET all -> SUBSET all]
  <2>1. ASSUME NEW S PROVE Referring(db, S) \in SUBSET all
    <3>1. \A x \in Referring(db, S) :
            \E key \in ForeignKeys : x \in {<<key[1], r.id>> : r \in db[key[1]]}
      BY DEF Referring
    <3>2. \A x \in Referring(db, S) :
            x \in UNION {{<<key[1], r.id>> : r \in db[key[1]]} : key \in ForeignKeys}
      BY <3>1
    <3> QED BY <3>2
  <2> HIDE DEF all
  <2>2. step \in [SUBSET all -> SUBSET all]
    BY <2>1
  <2> QED BY <2>2 DEF all
<1>2. PICK f \in [Nat -> SUBSET all] : f[0] = first /\ \A n \in Nat : f[n + 1] = step[f[n]]
  <2> DEFINE D == SUBSET all
  <2>1. first \in D /\ step \in [D -> D]
    BY <1>1
  <2> HIDE DEF all, step, D
  <2>2. Rounds(step, first) \in [Nat -> D] /\ Rounds(step, first)[0] = first
        /\ \A n \in Nat : Rounds(step, first)[n + 1] = step[Rounds(step, first)[n]]
    BY <2>1, RoundsAre
  <2> QED BY <2>2 DEF D
<1>3. f = [n \in Nat |-> IF n = 0 THEN first ELSE f[n - 1] \union Referring(db, f[n - 1])]
  <2> HIDE DEF all
  <2>1. \A n \in Nat : n # 0 => n - 1 \in Nat /\ n - 1 + 1 = n
    OBVIOUS
  <2>2. \A n \in Nat : step[f[n]] = f[n] \union Referring(db, f[n])
    OBVIOUS
  <2> HIDE DEF step
  <2>3. \A n \in Nat : f[n] = IF n = 0 THEN first ELSE f[n - 1] \union Referring(db, f[n - 1])
    BY <1>2, <2>1, <2>2
  <2> QED BY <2>3
<1> DEFINE F(g) == [n \in Nat |-> IF n = 0 THEN first ELSE g[n - 1] \union Referring(db, g[n - 1])]
<1>4. W = F(W)
  <2>1. \E g : g = F(g)
    BY <1>3
  <2>2. W = CHOOSE g : g = F(g)
    BY DEF Waves
  <2> HIDE DEF F, W
  <2> QED BY <2>1, <2>2
<1>5. F(W)[0] = first
  OBVIOUS
<1>6. ASSUME NEW n \in Nat PROVE F(W)[n + 1] = W[n] \union Referring(db, W[n])
  <2>1. n + 1 \in Nat /\ n + 1 # 0 /\ n + 1 - 1 = n
    OBVIOUS
  <2> HIDE DEF W
  <2> QED BY <2>1
<1> HIDE DEF W, F
<1>7. W[0] = first /\ \A n \in Nat : W[n + 1] = W[n] \union Referring(db, W[n])
  BY <1>4, <1>5, <1>6
<1> QED BY <1>7 DEF W

\* In as many rounds as there are folders the recursion of the fake has reached
\* all folders below.
LEMMA ReachCloses ==
  ASSUME NEW db, IsFiniteSet(db.folder), NEW folder \in {f.id : f \in db.folder},
         NEW R, R[0] = {folder}, \A n \in Nat : R[n + 1] = R[n] \union InsideOf(db, R[n])
  PROVE  InsideOf(db, R[Cardinality(db.folder)]) \subseteq R[Cardinality(db.folder)]
<1> DEFINE N == Cardinality(db.folder)
           ids == {f.id : f \in db.folder}
           Saturated(S) == InsideOf(db, S) \subseteq S
           Good(n) == /\ R[n] \subseteq ids
                      /\ Saturated(R[n]) \/ Cardinality(R[n]) >= n + 1
           P == {n \in Nat : Good(n)}
<1>1. IsFiniteSet(ids) /\ Cardinality(ids) =< N
  <2> DEFINE g == [f \in db.folder |-> f.id]
  <2>1. g \in Surjection(db.folder, ids)
    BY DEF Surjection
  <2> HIDE DEF g, ids
  <2> QED BY <2>1, FS_Surjection
<1>2. N \in Nat /\ Cardinality(ids) \in Nat
  BY <1>1, FS_CardinalityType
<1>3. \A S : InsideOf(db, S) \subseteq ids
  BY DEF InsideOf
<1>4. \A S \in SUBSET ids :
        IsFiniteSet(S) /\ Cardinality(S) =< Cardinality(ids) /\ Cardinality(S) \in Nat
  <2> HIDE DEF ids
  <2> QED BY <1>1, FS_Subset, FS_CardinalityType
<1>5. 0 \in P
  <2>1. Cardinality(R[0]) = 1
    BY FS_Singleton
  <2>2. R[0] \subseteq ids
    OBVIOUS
  <2> HIDE DEF ids, Saturated
  <2>3. Cardinality(R[0]) >= 0 + 1
    BY <2>1
  <2>4. Good(0)
    BY <2>2, <2>3
  <2> HIDE DEF Good
  <2> QED BY <2>4
<1>6. ASSUME NEW n \in Nat, Good(n) PROVE Good(n + 1)
  <2> HIDE DEF ids
  <2>1. R[n + 1] = R[n] \union InsideOf(db, R[n]) /\ R[n + 1] \subseteq ids /\ R[n] \subseteq ids
    BY <1>3, <1>6
  <2>2. CASE Saturated(R[n])
    <3>1. R[n + 1] = R[n]
      BY <2>1, <2>2
    <3> HIDE DEF Saturated
    <3> QED BY <3>1, <2>1, <2>2
  <2>3. CASE ~Saturated(R[n])
    <3>1. PICK x \in R[n + 1] : x \notin R[n]
      BY <2>1, <2>3
    <3>2. Cardinality(R[n] \union {x}) = Cardinality(R[n]) + 1
      BY <1>4, <2>1, <3>1, FS_AddElement
    <3>3. IsFiniteSet(R[n + 1]) /\ R[n] \union {x} \in SUBSET R[n + 1]
      BY <1>4, <2>1, <3>1
    <3>4. Cardinality(R[n] \union {x}) =< Cardinality(R[n + 1])
      BY <3>3, FS_Subset
    <3>5. Cardinality(R[n]) >= n + 1 /\ Cardinality(R[n]) \in Nat /\ Cardinality(R[n + 1]) \in Nat
      BY <1>4, <1>6, <2>1, <2>3
    <3>6. Cardinality(R[n + 1]) >= n + 1 + 1
      BY <3>2, <3>4, <3>5
    <3> HIDE DEF Saturated
    <3> QED BY <2>1, <3>6
  <2> QED BY <2>2, <2>3
<1>7. P = Nat
  <2>1. P \in SUBSET Nat /\ \A n \in P : n + 1 \in P
    <3> HIDE DEF Good
    <3> QED BY <1>6
  <2> HIDE DEF P
  <2> QED BY <1>5, <2>1, SetInduction
<1>8. N \in P
  BY <1>2, <1>7
<1> HIDE DEF ids, N
<1>9. R[N] \in SUBSET ids /\ (Saturated(R[N]) \/ Cardinality(R[N]) >= N + 1)
  BY <1>8
<1>10. Cardinality(R[N]) =< Cardinality(ids) /\ Cardinality(R[N]) \in Nat
  BY <1>4, <1>9
<1> QED BY <1>1, <1>2, <1>9, <1>10 DEF N

\* The rows a folder takes along: the folders and files below, and what is theirs.
Below(db, folders, files) ==
  {<<"folder", i>> : i \in folders} \union {<<"file", i>> : i \in files}
  \union {<<"chunk", c.id>> : c \in {d \in db.chunk : d.file \in files}}
  \union {<<"session", t.id>> : t \in {u \in db.session : u.file \in files}}
FilesWithin(db, folders) == {f.id : f \in {g \in db.file : g.folder \in folders}}

\* No reference leads out of them.
LEMMA BelowCloses ==
  ASSUME NEW db, NEW B, NEW F, InsideOf(db, B) \subseteq B, FilesWithin(db, B) \subseteq F
  PROVE  Referring(db, Below(db, B, F)) \subseteq Below(db, B, F)
<1> DEFINE X == Below(db, B, F)
<1> SUFFICES ASSUME NEW x \in Referring(db, X) PROVE x \in X
  OBVIOUS
<1>0. PICK key \in ForeignKeys :
        x \in {<<key[1], r.id>> : r \in {q \in db[key[1]] : <<key[3], q[key[2]]>> \in X}}
  <2> HIDE DEF X
  <2> QED BY DEF Referring
<1>1. PICK q \in db[key[1]] : x = <<key[1], q.id>> /\ <<key[3], q[key[2]]>> \in X
  <2> HIDE DEF X
  <2> QED BY <1>0
<1>2. /\ \A y : <<"folder", y>> \in X => y \in B
      /\ \A y : <<"file", y>> \in X => y \in F
      /\ \A y : <<"user", y>> \notin X
  BY DEF Below
<1>3. /\ \A y \in B : <<"folder", y>> \in X
      /\ \A y \in F : <<"file", y>> \in X
      /\ \A c \in db.chunk : c.file \in F => <<"chunk", c.id>> \in X
      /\ \A t \in db.session : t.file \in F => <<"session", t.id>> \in X
  BY DEF Below
<1> HIDE DEF X
<1>4. CASE key[3] = "user"
  BY <1>1, <1>2, <1>4
<1>5. CASE key = <<"folder", "parent", "folder">>
  BY <1>1, <1>2, <1>3, <1>5 DEF InsideOf
<1>6. CASE key = <<"file", "folder", "folder">>
  BY <1>1, <1>2, <1>3, <1>6 DEF FilesWithin
<1>7. CASE key = <<"chunk", "file", "file">>
  BY <1>1, <1>2, <1>3, <1>7
<1>8. CASE key = <<"session", "file", "file">>
  BY <1>1, <1>2, <1>3, <1>8
<1> QED BY <1>4, <1>5, <1>6, <1>7, <1>8 DEF ForeignKeys

\* What the schema takes along is within any such set that has the rows deleted,
LEMMA WavesWithin ==
  ASSUME NEW db, NEW X, Referring(db, X) \subseteq X,
         NEW W, W[0] \subseteq X, \A n \in Nat : W[n + 1] = W[n] \union Referring(db, W[n])
  PROVE  \A n \in Nat : W[n] \subseteq X
<1> DEFINE P == {n \in Nat : W[n] \subseteq X}
<1>1. ASSUME NEW S \in SUBSET X PROVE Referring(db, S) \subseteq Referring(db, X)
  <2> DEFINE Rows(k, T) == {<<k[1], r.id>> : r \in {p \in db[k[1]] : <<k[3], p[k[2]]>> \in T}}
  <2>1. \A T : Referring(db, T) = UNION {Rows(k, T) : k \in ForeignKeys}
    BY DEF Referring
  <2>2. \A k : Rows(k, S) \subseteq Rows(k, X)
    OBVIOUS
  <2> HIDE DEF Rows
  <2> QED BY <2>1, <2>2
<1>2. \A n \in P : n + 1 \in P
  BY <1>1
<1>3. P \in SUBSET Nat /\ 0 \in P
  OBVIOUS
<1> HIDE DEF P
<1>4. P = Nat
  BY <1>2, <1>3, SetInduction
<1> QED BY <1>4 DEF P

\* and has in two more rounds the files of the folders it has, and what is theirs.
LEMMA WavesReach ==
  ASSUME NEW db, NEW W, \A n \in Nat : W[n + 1] = W[n] \union Referring(db, W[n]), NEW n \in Nat
  PROVE  /\ W[n] \subseteq W[n + 1]
         /\ \A f \in db.folder : <<"folder", f.parent>> \in W[n] => <<"folder", f.id>> \in W[n + 1]
         /\ \A f \in db.file : <<"folder", f.folder>> \in W[n] => <<"file", f.id>> \in W[n + 1]
         /\ \A c \in db.chunk : <<"file", c.file>> \in W[n] => <<"chunk", c.id>> \in W[n + 1]
         /\ \A t \in db.session : <<"file", t.file>> \in W[n] => <<"session", t.id>> \in W[n + 1]
<1>1. W[n + 1] = W[n] \union Referring(db, W[n])
  OBVIOUS
<1>2. ASSUME NEW key \in ForeignKeys, NEW q \in db[key[1]], <<key[3], q[key[2]]>> \in W[n]
      PROVE  <<key[1], q.id>> \in W[n + 1]
  <2> DEFINE Rows(k) == {<<k[1], r.id>> : r \in {p \in db[k[1]] : <<k[3], p[k[2]]>> \in W[n]}}
  <2>1. <<key[1], q.id>> \in Rows(key)
    BY <1>2
  <2>2. Referring(db, W[n]) = UNION {Rows(k) : k \in ForeignKeys}
    BY DEF Referring
  <2> HIDE DEF Rows
  <2> QED BY <1>1, <2>1, <2>2
<1>3. /\ <<"folder", "parent", "folder">> \in ForeignKeys
      /\ <<"file", "folder", "folder">> \in ForeignKeys
      /\ <<"chunk", "file", "file">> \in ForeignKeys
      /\ <<"session", "file", "file">> \in ForeignKeys
  BY DEF ForeignKeys
<1>4. \A f \in db.folder : <<"folder", f.parent>> \in W[n] => <<"folder", f.id>> \in W[n + 1]
  BY <1>2, <1>3
<1>5. \A f \in db.file : <<"folder", f.folder>> \in W[n] => <<"file", f.id>> \in W[n + 1]
  BY <1>2, <1>3
<1>6. \A c \in db.chunk : <<"file", c.file>> \in W[n] => <<"chunk", c.id>> \in W[n + 1]
  BY <1>2, <1>3
<1>7. \A t \in db.session : <<"file", t.file>> \in W[n] => <<"session", t.id>> \in W[n + 1]
  BY <1>2, <1>3
<1> QED BY <1>1, <1>4, <1>5, <1>6, <1>7

\* So a folder takes along, in the schema, what the recursion of the fake finds.
LEMMA DoomedIsBelow ==
  ASSUME NEW db, IsFiniteSet(db.folder), NEW folder \in {f.id : f \in db.folder},
         NEW rows, {<<"folder", r.id>> : r \in rows} = {<<"folder", folder>>}
  PROVE  Doomed(db, "folder", rows)
           = Below(db, FoldersBelow(db, folder), FilesWithin(db, FoldersBelow(db, folder)))
<1> DEFINE N == Cardinality(db.folder)
           R == Reach(db, folder)
           W == Waves(db, {<<"folder", folder>>})
<1>0. FoldersBelow(db, folder) = R[N] /\ Doomed(db, "folder", rows) = W[N + 2]
  BY DEF FoldersBelow, Doomed
<1>1. R[0] = {folder} /\ \A n \in Nat : R[n + 1] = R[n] \union InsideOf(db, R[n])
  BY ReachIs
<1>2. W[0] = {<<"folder", folder>>} /\ \A n \in Nat : W[n + 1] = W[n] \union Referring(db, W[n])
  BY WavesAre
<1> HIDE DEF R, W
<1>3. N \in Nat /\ N + 1 \in Nat /\ N + 2 \in Nat /\ N + 1 + 1 = N + 2
  BY FS_CardinalityType
<1> DEFINE B == R[N]
           F == FilesWithin(db, B)
           X == Below(db, B, F)
\* Every folder of the recursion is met by the waves, and the way up to it too.
<1>4. \A n \in Nat : \A i \in R[n] : <<"folder", i>> \in W[n]
  <2> DEFINE Good(n) == \A i \in R[n] : <<"folder", i>> \in W[n]
             P == {n \in Nat : Good(n)}
  <2>1. Good(0)
    BY <1>1, <1>2
  <2>2. ASSUME NEW n \in Nat, Good(n) PROVE Good(n + 1)
    <3> SUFFICES ASSUME NEW i \in R[n + 1] PROVE <<"folder", i>> \in W[n + 1]
      OBVIOUS
    <3>1. /\ W[n] \subseteq W[n + 1]
          /\ \A f \in db.folder : <<"folder", f.parent>> \in W[n] => <<"folder", f.id>> \in W[n + 1]
      BY <1>2, WavesReach
    <3>2. CASE i \in R[n]
      BY <2>2, <3>1, <3>2
    <3>3. CASE i \in InsideOf(db, R[n])
      BY <2>2, <3>1, <3>3 DEF InsideOf
    <3> QED BY <1>1, <3>2, <3>3
  <2>3. P \in SUBSET Nat /\ 0 \in P /\ \A n \in P : n + 1 \in P
    <3> HIDE DEF Good
    <3> QED BY <2>1, <2>2
  <2>4. P = Nat
    <3> HIDE DEF P
    <3> QED BY <2>3, SetInduction
  <2> QED BY <2>4
<1>5. \A n \in Nat : R[n] \subseteq R[n + 1]
  BY <1>1
<1>6. folder \in B
  <2> DEFINE P == {n \in Nat : folder \in R[n]}
  <2>1. P \in SUBSET Nat /\ 0 \in P /\ \A n \in P : n + 1 \in P
    BY <1>1, <1>5
  <2>2. P = Nat
    <3> HIDE DEF P
    <3> QED BY <2>1, SetInduction
  <2> QED BY <2>2, <1>3
<1>7. W[N + 2] \subseteq X
  <2>1. InsideOf(db, B) \subseteq B
    BY <1>1, ReachCloses
  <2>2. Referring(db, X) \subseteq X
    <3> HIDE DEF B
    <3> QED BY <2>1, BelowCloses
  <2>3. W[0] \subseteq X
    BY <1>2, <1>6 DEF Below
  <2> HIDE DEF X
  <2>4. \A n \in Nat : W[n] \subseteq X
    BY <1>2, <2>2, <2>3, WavesWithin
  <2> QED BY <1>3, <2>4
<1>8. X \subseteq W[N + 2]
  <2>1. \A i \in B : <<"folder", i>> \in W[N]
    BY <1>3, <1>4
  <2>2. /\ W[N] \subseteq W[N + 1]
        /\ \A f \in db.file : <<"folder", f.folder>> \in W[N] => <<"file", f.id>> \in W[N + 1]
    BY <1>2, <1>3, WavesReach
  <2>3. /\ W[N + 1] \subseteq W[N + 2]
        /\ \A c \in db.chunk : <<"file", c.file>> \in W[N + 1] => <<"chunk", c.id>> \in W[N + 2]
        /\ \A t \in db.session : <<"file", t.file>> \in W[N + 1] => <<"session", t.id>> \in W[N + 2]
    <3> DEFINE n == N + 1
    <3>1. n \in Nat /\ n + 1 = N + 2
      BY <1>3
    <3> HIDE DEF n
    <3>2. /\ W[n] \subseteq W[n + 1]
          /\ \A c \in db.chunk : <<"file", c.file>> \in W[n] => <<"chunk", c.id>> \in W[n + 1]
          /\ \A t \in db.session : <<"file", t.file>> \in W[n] => <<"session", t.id>> \in W[n + 1]
      BY <1>2, <3>1, WavesReach
    <3> QED BY <3>1, <3>2 DEF n
  <2> HIDE DEF B
  <2>4. \A i \in F : <<"file", i>> \in W[N + 1]
    BY <2>1, <2>2 DEF FilesWithin
  <2> HIDE DEF F
  <2> QED BY <2>1, <2>2, <2>3, <2>4 DEF Below
<1> HIDE DEF X, B, N
<1>9. W[N + 2] = X
  BY <1>7, <1>8
<1> QED BY <1>0, <1>9 DEF X, B

\* A row that is found by its id is found alike.
LEMMA FoundById ==
  ASSUME NEW db, NEW table, NEW id, id # Null
  PROVE  SqlWhere(db, table, [id |-> Eq(id)]) = {r \in db[table] : r.id = id}
<1>1. \A v : SqlHolds(v, Eq(id)) <=> v = id
  BY DEF SqlHolds, Eq
<1>2. \A r : (\A column \in DOMAIN [id |-> Eq(id)] : SqlHolds(r[column], [id |-> Eq(id)][column]))
               <=> r.id = id
  BY <1>1
<1> QED BY <1>2 DEF SqlWhere

\* Deleting a folder takes along the same rows in the tests' database and in the
\* schema's, however deep the folders are nested and whatever else there is.  (On a
\* cycle of folders the fake's recursion would not end; the schema has no such rule.)
THEOREM FolderDeletesAgree ==
  ASSUME NEW db, Keyed(db), NEW id, id # Null
  PROVE  FolderDelete(db, id) = SqlDelete(db, "folder", id)
<1> DEFINE rows == {r \in db.folder : r.id = id}
           B == FoldersBelow(db, id)
           F == FilesWithin(db, B)
           X == Below(db, B, F)
<1>1. SqlWhere(db, "folder", [id |-> Eq(id)]) = rows
  BY FoundById
<1>2. CASE rows = {}
  BY <1>1, <1>2 DEF FolderDelete, SqlDelete
<1>3. CASE rows # {}
  <2>1. id \in {f.id : f \in db.folder} /\ {<<"folder", r.id>> : r \in rows} = {<<"folder", id>>}
    BY <1>3
  <2>2. Doomed(db, "folder", rows) = X
    <3> HIDE DEF rows
    <3> QED BY <2>1, DoomedIsBelow DEF Keyed
  <2> DEFINE old == DeleteFolderCascade(db, id)
             new == [t \in DOMAIN db |-> {r \in db[t] : <<t, r.id>> \notin X}]
  <2>3. DOMAIN db = Tables
    BY DEF Keyed
  <2>4. old = [db EXCEPT !.folder = {f \in @ : f.id \notin B}, !.file = {f \in @ : f.id \notin F},
                         !.chunk = {c \in @ : c.file \notin F},
                         !.session = {s \in @ : s.file \notin F}]
    BY DEF DeleteFolderCascade, FilesWithin
  <2> HIDE DEF old, B, F
  <2>5. ASSUME NEW t \in Tables PROVE old[t] = new[t]
    <3>1. CASE t \in Tables \ {"folder", "file", "chunk", "session"}
      <4>1. old[t] = db[t]
        BY <2>3, <2>4, <3>1
      <4>2. \A y : <<t, y>> \notin X
        BY <3>1 DEF Below
      <4> HIDE DEF X
      <4> QED BY <2>3, <4>1, <4>2
    <3>2. CASE t = "folder"
      <4>1. \A y : <<"folder", y>> \in X <=> y \in B
        BY DEF Below
      <4> HIDE DEF X
      <4> QED BY <2>3, <2>4, <3>2, <4>1 DEF Tables
    <3>3. CASE t = "file"
      <4>1. \A y : <<"file", y>> \in X <=> y \in F
        BY DEF Below
      <4> HIDE DEF X
      <4> QED BY <2>3, <2>4, <3>3, <4>1 DEF Tables
    <3>4. CASE t = "chunk"
      <4>1. \A c, d \in db.chunk : c.id = d.id => c = d
        BY DEF Keyed, Tables
      <4>2. \A c \in db.chunk : <<"chunk", c.id>> \in X <=> c.file \in F
        BY <4>1 DEF Below
      <4> HIDE DEF X
      <4> QED BY <2>3, <2>4, <3>4, <4>2 DEF Tables
    <3>5. CASE t = "session"
      <4>1. \A c, d \in db.session : c.id = d.id => c = d
        BY DEF Keyed, Tables
      <4>2. \A c \in db.session : <<"session", c.id>> \in X <=> c.file \in F
        BY <4>1 DEF Below
      <4> HIDE DEF X
      <4> QED BY <2>3, <2>4, <3>5, <4>2 DEF Tables
    <3> QED BY <3>1, <3>2, <3>3, <3>4, <3>5
  <2>6. old = [t \in Tables |-> old[t]]
    BY <2>4 DEF Keyed
  <2>7. old = new
    <3> HIDE DEF X
    <3> QED BY <2>3, <2>5, <2>6
  <2>8. FolderDelete(db, id) = Done(old, rows)
    BY <1>3 DEF FolderDelete, old
  <2>9. SqlDelete(db, "folder", id) = Done(new, rows)
    <3> HIDE DEF X, rows
    <3> QED BY <1>1, <1>3, <2>2 DEF SqlDelete, SqlDeleteAll
  <2> QED BY <2>7, <2>8, <2>9
<1> QED BY <1>2, <1>3

\* What goes first has gone in every later round, and only rows go.
LEMMA WavesGrow ==
  ASSUME NEW db, NEW W, \A n \in Nat : W[n + 1] = W[n] \union Referring(db, W[n])
  PROVE  \A n \in Nat : W[0] \subseteq W[n]
<1> DEFINE P == {n \in Nat : W[0] \subseteq W[n]}
<1>1. P \in SUBSET Nat /\ 0 \in P /\ \A n \in P : n + 1 \in P
  OBVIOUS
<1>2. P = Nat
  <2> HIDE DEF P
  <2> QED BY <1>1, SetInduction
<1> QED BY <1>2

RowsOf(db) == UNION {{<<t, r.id>> : r \in db[t]} : t \in Tables}
LEMMA DoomedAreRows ==
  ASSUME NEW db, IsFiniteSet(db.folder), NEW table \in Tables, NEW rows \in SUBSET db[table]
  PROVE  /\ {<<table, r.id>> : r \in rows} \subseteq Doomed(db, table, rows)
         /\ Doomed(db, table, rows) \subseteq RowsOf(db)
<1> DEFINE N == Cardinality(db.folder)
           first == {<<table, r.id>> : r \in rows}
           W == Waves(db, first)
<1>0. Doomed(db, table, rows) = W[N + 2]
  BY DEF Doomed
<1>1. W[0] = first /\ \A n \in Nat : W[n + 1] = W[n] \union Referring(db, W[n])
  <2> HIDE DEF first
  <2> QED BY WavesAre
<1> HIDE DEF W
<1>2. N + 2 \in Nat
  BY FS_CardinalityType
<1>3. Referring(db, RowsOf(db)) \subseteq RowsOf(db)
  <2> SUFFICES ASSUME NEW x \in Referring(db, RowsOf(db)) PROVE x \in RowsOf(db)
    OBVIOUS
  <2>1. PICK key \in ForeignKeys : x \in {<<key[1], r.id>> : r \in db[key[1]]}
    <3> DEFINE S == RowsOf(db)
    <3> HIDE DEF S
    <3>1. ASSUME NEW y \in Referring(db, S)
          PROVE  \E key \in ForeignKeys : y \in {<<key[1], r.id>> : r \in db[key[1]]}
      <4>1. PICK key \in ForeignKeys :
              y \in {<<key[1], r.id>> : r \in {q \in db[key[1]] : <<key[3], q[key[2]]>> \in S}}
        BY DEF Referring
      <4>2. y \in {<<key[1], r.id>> : r \in db[key[1]]}
        BY <4>1
      <4> QED BY <4>2
    <3> QED BY <3>1 DEF S
  <2>2. key[1] \in Tables
    BY DEF ForeignKeys, Tables
  <2> QED BY <2>1, <2>2 DEF RowsOf
<1>4. W[0] \subseteq RowsOf(db)
  <2>1. {<<table, r.id>> : r \in db[table]} \subseteq RowsOf(db)
    BY DEF RowsOf
  <2>2. first \subseteq {<<table, r.id>> : r \in db[table]}
    OBVIOUS
  <2> QED BY <1>1, <2>1, <2>2
<1> HIDE DEF first
<1>5. \A n \in Nat : W[n] \subseteq RowsOf(db)
  BY <1>1, <1>3, <1>4, WavesWithin
<1>6. \A n \in Nat : W[0] \subseteq W[n]
  BY <1>1, WavesGrow
<1> QED BY <1>0, <1>1, <1>2, <1>5, <1>6 DEF first

\* Deleting a file takes its chunks and its session along on both sides.
THEOREM FileDeletesAgree ==
  ASSUME NEW db, Keyed(db), NEW id, id # Null
  PROVE  FileDelete(db, id) = SqlDelete(db, "file", id)
<1> DEFINE rows == {r \in db.file : r.id = id}
           N == Cardinality(db.folder)
           X == Below(db, {}, {id})
<1>1. SqlWhere(db, "file", [id |-> Eq(id)]) = rows
  BY FoundById
<1>2. CASE rows = {}
  BY <1>1, <1>2 DEF FileDelete, SqlDelete
<1>3. CASE rows # {}
  <2>1. {<<"file", r.id>> : r \in rows} = {<<"file", id>>}
    BY <1>3
  <2> HIDE DEF rows
  <2> DEFINE W == Waves(db, {<<"file", id>>})
  <2>0. Doomed(db, "file", rows) = W[N + 2]
    BY <2>1 DEF Doomed
  <2>2. W[0] = {<<"file", id>>} /\ \A n \in Nat : W[n + 1] = W[n] \union Referring(db, W[n])
    BY WavesAre
  <2> HIDE DEF W
  <2>3. N + 2 \in Nat /\ N + 1 \in Nat /\ N + 1 + 1 = N + 2
    BY FS_CardinalityType DEF Keyed
  <2>4. W[N + 2] \subseteq X
    <3>1. Referring(db, X) \subseteq X
      <4>1. InsideOf(db, {}) \subseteq {} /\ FilesWithin(db, {}) \subseteq {id}
        BY DEF InsideOf, FilesWithin
      <4> QED BY <4>1, BelowCloses
    <3>2. W[0] \subseteq X
      BY <2>2 DEF Below
    <3> HIDE DEF X
    <3>3. \A n \in Nat : W[n] \subseteq X
      BY <2>2, <3>1, <3>2, WavesWithin
    <3> QED BY <2>3, <3>3
  <2>5. X \subseteq W[N + 2]
    <3> DEFINE n == N + 1
    <3>1. n \in Nat /\ n + 1 = N + 2
      BY <2>3
    <3> HIDE DEF n
    <3>2. <<"file", id>> \in W[n]
      <4>1. W[0] \subseteq W[n]
        BY <2>2, <3>1, WavesGrow
      <4> QED BY <2>2, <4>1
    <3>3. /\ W[n] \subseteq W[n + 1]
          /\ \A c \in db.chunk : <<"file", c.file>> \in W[n] => <<"chunk", c.id>> \in W[n + 1]
          /\ \A t \in db.session : <<"file", t.file>> \in W[n] => <<"session", t.id>> \in W[n + 1]
      BY <2>2, <3>1, WavesReach
    <3> QED BY <3>1, <3>2, <3>3 DEF Below
  <2>6. Doomed(db, "file", rows) = X
    BY <2>0, <2>4, <2>5
  <2> DEFINE old == DeleteFileCascade(db, id)
             new == [t \in DOMAIN db |-> {r \in db[t] : <<t, r.id>> \notin X}]
  <2>7. DOMAIN db = Tables
    BY DEF Keyed
  <2>8. SessionOf(db, id) = {s \in db.session : s.file = id}
    <3> DEFINE S == {s \in db.session : s.file = id}
    <3>1. CASE S = {}
      BY <3>1 DEF SessionOf, First
    <3>2. CASE S # {}
      <4>1. PICK s \in S : S = {s} /\ s.id \in Nat
        BY <3>2 DEF Keyed
      <4> HIDE DEF S
      <4>2. (CHOOSE r \in S : \A q \in S : r.id <= q.id) = s
        BY <4>1
      <4> QED BY <3>2, <4>1, <4>2 DEF SessionOf, First, S
    <3> QED BY <3>1, <3>2
  <2>9. old = [db EXCEPT !.chunk = @ \ {c \in db.chunk : c.file = id},
                         !.session = @ \ {s \in db.session : s.file = id},
                         !.file = {f \in @ : f.id # id}]
    BY <2>8 DEF DeleteFileCascade, ChunksOf
  <2> HIDE DEF old
  <2>10. ASSUME NEW t \in Tables PROVE old[t] = new[t]
    <3>1. CASE t \in Tables \ {"file", "chunk", "session"}
      <4>1. old[t] = db[t]
        BY <2>7, <2>9, <3>1
      <4>2. \A y : <<t, y>> \notin X
        BY <3>1 DEF Below
      <4> HIDE DEF X
      <4> QED BY <2>7, <4>1, <4>2
    <3>2. CASE t = "file"
      <4>1. \A y : <<"file", y>> \in X <=> y = id
        BY DEF Below
      <4> HIDE DEF X
      <4> QED BY <2>7, <2>9, <3>2, <4>1 DEF Tables
    <3>3. CASE t = "chunk"
      <4>1. \A c, d \in db.chunk : c.id = d.id => c = d
        BY DEF Keyed, Tables
      <4>2. \A c \in db.chunk : <<"chunk", c.id>> \in X <=> c.file = id
        BY <4>1 DEF Below
      <4> HIDE DEF X
      <4> QED BY <2>7, <2>9, <3>3, <4>2 DEF Tables
    <3>4. CASE t = "session"
      <4>1. \A c, d \in db.session : c.id = d.id => c = d
        BY DEF Keyed, Tables
      <4>2. \A c \in db.session : <<"session", c.id>> \in X <=> c.file = id
        BY <4>1 DEF Below
      <4> HIDE DEF X
      <4> QED BY <2>7, <2>9, <3>4, <4>2 DEF Tables
    <3> QED BY <3>1, <3>2, <3>3, <3>4
  <2>11. old = [t \in Tables |-> old[t]]
    BY <2>9 DEF Keyed
  <2>12. old = new
    <3> HIDE DEF X
    <3> QED BY <2>7, <2>10, <2>11
  <2>13. FileDelete(db, id) = Done(old, rows)
    BY <1>3 DEF FileDelete, old, rows
  <2>14. SqlDelete(db, "file", id) = Done(new, rows)
    <3> HIDE DEF X
    <3> QED BY <1>1, <1>3, <2>6 DEF SqlDelete, SqlDeleteAll
  <2> QED BY <2>12, <2>13, <2>14
<1> QED BY <1>2, <1>3

\* Deleting folders by owner or by ids does not cascade in the fake: it agrees with
\* the schema when nothing else refers to the folders that go, and only then.
THEOREM FolderSweepsAgree ==
  ASSUME NEW db, Keyed(db), NEW user, user # Null, NEW ids, Null \notin ids,
         NEW where \in {[owner |-> Eq(user)], [owner |-> Eq(user), id |-> In(ids)]}
  PROVE  LET rows == SqlWhere(db, "folder", where)
             left == Doomed(db, "folder", rows) \ {<<"folder", r.id>> : r \in rows}
         IN  FolderDeleteMany(db, where) = SqlDeleteAll(db, "folder", rows) <=> left = {}
<1> DEFINE rows == SqlWhere(db, "folder", where)
           first == {<<"folder", r.id>> : r \in rows}
           doomed == Doomed(db, "folder", rows)
           old == Put(db, "folder", db.folder \ rows)
           new == [t \in DOMAIN db |-> {r \in db[t] : <<t, r.id>> \notin doomed}]
<1>1. FolderDeleteMany(db, where) = Done(old, rows)
  <2>1. /\ \A v : SqlHolds(v, Eq(user)) <=> v = user
        /\ \A v : SqlHolds(v, In(ids)) <=> v \in ids
    BY DEF SqlHolds, Eq, In
  <2>2. CASE where = [owner |-> Eq(user)]
    <3>1. \A r : (\A column \in DOMAIN where : SqlHolds(r[column], where[column]))
                   <=> r.owner = user
      BY <2>1, <2>2
    <3>2. rows = {r \in db.folder : r.owner = user}
      BY <3>1 DEF SqlWhere
    <3>3. /\ "owner" \in DOMAIN where /\ where.owner.v = user
          /\ "id" \notin DOMAIN where
      BY <2>2 DEF Eq
    <3> HIDE DEF rows
    <3> QED BY <3>2, <3>3 DEF FolderDeleteMany
  <2>3. CASE where = [owner |-> Eq(user), id |-> In(ids)]
    <3>1. \A r : (\A column \in DOMAIN where : SqlHolds(r[column], where[column]))
                   <=> r.owner = user /\ r.id \in ids
      BY <2>1, <2>3
    <3>2. rows = {r \in db.folder : r.owner = user /\ r.id \in ids}
      BY <3>1 DEF SqlWhere
    <3>3. /\ "owner" \in DOMAIN where /\ where.owner.v = user
          /\ "id" \in DOMAIN where /\ where.id.v = ids
      BY <2>3 DEF Eq, In
    <3> HIDE DEF rows
    <3> QED BY <3>2, <3>3 DEF FolderDeleteMany
  <2> QED BY <2>2, <2>3
<1>2. SqlDeleteAll(db, "folder", rows) = Done(new, rows)
  <2> HIDE DEF rows
  <2> QED BY DEF SqlDeleteAll
<1>3. Done(old, rows) = Done(new, rows) <=> old = new
  <2> HIDE DEF rows, old, new
  <2> QED BY DEF Done
<1>4. DOMAIN db = Tables /\ \A r, q \in db.folder : r.id = q.id => r = q
  BY DEF Keyed, Tables
<1>5. rows \in SUBSET db.folder
  BY DEF SqlWhere
<1> HIDE DEF rows
<1>6. first \subseteq doomed /\ doomed \subseteq RowsOf(db)
  BY <1>5, DoomedAreRows DEF Keyed, Tables
<1>7. \A t \in Tables : old[t] = IF t = "folder" THEN db.folder \ rows ELSE db[t]
  BY <1>4 DEF Put
<1>8. old = [t \in Tables |-> old[t]]
  BY DEF Keyed, Put
<1>9. \A t \in Tables : new[t] = {r \in db[t] : <<t, r.id>> \notin doomed}
  BY <1>4
<1>10. ASSUME old = new, NEW x \in doomed PROVE x \in first
  <2>1. PICK t \in Tables, r \in UNION {db[u] : u \in Tables} : r \in db[t] /\ x = <<t, r.id>>
    BY <1>6, <1>10 DEF RowsOf
  <2> HIDE DEF doomed, old, new
  <2>2. r \notin old[t]
    BY <1>9, <1>10, <2>1
  <2>3. t = "folder" /\ r \in rows
    BY <1>7, <2>1, <2>2
  <2> QED BY <2>1, <2>3
<1>11. ASSUME doomed = first PROVE old = new
  <2>1. \A r \in db.folder : <<"folder", r.id>> \in first <=> r \in rows
    BY <1>4, <1>5
  <2>2. \A t : \A y : <<t, y>> \in first => t = "folder"
    OBVIOUS
  <2> HIDE DEF doomed, first, old
  <2>3. ASSUME NEW t \in Tables PROVE old[t] = {r \in db[t] : <<t, r.id>> \notin doomed}
    <3>1. CASE t = "folder"
      BY <1>5, <1>7, <1>11, <2>1, <3>1
    <3>2. CASE t # "folder"
      BY <1>7, <1>11, <2>2, <3>2
    <3> QED BY <3>1, <3>2
  <2> QED BY <1>4, <1>8, <2>3
<1>12. old = new <=> doomed \ first = {}
  <2> HIDE DEF old, new, doomed, first
  <2> QED BY <1>6, <1>10, <1>11
<1>13. FolderDeleteMany(db, where) = SqlDeleteAll(db, "folder", rows) <=> doomed \ first = {}
  <2> HIDE DEF old, new, doomed, first
  <2> QED BY <1>1, <1>2, <1>3, <1>12
<1> QED BY <1>13 DEF rows
=============================================================================
