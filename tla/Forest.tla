------------------------------- MODULE Forest -------------------------------
(***************************************************************************)
(* What the folder service promises of the folder tree: folders are        *)
(* created as leaves, a folder is moved only to a place outside its own    *)
(* subtree, and folders are removed with everything below them.  Whatever  *)
(* else the requests do, the tree stays a forest.                          *)
(***************************************************************************)
CONSTANTS Folders, Root, Unborn, Gone

VARIABLE parent     \* parent[f]: the parent of f, Root, Unborn or Gone

NotFolders == {Root, Unborn, Gone}
ASSUME ForestAssumption ==
    NotFolders \intersect Folders = {} /\ Root # Unborn /\ Root # Gone /\ Unborn # Gone

\* A set of folders with everything below it.
Closed(S) == \A f \in Folders : parent[f] \in S => f \in S

Live(p) == p = Root \/ (p \in Folders /\ parent[p] \notin {Unborn, Gone})

\* No set of folders orbits: every non-empty set of folders has a member
\* whose parent is outside it (walking up from a folder reaches the root).
Acyclic == \A S \in SUBSET Folders : (\A f \in S : parent[f] \in S) => S = {}

\* The parent of a folder exists (the schema's foreign key).
Attached == \A f \in Folders : parent[f] \in Folders => Live(parent[f])

ForestInit ==
    /\ parent \in [Folders -> Folders \union {Root, Unborn}]
    /\ Acyclic /\ Attached

AddFolder(f, p) ==
    /\ parent[f] = Unborn /\ Live(p)
    /\ parent' = [parent EXCEPT ![f] = p]

MoveFolder(f, p) ==
    /\ parent[f] \notin {Unborn, Gone} /\ Live(p)
    /\ \E S \in SUBSET Folders : Closed(S) /\ f \in S /\ p \notin S
    /\ parent' = [parent EXCEPT ![f] = p]

RemoveFolders(S) ==
    /\ Closed(S)
    /\ parent' = [f \in Folders |-> IF f \in S THEN Gone ELSE parent[f]]

ForestNext ==
    \/ \E f \in Folders, p \in Folders \union {Root} : AddFolder(f, p) \/ MoveFolder(f, p)
    \/ \E S \in SUBSET Folders : RemoveFolders(S)

ForestSpec == ForestInit /\ [][ForestNext]_parent
=============================================================================
