------------------------------ MODULE MCDrive -------------------------------
(* Instances of Drive for TLC: three folders below or beside each other, one *)
(* more to be made, and two files.                                           *)
EXTENDS Drive, TestDatabase

CONSTANTS f1, f2, f3, f4, x1, x2, na, nb, nc, r1, r2

Start(p2, p3, at1, at2, s1, s2) ==
    [parent |-> f1 :> Root @@ f2 :> p2 @@ f3 :> p3 @@ f4 :> Unborn,
     name |-> f1 :> na @@ f2 :> nb @@ f3 :> nc @@ f4 :> nc,
     place |-> x1 :> at1 @@ x2 :> at2,
     status |-> x1 :> s1 @@ x2 :> s2]

\* A chain, siblings, two roots; the second file stored, on its way, lost or
\* not there yet.
Starts ==
    {Start(f1, f2, f3, f2, "READY", "READY"), Start(f1, f1, f2, Root, "READY", "UPLOADING"),
     Start(Root, f1, f3, f2, "READY", "LOST"), Start(f1, Unborn, f2, Unborn, "READY", "UPLOADING")}

Op(kind, folder, to, path, file) ==
    [kind |-> kind, folder |-> folder, to |-> to, path |-> path, file |-> file]
OnFolders(kind, fs) == {Op(kind, f, Root, <<>>, Root) : f \in fs}

Moves == {Op("move", f1, f2, <<>>, Root), Op("move", f2, f3, <<>>, Root),
          Op("move", f2, f1, <<>>, Root), Op("move", f3, Root, <<>>, Root)}
Makes == {Op("create", Root, f2, <<na>>, Root), Op("ensure", Root, f1, <<nb, na>>, Root),
          Op("ensure", Root, Root, <<nb>>, Root), Op("rename", f2, Root, <<na>>, Root)}
FolderOps == OnFolders("delete", {f1, f2}) \union OnFolders("ifEmpty", {f1, f2, f3})
             \union OnFolders("list", {f3}) \union OnFolders("zip", {f1})
FileOps == {Op("moveFile", Root, f2, <<>>, x2), Op("moveFile", Root, Root, <<>>, x1),
            Op("deleteFile", Root, Root, <<>>, x1), Op("upload", Root, f2, <<>>, x2)}
AllOps == Moves \union Makes \union FolderOps \union FileOps
MovesOnly == Moves
OneMover == {r1}
TwoMovers == {r1, r2}

\* Databases the tests' stand-in is compared on: an account with three folders and
\* two files, one still arriving, and an account with nothing but itself.
Stored(p2, p3, at1, at2, checked) ==
    [user |-> {[id |-> 1, email |-> 1, password |-> 1], [id |-> 2, email |-> 2, password |-> 1]},
     reset |-> {[id |-> 1, hash |-> 1, user |-> 1, used |-> Null]},
     refresh |-> {[id |-> 1, hash |-> 1, user |-> 1, revoked |-> 1],
                  [id |-> 2, hash |-> 2, user |-> 1, revoked |-> Null],
                  [id |-> 3, hash |-> 3, user |-> 2, revoked |-> Null]},
     connection |-> {[id |-> 1, user |-> 1, status |-> Code.CONNECTED, checked |-> checked]},
     folder |-> {[id |-> 1, parent |-> Null, owner |-> 1, name |-> 1],
                 [id |-> 2, parent |-> p2, owner |-> 1, name |-> 2],
                 [id |-> 3, parent |-> p3, owner |-> 1, name |-> 3]},
     file |-> {[id |-> 1, folder |-> at1, owner |-> 1, status |-> Code.READY, size |-> 2],
               [id |-> 2, folder |-> at2, owner |-> 1, status |-> Code.UPLOADING, size |-> 2]},
     chunk |-> {[id |-> 1, file |-> 1, index |-> 0, status |-> Code.UPLOADED, attempts |-> 1],
                [id |-> 2, file |-> 2, index |-> 0, status |-> Code.UPLOADED, attempts |-> 1],
                [id |-> 3, file |-> 2, index |-> 1, status |-> Code.PENDING, attempts |-> 0]},
     session |-> {[id |-> 1, file |-> 2, next |-> 1]}]
SmallDatabases ==
    {Stored(p[1], p[2], at[1], at[2], checked) :
       p \in {<<1, 2>>, <<1, 1>>, <<0, 2>>}, at \in {<<0, 3>>, <<2, 3>>, <<3, 1>>},
       checked \in {Null, 2}}
ShortLogs == UNION {{[i \in 1..n |-> [id |-> i, user |-> who[i]]] : who \in [1..n -> 1..2]} : n \in 0..4}
=============================================================================
