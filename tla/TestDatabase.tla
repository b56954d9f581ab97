----------------------------- MODULE TestDatabase -----------------------------
(***************************************************************************)
(* The database the API's tests run against: createFakePrisma (apps/api/   *)
(* src/test-utils/fake-prisma.ts), in memory, call by call, compared with  *)
(* what prisma/schema.prisma makes of the same call: unique keys, foreign  *)
(* keys, ON DELETE CASCADE, and comparisons that are never true of NULL.   *)
(* A test that passes on the fake says something of the program where the  *)
(* two agree, and this module says where that is.  A table is a set of     *)
(* rows with the columns that decide; ids, hashes, dates and statuses are  *)
(* positive integers.  The order of rows is left out, but for the log's;   *)
(* so are a session's owner, the search by part of a name, and take.       *)
(***************************************************************************)
EXTENDS Integers, Sequences, FiniteSets, SequencesExt

CONSTANTS
    Databases,  \* bound: the databases the two are compared on, as the schema allows them
    Logs        \* bound: the activity logs, as sequences of events in the order of their ids

Null == 0
Code == [PENDING |-> 1, UPLOADING |-> 2, UPLOADED |-> 3, READY |-> 4, CONNECTED |-> 5, ERROR |-> 6]

\* Filters of a where clause.
Anything == [op |-> "any"]
Eq(v) == [op |-> "eq", v |-> v]
In(S) == [op |-> "in", v |-> S]
Not(v) == [op |-> "not", v |-> v]
Before(v) == [op |-> "before", v |-> v]
Filter(where, column) == IF column \in DOMAIN where THEN where[column] ELSE Anything

\* What a call leaves and returns: a refused call throws and changes nothing.
Done(db, rows) == [db |-> db, ok |-> TRUE, rows |-> rows]
Refused(db) == [db |-> db, ok |-> FALSE, rows |-> {}]
Assign(row, data) == data @@ row
First(S) == IF S = {} THEN {} ELSE {CHOOSE r \in S : \A q \in S : r.id <= q.id}
Put(db, table, rows) == [db EXCEPT ![table] = rows]
-----------------------------------------------------------------------------
\* The fake's matchers.
MatchesIdFilter(value, filter) ==
    CASE filter.op = "any" -> TRUE
      [] filter.op = "eq" -> value = filter.v
      [] filter.op = "in" -> value # Null /\ value \in filter.v

MatchesStatus(value, filter) ==
    CASE filter.op = "any" -> TRUE
      [] filter.op = "not" -> value # filter.v
      [] filter.op = "eq" -> value = filter.v

\* Object.assign on the row of an id, or an error.
Updated(db, table, id, data) ==
    LET row == {r \in db[table] : r.id = id}
        new == {Assign(r, data) : r \in row} IN
    IF row = {} THEN Refused(db) ELSE Done(Put(db, table, (db[table] \ row) \union new), new)

UpdatedAll(db, table, rows, data) ==
    Done(Put(db, table, (db[table] \ rows) \union {Assign(r, data) : r \in rows}), rows)

Added(db, table, row) == Done(Put(db, table, db[table] \union {row}), {row})
-----------------------------------------------------------------------------
UserFindUnique(db, where) ==
    Done(db, First({r \in db.user : \/ "email" \in DOMAIN where /\ r.email = where.email.v
                                    \/ "id" \in DOMAIN where /\ r.id = where.id.v}))
UserCreate(db, data) == Added(db, "user", data)
UserUpdate(db, id, data) == Updated(db, "user", id, data)

ResetCreate(db, data) == Added(db, "reset", Assign(data, "used" :> Null))
ResetFindUnique(db, where) == Done(db, First({r \in db.reset : r.hash = where.hash.v}))
ResetUpdate(db, id, data) == Updated(db, "reset", id, data)

RefreshCreate(db, data) == Added(db, "refresh", Assign(data, "revoked" :> Null))
RefreshFindUnique(db, where) == Done(db, First({r \in db.refresh : r.hash = where.hash.v}))
RefreshUpdate(db, id, data) == Updated(db, "refresh", id, data)
RefreshUpdateMany(db, where, data) ==
    LET hash == Filter(where, "hash")
        rows == {r \in db.refresh :
                   /\ "user" \in DOMAIN where => r.user = where.user.v
                   /\ \/ hash.op = "any"
                      \/ hash.op = "eq" /\ r.hash = hash.v
                      \/ hash.op = "not" /\ r.hash # hash.v
                   /\ "revoked" \in DOMAIN where => r.revoked = where.revoked.v} IN
    UpdatedAll(db, "refresh", rows, data)
-----------------------------------------------------------------------------
FindConnection(db, where) ==
    First({r \in db.connection : \/ "user" \in DOMAIN where /\ r.user = where.user.v
                                 \/ "id" \in DOMAIN where /\ r.id = where.id.v})
ConnectionFindUnique(db, where) == Done(db, FindConnection(db, where))
ConnectionUpsert(db, where, create, update) ==
    LET row == FindConnection(db, where) IN
    IF row # {} THEN LET new == {Assign(r, update) : r \in row} IN
                     Done(Put(db, "connection", (db.connection \ row) \union new), new)
    ELSE Added(db, "connection", Assign(create, "checked" :> Null))
ConnectionUpdate(db, id, data) == Updated(db, "connection", id, data)
ConnectionDelete(db, id) ==
    LET row == {r \in db.connection : r.id = id} IN
    IF row = {} THEN Refused(db) ELSE Done(Put(db, "connection", db.connection \ row), row)
ConnectionUpdateMany(db, where, data) ==
    UpdatedAll(db, "connection",
               {r \in db.connection : /\ "user" \in DOMAIN where => r.user = where.user.v
                                      /\ "status" \in DOMAIN where => r.status = where.status.v},
               data)
\* The sweep's query: never checked, or not since a date.
ConnectionFindStale(db, where) ==
    Done(db, {r \in db.connection :
                /\ "status" \in DOMAIN where => r.status = where.status.v
                /\ \/ r.checked = Null
                   \/ r.checked # Null /\ r.checked < where.checked.v})
-----------------------------------------------------------------------------
\* The activity log is the sequence of its events, and so are its pages: a page
\* has one event more than it shows, to know whether there is another.
AuditCreate(log, event) == Append(log, event)
AuditFindMany(log, user, take, cursor, skip) ==
    LET rows == Reverse(SelectSeq(log, LAMBDA e : e.user = user))
        at == {i \in DOMAIN rows : rows[i].id = cursor}
        start == IF cursor = Null THEN 0
                 ELSE IF at = {} THEN Len(rows) ELSE (CHOOSE i \in at : TRUE) - 1 + skip IN
    SubSeq(rows, start + 1, IF start + take < Len(rows) THEN start + take ELSE Len(rows))
ActivityPage(log, user, size, cursor) ==
    LET events == AuditFindMany(log, user, size + 1, cursor, 1) IN
    [events |-> SubSeq(events, 1, IF Len(events) > size THEN size ELSE Len(events)),
     next |-> IF Len(events) > size THEN events[size].id ELSE Null]
-----------------------------------------------------------------------------
ChunksOf(db, file) == {c \in db.chunk : c.file = file}
SessionOf(db, file) == First({s \in db.session : s.file = file})

DeleteFileCascade(db, file) ==
    [db EXCEPT !.chunk = @ \ ChunksOf(db, file), !.session = @ \ SessionOf(db, file),
               !.file = {f \in @ : f.id # file}]

\* The recursion reaches the folders below, and then their files.  (On a cycle of
\* folders the code's would not end; this one has then found them all.)
InsideOf(db, folders) == {f.id : f \in {g \in db.folder : g.parent \in folders}}
Reach(db, folder) ==
    LET below[n \in Nat] ==
            IF n = 0 THEN {folder} ELSE below[n - 1] \union InsideOf(db, below[n - 1]) IN
    below
FoldersBelow(db, folder) == Reach(db, folder)[Cardinality(db.folder)]
DeleteFolderCascade(db, folder) ==
    LET below == FoldersBelow(db, folder)
        files == {f.id : f \in {g \in db.file : g.folder \in below}} IN
    [db EXCEPT !.folder = {f \in @ : f.id \notin below},
               !.file = {f \in @ : f.id \notin files},
               !.chunk = {c \in @ : c.file \notin files},
               !.session = {s \in @ : s.file \notin files}]

FolderFindUnique(db, where) == Done(db, {r \in db.folder : r.id = where.id.v})
FolderFindFirst(db, where) ==
    Done(db, First({r \in db.folder : /\ r.owner = where.owner.v /\ r.parent = where.parent.v
                                      /\ r.name = where.name.v}))
FolderFindMany(db, where) ==
    Done(db, {r \in db.folder : /\ r.owner = where.owner.v
                                /\ MatchesIdFilter(r.parent, Filter(where, "parent"))})
FolderCreate(db, data) == Added(db, "folder", data)
FolderUpdate(db, id, data) == Updated(db, "folder", id, data)
FolderDelete(db, id) ==
    LET row == {r \in db.folder : r.id = id} IN
    IF row = {} THEN Refused(db) ELSE Done(DeleteFolderCascade(db, id), row)
\* No cascade here.
FolderDeleteMany(db, where) ==
    LET rows == {r \in db.folder : /\ "owner" \in DOMAIN where => r.owner = where.owner.v
                                   /\ "id" \in DOMAIN where => r.id \in where.id.v} IN
    Done(Put(db, "folder", db.folder \ rows), rows)
FolderCount(db, where) == Done(db, {r \in db.folder : r.owner = where.owner.v})
-----------------------------------------------------------------------------
FileFindUnique(db, where) == Done(db, {r \in db.file : r.id = where.id.v})
FileFindMany(db, where) ==
    Done(db, {r \in db.file : /\ r.owner = where.owner.v
                              /\ MatchesIdFilter(r.folder, Filter(where, "folder"))
                              /\ "status" \in DOMAIN where => r.status = where.status.v})
FileCount(db, where) ==
    Done(db, {r \in db.file : /\ r.owner = where.owner.v
                              /\ MatchesIdFilter(r.folder, Filter(where, "folder"))
                              /\ MatchesStatus(r.status, Filter(where, "status"))})
\* aggregate sums over the same rows; the sum of none is null.
FileAggregate(db, where) ==
    LET rows == FileCount(db, where).rows IN
    [count |-> Cardinality(rows),
     sum |-> IF rows = {} THEN Null ELSE FoldSet(LAMBDA r, total : r.size + total, 0, rows)]
\* A file is created with its chunks and its session.
FileCreate(db, data, chunks, session) ==
    Done([db EXCEPT !.file = @ \union {data},
                    !.chunk = @ \union {Assign(c, [file |-> data.id, status |-> Code.PENDING,
                                                   attempts |-> 0]) : c \in chunks},
                    !.session = @ \union {Assign(s, [file |-> data.id, next |-> 0]) : s \in session}],
         {data})
FileUpdate(db, id, data) == Updated(db, "file", id, data)
FileDelete(db, id) ==
    LET row == {r \in db.file : r.id = id} IN
    IF row = {} THEN Refused(db) ELSE Done(DeleteFileCascade(db, id), row)
FileDeleteMany(db, where) ==
    LET rows == {r \in db.file : /\ "owner" \in DOMAIN where => r.owner = where.owner.v
                                 /\ "id" \in DOMAIN where => r.id \in where.id.v} IN
    Done(FoldSet(LAMBDA r, d : DeleteFileCascade(d, r.id), db, rows), rows)

ChunkFindUnique(db, where) ==
    Done(db, First({c \in ChunksOf(db, where.file.v) : c.index = where.index.v}))
\* By file, or by its file's folder.
ChunkFindMany(db, where) ==
    IF "file" \in DOMAIN where THEN Done(db, ChunksOf(db, where.file.v))
    ELSE Done(db, {c \in db.chunk :
                     \E f \in db.file : /\ f.id = c.file /\ f.owner = where.owner.v
                                        /\ MatchesIdFilter(f.folder, Filter(where, "folder"))})
\* data.increment is attempts: { increment }.
ChunkUpdate(db, id, data, increment) ==
    LET row == {r \in db.chunk : r.id = id}
        new == {[Assign(r, data) EXCEPT !.attempts = @ + increment] : r \in row} IN
    IF row = {} THEN Refused(db) ELSE Done(Put(db, "chunk", (db.chunk \ row) \union new), new)
ChunkUpdateMany(db, where, data) ==
    UpdatedAll(db, "chunk",
               {c \in ChunksOf(db, where.file.v) :
                  /\ "index" \in DOMAIN where => c.index = where.index.v
                  /\ "status" \in DOMAIN where => c.status # where.status.v}, data)
ChunkCount(db, where) ==
    Done(db, {c \in ChunksOf(db, where.file.v) :
                "status" \in DOMAIN where => c.status # where.status.v})

SessionFindUnique(db, where) == Done(db, {r \in db.session : r.id = where.id.v})
SessionUpdate(db, id, data) == Updated(db, "session", id, data)
SessionDelete(db, id) ==
    LET row == {r \in db.session : r.id = id} IN
    IF row = {} THEN Refused(db) ELSE Done(Put(db, "session", db.session \ row), row)
-----------------------------------------------------------------------------
\* What the schema makes of a call.
ForeignKeys ==
    {<<"reset", "user", "user">>, <<"refresh", "user", "user">>, <<"connection", "user", "user">>,
     <<"folder", "owner", "user">>, <<"folder", "parent", "folder">>, <<"file", "owner", "user">>,
     <<"file", "folder", "folder">>, <<"chunk", "file", "file">>, <<"session", "file", "file">>}
UniqueKeys(table) ==
    CASE table = "user" -> {{"email"}}
      [] table \in {"reset", "refresh"} -> {{"hash"}}
      [] table = "connection" -> {{"user"}}
      [] table = "folder" -> {{"owner", "parent", "name"}}
      [] table = "chunk" -> {{"file", "index"}}
      [] table = "session" -> {{"file"}}
      [] table = "file" -> {}

\* Rows have ids of their own, and a file one session at most.
Tables == {"user", "reset", "refresh", "connection", "folder", "file", "chunk", "session"}
Keyed(db) ==
    /\ db = [t \in Tables |-> db[t]]
    /\ \A t \in Tables : \A r, q \in db[t] : r.id = q.id => r = q
    /\ \A s, t \in db.session : s.file = t.file => s = t
    /\ \A s \in db.session : s.id \in Nat
    /\ IsFiniteSet(db.folder)
ASSUME DatabasesKeyed == \A db \in Databases : Keyed(db)

\* No comparison is true of a column that is NULL; NULL itself is asked for by IS NULL.
SqlHolds(value, filter) ==
    CASE filter.op = "any" -> TRUE
      [] filter.op = "eq" /\ filter.v = Null -> value = Null
      [] filter.op = "eq" -> value # Null /\ value = filter.v
      [] filter.op = "in" -> value # Null /\ value \in filter.v
      [] filter.op = "not" -> value # Null /\ value # filter.v
      [] filter.op = "before" -> value # Null /\ value < filter.v
SqlWhere(db, table, where) ==
    {r \in db[table] : \A column \in DOMAIN where : SqlHolds(r[column], where[column])}

\* Keys are unique (NULLs are all different), and references lead somewhere.
Consistent(db) ==
    /\ \A key \in ForeignKeys : \A r \in db[key[1]] :
         r[key[2]] = Null \/ \E q \in db[key[3]] : q.id = r[key[2]]
    /\ \A table \in DOMAIN db : \A columns \in UniqueKeys(table) : \A r, q \in db[table] :
         (\A c \in columns : r[c] # Null /\ r[c] = q[c]) => r = q
SqlWrite(db, new, rows) == IF Consistent(new) THEN Done(new, rows) ELSE Refused(db)
SqlInsert(db, table, row) == SqlWrite(db, Put(db, table, db[table] \union {row}), {row})
SqlUpdateAll(db, table, rows, data) ==
    SqlWrite(db, Put(db, table, (db[table] \ rows) \union {Assign(r, data) : r \in rows}), rows)
SqlUpdate(db, table, id, data) ==
    LET rows == SqlWhere(db, table, [id |-> Eq(id)])
        new == {Assign(r, data) : r \in rows} IN
    IF rows = {} THEN Refused(db)
    ELSE SqlWrite(db, Put(db, table, (db[table] \ rows) \union new), new)

\* ON DELETE CASCADE: what refers to a row that goes, goes.
Referring(db, gone) ==
    UNION {{<<key[1], r.id>> : r \in {q \in db[key[1]] : <<key[3], q[key[2]]>> \in gone}}
           : key \in ForeignKeys}
Waves(db, first) ==
    LET gone[n \in Nat] ==
            IF n = 0 THEN first ELSE gone[n - 1] \union Referring(db, gone[n - 1]) IN
    gone
Doomed(db, table, rows) ==
    Waves(db, {<<table, r.id>> : r \in rows})[Cardinality(db.folder) + 2]
SqlDeleteAll(db, table, rows) ==
    LET doomed == Doomed(db, table, rows) IN
    Done([t \in DOMAIN db |-> {r \in db[t] : <<t, r.id>> \notin doomed}], rows)
SqlDelete(db, table, id) ==
    LET rows == SqlWhere(db, table, [id |-> Eq(id)]) IN
    IF rows = {} THEN Refused(db) ELSE SqlDeleteAll(db, table, rows)
-----------------------------------------------------------------------------
\* A call agrees when it leaves and returns what the schema's does; what the
\* schema refuses, for a key that is taken or a reference to nothing, the fake
\* lets pass.
Agrees(fake, sql) == fake = sql \/ (fake.ok /\ ~sql.ok)

Ids == 1..3
SomeWhere == {Eq(Null), Eq(1), In({1, 2}), In({})}
StatusWhere(status) == {Anything, Eq(status), Not(status)}
Query(db, table, where) == Done(db, SqlWhere(db, table, where))

\* Signing in, rotating and resetting read and write the same rows on both.
ASSUME AccountsAgree ==
    \A db \in Databases : \A id \in Ids :
      /\ UserFindUnique(db, [email |-> Eq(id)]) = Query(db, "user", [email |-> Eq(id)])
      /\ UserFindUnique(db, [id |-> Eq(id)]) = Query(db, "user", [id |-> Eq(id)])
      /\ UserUpdate(db, id, [password |-> 2]) = SqlUpdate(db, "user", id, [password |-> 2])
      /\ LET new == [id |-> 9, email |-> id, password |-> 1] IN
           Agrees(UserCreate(db, new), SqlInsert(db, "user", new))
      /\ LET new == [id |-> 9, hash |-> id + 1, user |-> id] IN
           /\ Agrees(ResetCreate(db, new), SqlInsert(db, "reset", Assign(new, [used |-> Null])))
           /\ Agrees(RefreshCreate(db, new), SqlInsert(db, "refresh", Assign(new, [revoked |-> Null])))
      /\ ResetFindUnique(db, [hash |-> Eq(id)]) = Query(db, "reset", [hash |-> Eq(id)])
      /\ ResetUpdate(db, id, [used |-> 1]) = SqlUpdate(db, "reset", id, [used |-> 1])
      /\ RefreshFindUnique(db, [hash |-> Eq(id)]) = Query(db, "refresh", [hash |-> Eq(id)])
      /\ RefreshUpdate(db, id, [revoked |-> 1]) = SqlUpdate(db, "refresh", id, [revoked |-> 1])
      /\ \A where \in {[user |-> Eq(id)], [hash |-> Eq(id), revoked |-> Eq(Null)],
                       [user |-> Eq(id), hash |-> Not(2), revoked |-> Eq(Null)]} :
           RefreshUpdateMany(db, where, [revoked |-> 2])
             = SqlUpdateAll(db, "refresh", SqlWhere(db, "refresh", where), [revoked |-> 2])

\* The connection's row, and the sweep's choice of those that are due.
ASSUME ConnectionsAgree ==
    \A db \in Databases : \A id \in Ids :
      /\ \A where \in {[user |-> Eq(id)], [id |-> Eq(id)]} :
           ConnectionFindUnique(db, where) = Query(db, "connection", where)
      /\ LET new == [id |-> 9, user |-> id, status |-> Code.PENDING]
             rows == SqlWhere(db, "connection", [user |-> Eq(id)]) IN
           Agrees(ConnectionUpsert(db, [user |-> Eq(id)], new, [status |-> Code.PENDING]),
                  IF rows = {} THEN SqlInsert(db, "connection", Assign(new, [checked |-> Null]))
                  ELSE SqlUpdate(db, "connection", (CHOOSE r \in rows : TRUE).id,
                                 [status |-> Code.PENDING]))
      /\ ConnectionUpdate(db, id, [status |-> Code.ERROR])
           = SqlUpdate(db, "connection", id, [status |-> Code.ERROR])
      /\ ConnectionDelete(db, id) = SqlDelete(db, "connection", id)
      /\ \A where \in {[user |-> Eq(id)], [user |-> Eq(id), status |-> Eq(Code.CONNECTED)]} :
           ConnectionUpdateMany(db, where, [status |-> Code.ERROR])
             = SqlUpdateAll(db, "connection", SqlWhere(db, "connection", where), [status |-> Code.ERROR])
      /\ LET due == [status |-> Eq(Code.CONNECTED)] IN
           ConnectionFindStale(db, Assign(due, [checked |-> Before(id)]))
             = Done(db, SqlWhere(db, "connection", Assign(due, [checked |-> Before(id)]))
                        \union SqlWhere(db, "connection", Assign(due, [checked |-> Eq(Null)])))

\* The pages that follow a cursor are the user's events before it, newest first,
\* each once, whatever is recorded while the user turns the pages.
ASSUME PagesFollow ==
    \A log \in Logs, later \in Logs, user \in 1..2, size \in 1..2 :
      LET newest == Reverse(SelectSeq(log, LAMBDA e : e.user = user))
          grown == log \o [i \in DOMAIN later |-> [later[i] EXCEPT !.id = @ + Len(log)]]
          Rest[from \in 0..Len(newest)] ==
              LET page == ActivityPage(grown, user, size, newest[from].id) IN
              IF page.next = Null THEN page.events
              ELSE page.events \o Rest[from + Len(page.events)] IN
      newest # <<>> => Rest[1] = SubSeq(newest, 2, Len(newest))

\* Folders, found, made, moved and deleted with what is below them.  A deletion by
\* owner or by ids agrees when nothing is left inside the folders that go.
ASSUME FoldersAgree ==
    \A db \in Databases : \A id \in Ids :
      /\ FolderFindUnique(db, [id |-> Eq(id)]) = Query(db, "folder", [id |-> Eq(id)])
      /\ \A parent \in 0..2 :
           LET where == [owner |-> Eq(1), parent |-> Eq(parent), name |-> Eq(id)]
               new == [id |-> 9, owner |-> 1, parent |-> parent, name |-> id] IN
           /\ parent # Null => FolderFindFirst(db, where) = Query(db, "folder", where)
           /\ FolderFindFirst(db, where).rows \subseteq SqlWhere(db, "folder", where)
           /\ Agrees(FolderCreate(db, new), SqlInsert(db, "folder", new))
           /\ \A data \in {[parent |-> parent], [name |-> id]} :
                Agrees(FolderUpdate(db, id, data), SqlUpdate(db, "folder", id, data))
      /\ \A filter \in SomeWhere :
           LET where == [owner |-> Eq(1), parent |-> filter] IN
           FolderFindMany(db, where) = Query(db, "folder", where)
      /\ FolderCount(db, [owner |-> Eq(id)]) = Query(db, "folder", [owner |-> Eq(id)])
      /\ FolderDelete(db, id) = SqlDelete(db, "folder", id)
      /\ \A where \in {[owner |-> Eq(id)], [owner |-> Eq(1), id |-> In({id})]} :
           LET rows == SqlWhere(db, "folder", where)
               left == Doomed(db, "folder", rows) \ {<<"folder", r.id>> : r \in rows} IN
           FolderDeleteMany(db, where) = SqlDeleteAll(db, "folder", rows) <=> left = {}

\* Files, with their chunks and sessions.
ASSUME FilesAgree ==
    \A db \in Databases : \A id \in Ids :
      /\ FileFindUnique(db, [id |-> Eq(id)]) = Query(db, "file", [id |-> Eq(id)])
      /\ \A folder \in SomeWhere, status \in StatusWhere(Code.READY) :
           LET where == [owner |-> Eq(1), folder |-> folder, status |-> status]
               rows == SqlWhere(db, "file", where) IN
           /\ status.op = "eq" => FileFindMany(db, where) = Done(db, rows)
           /\ FileCount(db, where) = Done(db, rows)
           /\ FileAggregate(db, where).count = Cardinality(rows)
           /\ FileAggregate(db, where).sum = MapThenSumSet(LAMBDA r : r.size, rows)
      /\ LET new == [id |-> 9, owner |-> id, folder |-> id - 1, status |-> Code.UPLOADING, size |-> 1]
             chunks == {[id |-> 9, index |-> 0], [id |-> 10, index |-> 1]}
             fake == FileCreate(db, new, chunks, {[id |-> 9]}) IN
           Agrees(fake, SqlWrite(db, fake.db, {new}))
      /\ Agrees(FileUpdate(db, id, [folder |-> id - 1]), SqlUpdate(db, "file", id, [folder |-> id - 1]))
      /\ FileDelete(db, id) = SqlDelete(db, "file", id)
      /\ \A where \in {[owner |-> Eq(id)], [owner |-> Eq(1), id |-> In({id, 1})]} :
           FileDeleteMany(db, where) = SqlDeleteAll(db, "file", SqlWhere(db, "file", where))

\* Chunks and upload sessions.
ASSUME ChunksAgree ==
    \A db \in Databases : \A id \in Ids :
      /\ \A index \in 0..1 :
           LET where == [file |-> Eq(id), index |-> Eq(index)] IN
           /\ ChunkFindUnique(db, where) = Query(db, "chunk", where)
           /\ ChunkUpdateMany(db, where, [status |-> Code.ERROR])
                = SqlUpdateAll(db, "chunk", SqlWhere(db, "chunk", where), [status |-> Code.ERROR])
      /\ ChunkFindMany(db, [file |-> Eq(id)]) = Query(db, "chunk", [file |-> Eq(id)])
      /\ \A folder \in SomeWhere :
           LET files == SqlWhere(db, "file", [owner |-> Eq(1), folder |-> folder]) IN
           ChunkFindMany(db, [owner |-> Eq(1), folder |-> folder])
             = Query(db, "chunk", [file |-> In({f.id : f \in files})])
      /\ LET old == SqlWhere(db, "chunk", [id |-> Eq(id)])
             attempts == {c.attempts : c \in old} IN
           \A n \in attempts :
             ChunkUpdate(db, id, [status |-> Code.UPLOADING], 1)
               = SqlUpdate(db, "chunk", id, [status |-> Code.UPLOADING, attempts |-> n + 1])
      /\ \A where \in {[file |-> Eq(id)], [file |-> Eq(id), status |-> Not(Code.UPLOADED)]} :
           /\ ChunkCount(db, where) = Query(db, "chunk", where)
           /\ ChunkUpdateMany(db, where, [status |-> Code.PENDING])
                = SqlUpdateAll(db, "chunk", SqlWhere(db, "chunk", where), [status |-> Code.PENDING])
      /\ SessionFindUnique(db, [id |-> Eq(id)]) = Query(db, "session", [id |-> Eq(id)])
      /\ SessionUpdate(db, id, [next |-> 1]) = SqlUpdate(db, "session", id, [next |-> 1])
      /\ SessionDelete(db, id) = SqlDelete(db, "session", id)

\* What a disconnect does to the drive, files first, leaves what the schema leaves.
ASSUME PurgeAgrees ==
    \A db \in Databases, user \in 1..2 :
      LET mine == [owner |-> Eq(user)]
          purged == SqlDeleteAll(db, "file", SqlWhere(db, "file", mine)).db IN
      FolderDeleteMany(FileDeleteMany(db, mine).db, mine).db
        = SqlDeleteAll(purged, "folder", SqlWhere(purged, "folder", mine)).db
=============================================================================
