------------------------------ MODULE WarmPool ------------------------------
(***************************************************************************)
(* The pool of warm storage connections of the Telegram gateway            *)
(* (apps/api/src/lib/telegram/gramjs.ts).  Transfers of one account share  *)
(* a connection: a call takes it (acquireWarm), runs, and gives it back    *)
(* (release); the connection is dropped when a call on it fails, when its  *)
(* socket has died, when the account logs out, and when it has been idle   *)
(* for WARM_IDLE_MS.  JavaScript runs each handler to its next await, so   *)
(* a step here is what happens between two awaits.                         *)
(***************************************************************************)
EXTENDS Integers, FiniteSets

CONSTANTS
    Accounts,   \* session strings: the keys of the pool
    Clients,    \* TelegramClient objects the process may make
    Calls,      \* uploadFile, deleteMessages and prewarm calls in flight
    NoClient

ASSUME NoClientAssumption == NoClient \notin Clients
ASSUME CallsAssumption == IsFiniteSet(Calls)

VARIABLES
    warm,       \* warm[k]: the pooled client of account k, or NoClient
    client,     \* client[c]: the WarmClient record of c
    call,       \* call[o]: what call o is doing, and with which client
    closing     \* gateway.close() has run: the process is about to exit

poolVars == <<warm, client, call, closing>>

WarmClient == [state : {"unused", "connecting", "open", "failed"}, connected : BOOLEAN,
               inUse : Nat, retired : BOOLEAN, timer : BOOLEAN, destroyed : BOOLEAN]

Unused == [state |-> "unused", connected |-> FALSE, inUse |-> 0,
           retired |-> FALSE, timer |-> FALSE, destroyed |-> FALSE]

Call == [at : {"idle", "waiting", "running"}, client : Clients \union {NoClient},
         prewarm : BOOLEAN, flooded : BOOLEAN]

Idle == [at |-> "idle", client |-> NoClient, prewarm |-> FALSE, flooded |-> FALSE]

\* The calls that have taken client c and not given it back.
Users(c) == {o \in Calls : call[o].client = c}

\* An open client whose socket has died since: acquireWarm starts over.
Dead(c) == client[c].state = "open" /\ ~client[c].connected

\* (Not the code: the socket is closed although calls use it.)
RetiredAtOnce(e) == [e EXCEPT !.retired = TRUE, !.timer = FALSE, !.destroyed = TRUE]

\* retire: out of the pool, timer cleared, socket closed unless in use.
Retired(e) == [e EXCEPT !.retired = TRUE, !.timer = FALSE,
                        !.destroyed = @ \/ e.inUse = 0]
Without(c) == [k \in Accounts |-> IF warm[k] = c THEN NoClient ELSE warm[k]]

Retire(c) ==
    /\ client' = [client EXCEPT ![c] = Retired(client[c])]
    /\ warm' = Without(c)

PoolInit ==
    /\ warm = [k \in Accounts |-> NoClient]
    /\ client = [c \in Clients |-> Unused]
    /\ call = [o \in Calls |-> Idle]
    /\ closing = FALSE

-----------------------------------------------------------------------------
\* clearTimeout(held.idleTimer); held.inUse += 1.
Taken(e) == [e EXCEPT !.timer = FALSE, !.inUse = e.inUse + 1]
Connecting == [Unused EXCEPT !.state = "connecting", !.inUse = 1]

\* acquireWarm, up to its await: the pooled client is reused.
AcquireWarm(o, k, pre) ==
    LET c == warm[k] IN
    /\ ~closing /\ call[o].at = "idle"
    /\ c # NoClient /\ ~Dead(c)
    /\ client' = [client EXCEPT ![c] = Taken(client[c])]
    /\ call' = [call EXCEPT ![o] =
                  [at |-> IF client[c].state = "open" THEN "running" ELSE "waiting",
                   client |-> c, prewarm |-> pre, flooded |-> FALSE]]
    /\ UNCHANGED <<warm, closing>>

\* (Not the code: the dead client is overwritten in the pool, never retired.)
AcquireFreshOver(o, k, pre) ==
    LET dead == warm[k] IN
    /\ ~closing /\ call[o].at = "idle"
    /\ dead # NoClient => Dead(dead)
    /\ \E c \in Clients :
         /\ client[c] = Unused
         /\ client' = [client EXCEPT ![c] = Connecting]
         /\ warm' = [warm EXCEPT ![k] = c]
         /\ call' = [call EXCEPT ![o] = [at |-> "waiting", client |-> c,
                                         prewarm |-> pre, flooded |-> FALSE]]
    /\ UNCHANGED closing

\* acquireWarm with nothing usable in the pool: a dead client is retired,
\* and a new one starts to connect.
AcquireFresh(o, k, pre) ==
    LET dead == warm[k] IN
    /\ ~closing /\ call[o].at = "idle"
    /\ dead # NoClient => Dead(dead)
    /\ \E c \in Clients :
         /\ client[c] = Unused
         /\ client' = [x \in Clients |->
                         IF x = c THEN Connecting
                         ELSE IF x = dead THEN Retired(client[x])
                         ELSE client[x]]
         /\ warm' = [warm EXCEPT ![k] = c]
         /\ call' = [call EXCEPT ![o] = [at |-> "waiting", client |-> c,
                                         prewarm |-> pre, flooded |-> FALSE]]
    /\ UNCHANGED closing

\* ready resolves: the client is open, and every waiting call goes on.
ConnectOpens(c) ==
    /\ ~closing /\ client[c].state = "connecting"
    /\ client' = [client EXCEPT ![c] = [@ EXCEPT !.state = "open", !.connected = TRUE]]
    /\ call' = [o \in Calls |-> IF call[o].client = c
                                THEN [call[o] EXCEPT !.at = "running"] ELSE call[o]]
    /\ UNCHANGED <<warm, closing>>

\* ready rejects (an error, or the 45 s timeout): each waiting call counts
\* itself out and retires the client; the last one closes it.
ConnectFails(c) ==
    /\ ~closing /\ client[c].state = "connecting"
    /\ client' = [client EXCEPT ![c] =
                    Retired([client[c] EXCEPT !.state = "failed",
                                              !.inUse = client[c].inUse - Cardinality(Users(c))])]
    /\ warm' = Without(c)
    /\ call' = [o \in Calls |-> IF call[o].client = c THEN Idle ELSE call[o]]
    /\ UNCHANGED closing

\* withFloodWait: a short flood wait is slept out, once, holding the client.
FloodWait(o) ==
    /\ ~closing /\ call[o].at = "running" /\ ~call[o].prewarm /\ ~call[o].flooded
    /\ call' = [call EXCEPT ![o].flooded = TRUE]
    /\ UNCHANGED <<warm, client, closing>>

\* (Not the code: the client is retired before its user is counted out.)
ReleasedLate(e, failed) ==
    IF failed \/ e.retired THEN [Retired(e) EXCEPT !.inUse = @ - 1]
    ELSE [e EXCEPT !.inUse = @ - 1, !.timer = (e.inUse = 1)]

\* release: a failed call, or one whose client was retired meanwhile, drops
\* the client; the last user of a good one arms its idle timer.
Released(e, failed) ==
    LET d == [e EXCEPT !.inUse = @ - 1] IN
    IF failed \/ d.retired THEN Retired(d)
    ELSE [d EXCEPT !.timer = (d.inUse = 0)]

Finish(o, failed) ==
    LET c == call[o].client IN
    /\ ~closing /\ call[o].at = "running"
    /\ call[o].prewarm => ~failed
    /\ client' = [client EXCEPT ![c] = Released(client[c], failed)]
    /\ warm' = IF failed \/ client[c].retired THEN Without(c) ELSE warm
    /\ call' = [call EXCEPT ![o] = Idle]
    /\ UNCHANGED closing

IdleTimeout(c) ==
    /\ ~closing /\ client[c].timer
    /\ Retire(c)
    /\ UNCHANGED <<call, closing>>

\* The data centre or the network closes the socket.
SocketDrops(c) ==
    /\ ~closing /\ client[c].connected /\ ~client[c].destroyed
    /\ client' = [client EXCEPT ![c].connected = FALSE]
    /\ UNCHANGED <<warm, call, closing>>

\* logOut retires the account's client before it ends the session.
LogOut(k) ==
    /\ ~closing /\ warm[k] # NoClient
    /\ Retire(warm[k])
    /\ UNCHANGED <<call, closing>>

\* close, on shutdown: every pooled client is closed, in use or not.
Close ==
    /\ ~closing
    /\ closing' = TRUE
    /\ client' = [c \in Clients |->
                    IF \E k \in Accounts : warm[k] = c
                    THEN Retired([client[c] EXCEPT !.inUse = 0]) ELSE client[c]]
    /\ warm' = [k \in Accounts |-> NoClient]
    /\ UNCHANGED call

PoolNext ==
    \/ \E o \in Calls, k \in Accounts, pre \in BOOLEAN :
         AcquireWarm(o, k, pre) \/ AcquireFresh(o, k, pre)
    \/ \E c \in Clients : ConnectOpens(c) \/ ConnectFails(c)
    \/ \E o \in Calls : FloodWait(o)
    \/ \E o \in Calls, failed \in BOOLEAN : Finish(o, failed)
    \/ \E c \in Clients : IdleTimeout(c) \/ SocketDrops(c)
    \/ \E k \in Accounts : LogOut(k)
    \/ Close

PoolSpec == PoolInit /\ [][PoolNext]_poolVars

\* A connection attempt ends (withTimeout), and so does a transfer (its parts
\* are acknowledged or the socket fails); nothing makes users call again.
PoolFairness ==
    /\ \A c \in Clients : WF_poolVars(ConnectOpens(c) \/ ConnectFails(c))
    /\ \A o \in Calls : WF_poolVars(Finish(o, FALSE))

PoolFairSpec == PoolSpec /\ PoolFairness
-----------------------------------------------------------------------------
\* Every variable has its type.
PoolTypeOK ==
    /\ warm \in [Accounts -> Clients \union {NoClient}]
    /\ client \in [Clients -> WarmClient]
    /\ call \in [Calls -> Call]
    /\ closing \in BOOLEAN

\* The reference count of a client is the number of calls that hold it: no
\* path through acquireWarm, its catch and release counts twice or not at all.
UsersCounted ==
    ~closing => \A c \in Clients : client[c].inUse = Cardinality(Users(c))

\* No call runs on a connection that was closed under it: idle timeouts,
\* failures of other calls and log-outs leave a client in use open.
InUseStaysOpen ==
    ~closing => \A c \in Clients : client[c].destroyed => Users(c) = {}

\* No socket leaks: a client that was made is closed, or some call holds it,
\* or it is in the pool with its idle timer running.
NothingLeaks ==
    \A c \in Clients :
        \/ client[c].state = "unused"
        \/ client[c].destroyed
        \/ Users(c) # {}
        \/ client[c].timer /\ \E k \in Accounts : warm[k] = c

\* What the pool hands out has not been retired: a connection on which a call
\* failed, or whose account logged out, is never given to a later call.
PoolIsFresh ==
    \A k \in Accounts : warm[k] # NoClient =>
        /\ client[warm[k]].state \in {"connecting", "open"}
        /\ ~client[warm[k]].retired /\ ~client[warm[k]].destroyed

\* A client dropped from the pool while calls use it is closed when they end.
RetiredCloses ==
    \A c \in Clients : client[c].retired ~> (client[c].destroyed \/ closing)
=============================================================================
