---------------------------- MODULE WarmPoolProofs ----------------------------
(* The warm pool's bookkeeping is right for any number of accounts, clients *)
(* and calls: the reference counts are exact, no connection is closed under *)
(* a call, and none leaks.                                                  *)
EXTENDS WarmPool, FiniteSetTheorems, TLAPS

\* A call holds a client exactly while it waits or runs.
CallsHold ==
    \A o \in Calls : call[o].at = "idle" <=> call[o].client = NoClient

\* A client that was not made yet is nobody's.
UnusedIsFree ==
    \A c \in Clients : client[c].state = "unused" => client[c] = Unused /\ Users(c) = {}

\* A client is pooled under one account at most, ...
PooledOnce ==
    \A k, l \in Accounts : warm[k] = warm[l] /\ warm[k] # NoClient => k = l

\* ... and until it is retired, under one.
PooledUntilRetired ==
    \A c \in Clients : client[c].state # "unused" /\ ~client[c].retired =>
        \E k \in Accounts : warm[k] = c

PoolInv ==
    /\ PoolTypeOK
    /\ CallsHold
    /\ UnusedIsFree
    /\ PooledOnce
    /\ PooledUntilRetired
    /\ UsersCounted
    /\ InUseStaysOpen
    /\ NothingLeaks
    /\ PoolIsFresh

-----------------------------------------------------------------------------
\* What Cardinality says of the users of a client.
LEMMA UsersFinite ==
    ASSUME NEW c \in Clients
    PROVE  /\ Cardinality(Users(c)) \in Nat
           /\ Cardinality(Users(c)) = 0 <=> Users(c) = {}
           /\ \A o \in Calls :
                /\ o \notin Users(c) =>
                     Cardinality(Users(c) \union {o}) = Cardinality(Users(c)) + 1
                /\ o \in Users(c) =>
                     Cardinality(Users(c) \ {o}) = Cardinality(Users(c)) - 1
<1>1. Users(c) \in SUBSET Calls
  BY DEF Users
<1>2. IsFiniteSet(Users(c))
  BY <1>1, CallsAssumption, FS_Subset
<1>3. \A o \in Calls : /\ o \notin Users(c) =>
                           Cardinality(Users(c) \union {o}) = Cardinality(Users(c)) + 1
                       /\ o \in Users(c) =>
                           Cardinality(Users(c) \ {o}) = Cardinality(Users(c)) - 1
  BY <1>2, FS_AddElement, FS_RemoveElement
<1> QED BY <1>2, <1>3, FS_CardinalityType, FS_EmptySet

\* One call takes client c, and nobody else's client changes.
LEMMA TakeUsers ==
    ASSUME PoolTypeOK, CallsHold, NEW o \in Calls, NEW c \in Clients, NEW r \in Call,
           call[o].at = "idle", r.client = c, call' = [call EXCEPT ![o] = r]
    PROVE  /\ o \notin Users(c)
           /\ Users(c)' = Users(c) \union {o}
           /\ \A d \in Clients \ {c} : Users(d)' = Users(d)
BY NoClientAssumption DEF PoolTypeOK, CallsHold, Users, Call

\* One call gives its client c back.
LEMMA GiveUsers ==
    ASSUME PoolTypeOK, NEW o \in Calls, NEW c \in Clients,
           call[o].client = c, call' = [call EXCEPT ![o] = Idle]
    PROVE  /\ o \in Users(c)
           /\ Users(c)' = Users(c) \ {o}
           /\ \A d \in Clients \ {c} : Users(d)' = Users(d)
BY NoClientAssumption DEF PoolTypeOK, Users, Idle

\* No call's client changes.
LEMMA SameUsers ==
    ASSUME PoolTypeOK,
           call' \in [Calls -> Call], \A o \in Calls : call'[o].client = call[o].client
    PROVE  \A c \in Clients : Users(c)' = Users(c)
BY DEF Users

-----------------------------------------------------------------------------
\* What the steps make of the record of one client.
LEMMA TakenRecord ==
    ASSUME NEW e \in WarmClient
    PROVE  /\ Taken(e) \in WarmClient
           /\ Taken(e).inUse = e.inUse + 1 /\ Taken(e).state = e.state
           /\ Taken(e).retired = e.retired /\ Taken(e).destroyed = e.destroyed
<1>1. PICK n : n = e.inUse + 1
  OBVIOUS
<1>2. n \in Nat
  BY <1>1 DEF WarmClient
<1>3. Taken(e) = [e EXCEPT !.timer = FALSE, !.inUse = n]
  BY <1>1 DEF Taken
<1> QED BY <1>1, <1>2, <1>3 DEF WarmClient

LEMMA ConnectingRecord ==
    /\ Connecting \in WarmClient
    /\ Connecting.inUse = 1 /\ Connecting.state = "connecting"
    /\ ~Connecting.retired /\ ~Connecting.destroyed
BY DEF Connecting, Unused, WarmClient

LEMMA RetiredRecord ==
    ASSUME NEW e \in WarmClient
    PROVE  /\ Retired(e) \in WarmClient
           /\ Retired(e).inUse = e.inUse /\ Retired(e).state = e.state
           /\ Retired(e).retired
           /\ Retired(e).destroyed <=> e.destroyed \/ e.inUse = 0
BY DEF Retired, WarmClient

LEMMA ReleasedRecord ==
    ASSUME NEW e \in WarmClient, NEW failed \in BOOLEAN, e.inUse > 0
    PROVE  /\ Released(e, failed) \in WarmClient
           /\ Released(e, failed).inUse = e.inUse - 1
           /\ Released(e, failed).state = e.state
           /\ failed \/ e.retired =>
                /\ Released(e, failed).retired
                /\ Released(e, failed).destroyed <=> e.destroyed \/ e.inUse = 1
           /\ ~failed /\ ~e.retired =>
                /\ ~Released(e, failed).retired
                /\ Released(e, failed).destroyed = e.destroyed
                /\ Released(e, failed).timer <=> e.inUse = 1
<1> DEFINE d == [e EXCEPT !.inUse = @ - 1]
<1>1. /\ d \in WarmClient /\ d.inUse = e.inUse - 1 /\ d.state = e.state
      /\ d.retired = e.retired /\ d.destroyed = e.destroyed
  <2>1. e.inUse - 1 \in Nat
    BY DEF WarmClient
  <2> QED BY <2>1 DEF WarmClient
<1>2. d.inUse = 0 <=> e.inUse = 1
  BY <1>1 DEF WarmClient
<1>3. Released(e, failed) = IF failed \/ d.retired THEN Retired(d)
                            ELSE [d EXCEPT !.timer = (d.inUse = 0)]
  BY DEF Released
<1> HIDE DEF d
<1>4. LET t == [d EXCEPT !.timer = (d.inUse = 0)]
      IN  /\ t \in WarmClient /\ t.inUse = d.inUse /\ t.state = d.state
          /\ t.retired = d.retired /\ t.destroyed = d.destroyed
          /\ t.timer <=> d.inUse = 0
  BY <1>1 DEF WarmClient
<1> QED BY <1>1, <1>2, <1>3, <1>4, RetiredRecord DEF WarmClient

-----------------------------------------------------------------------------
\* Reusing the pooled client.
LEMMA AcquireWarmKeeps ==
    ASSUME PoolInv, NEW o \in Calls, NEW k \in Accounts, NEW pre \in BOOLEAN,
           AcquireWarm(o, k, pre)
    PROVE  PoolInv'
<1>1. PICK c \in Clients :
        /\ c = warm[k] /\ ~closing /\ closing' = closing /\ warm' = warm
        /\ client' = [client EXCEPT ![c] = Taken(client[c])]
        /\ call[o].at = "idle"
        /\ call' = [call EXCEPT ![o] =
             [at |-> IF client[c].state = "open" THEN "running" ELSE "waiting",
              client |-> c, prewarm |-> pre, flooded |-> FALSE]]
        /\ client[c] \in WarmClient
        /\ client[c].state \in {"connecting", "open"}
        /\ ~client[c].retired /\ ~client[c].destroyed
  BY DEF AcquireWarm, PoolInv, PoolTypeOK, PoolIsFresh
<1>2. PICK r \in Call : r.client = c /\ r.at # "idle" /\ call' = [call EXCEPT ![o] = r]
  <2>1. PICK at \in {"running", "waiting"} :
          at = IF client[c].state = "open" THEN "running" ELSE "waiting"
    OBVIOUS
  <2>2. [at |-> at, client |-> c, prewarm |-> pre, flooded |-> FALSE] \in Call
    BY DEF Call
  <2> QED BY <1>1, <2>1, <2>2
<1>3. /\ o \notin Users(c) /\ Users(c)' = Users(c) \union {o}
      /\ \A d \in Clients \ {c} : Users(d)' = Users(d)
  BY <1>1, <1>2, TakeUsers DEF PoolInv
<1>4. /\ \A d \in Clients \ {c} : client'[d] = client[d]
      /\ client'[c] \in WarmClient /\ client'[c].inUse = client[c].inUse + 1
      /\ client'[c].state = client[c].state
      /\ client'[c].retired = client[c].retired /\ client'[c].destroyed = client[c].destroyed
      /\ client' \in [Clients -> WarmClient]
  BY <1>1, TakenRecord DEF PoolInv, PoolTypeOK
<1>5. PoolTypeOK'
  BY <1>1, <1>2, <1>4 DEF PoolInv, PoolTypeOK
<1>6. CallsHold'
  BY <1>1, <1>2, NoClientAssumption DEF PoolInv, PoolTypeOK, CallsHold
<1>7. UnusedIsFree'
  BY <1>1, <1>3, <1>4 DEF PoolInv, PoolTypeOK, UnusedIsFree
<1>8. PooledOnce' /\ PooledUntilRetired'
  BY <1>1, <1>4 DEF PoolInv, PoolTypeOK, PooledOnce, PooledUntilRetired
<1>9. UsersCounted'
  BY <1>1, <1>3, <1>4, UsersFinite DEF PoolInv, PoolTypeOK, UsersCounted
<1>10. InUseStaysOpen' /\ NothingLeaks'
  BY <1>1, <1>3, <1>4 DEF PoolInv, PoolTypeOK, InUseStaysOpen, NothingLeaks
<1>11. PoolIsFresh'
  BY <1>1, <1>4 DEF PoolInv, PoolTypeOK, PoolIsFresh
<1> QED BY <1>5, <1>6, <1>7, <1>8, <1>9, <1>10, <1>11 DEF PoolInv

\* A new client replaces none, or a dead one.
LEMMA AcquireFreshKeeps ==
    ASSUME PoolInv, NEW o \in Calls, NEW k \in Accounts, NEW pre \in BOOLEAN,
           AcquireFresh(o, k, pre)
    PROVE  PoolInv'
<1>0. PICK dead \in Clients \union {NoClient} : dead = warm[k]
  BY DEF PoolInv, PoolTypeOK
<1>1. PICK c \in Clients :
        /\ client[c] = Unused
        /\ client' = [x \in Clients |->
                        IF x = c THEN Connecting
                        ELSE IF x = dead THEN Retired(client[x])
                        ELSE client[x]]
        /\ warm' = [warm EXCEPT ![k] = c]
        /\ call' = [call EXCEPT ![o] = [at |-> "waiting", client |-> c,
                                        prewarm |-> pre, flooded |-> FALSE]]
  BY <1>0 DEF AcquireFresh
<1> DEFINE r == [at |-> "waiting", client |-> c, prewarm |-> pre, flooded |-> FALSE]
<1>2. /\ call[o].at = "idle" /\ ~closing /\ closing' = closing
      /\ client[c].state = "unused" /\ Users(c) = {}
  BY <1>1 DEF AcquireFresh, PoolInv, UnusedIsFree, Unused
<1>a. \A l \in Accounts : warm[l] # c
  BY <1>2, NoClientAssumption DEF PoolInv, PoolIsFresh
<1>b. dead # c
  BY <1>0, <1>a
<1>3. r \in Call /\ r.client = c /\ r.at = "waiting" /\ call' = [call EXCEPT ![o] = r]
  BY <1>1 DEF Call
<1>4. /\ client' \in [Clients -> WarmClient]
      /\ client'[c] = Connecting
      /\ dead \in Clients => client'[dead] = Retired(client[dead])
      /\ \A x \in Clients \ {c, dead} : client'[x] = client[x]
  BY <1>1, <1>b, ConnectingRecord, RetiredRecord DEF PoolInv, PoolTypeOK
<1>6. warm' \in [Accounts -> Clients \union {NoClient}] /\ warm'[k] = c
      /\ \A l \in Accounts \ {k} : warm'[l] = warm[l]
  BY <1>1 DEF PoolInv, PoolTypeOK
<1> HIDE DEF r
<1>8. /\ o \notin Users(c) /\ Users(c)' = Users(c) \union {o}
      /\ \A d \in Clients \ {c} : Users(d)' = Users(d)
  BY <1>2, <1>3, TakeUsers DEF PoolInv
<1>9. PoolTypeOK'
  BY <1>2, <1>3, <1>4, <1>6 DEF PoolInv, PoolTypeOK
<1>10. CallsHold'
  BY <1>2, <1>3, NoClientAssumption DEF PoolInv, PoolTypeOK, CallsHold
<1>11. UnusedIsFree'
  <2>1. dead \in Clients => client'[dead].state # "unused"
    BY <1>0, <1>4, <1>b, NoClientAssumption, RetiredRecord DEF PoolInv, PoolTypeOK, PoolIsFresh
  <2>2. client'[c].state # "unused"
    BY <1>4, ConnectingRecord
  <2> QED BY <1>4, <1>8, <2>1, <2>2 DEF PoolInv, UnusedIsFree
<1>12. PooledOnce'
  BY <1>a, <1>6 DEF PoolInv, PooledOnce
<1>13. PooledUntilRetired'
  BY <1>0, <1>2, <1>a, <1>b, <1>4, <1>6, ConnectingRecord, RetiredRecord
     DEF PoolInv, PoolTypeOK, PooledUntilRetired
<1>14. UsersCounted'
  BY <1>0, <1>2, <1>b, <1>4, <1>8, ConnectingRecord, RetiredRecord, UsersFinite
     DEF PoolInv, PoolTypeOK, UsersCounted
<1>15. InUseStaysOpen'
  BY <1>0, <1>2, <1>b, <1>4, <1>8, ConnectingRecord, RetiredRecord, UsersFinite
     DEF PoolInv, PoolTypeOK, UsersCounted, InUseStaysOpen
<1>16. NothingLeaks'
  <2> SUFFICES ASSUME NEW x \in Clients
               PROVE  \/ client'[x].state = "unused" \/ client'[x].destroyed \/ Users(x)' # {}
                      \/ client'[x].timer /\ \E l \in Accounts : warm'[l] = x
    BY DEF NothingLeaks
  <2>1. CASE x = c
    BY <1>8, <2>1
  <2>2. CASE x = dead
    BY <1>0, <1>2, <1>b, <1>4, <1>8, <2>2, RetiredRecord, UsersFinite
       DEF PoolInv, PoolTypeOK, UsersCounted
  <2>3. CASE x \in Clients \ {c, dead}
    BY <1>0, <1>2, <1>4, <1>6, <1>8, <2>3 DEF PoolInv, PoolTypeOK, NothingLeaks
  <2> QED BY <2>1, <2>2, <2>3
<1>17. PoolIsFresh'
  <2> SUFFICES ASSUME NEW l \in Accounts, warm'[l] # NoClient
               PROVE  /\ client'[warm'[l]].state \in {"connecting", "open"}
                      /\ ~client'[warm'[l]].retired /\ ~client'[warm'[l]].destroyed
    BY DEF PoolIsFresh
  <2>1. CASE l = k
    BY <1>4, <1>6, <2>1, ConnectingRecord
  <2>2. CASE l # k
    BY <1>0, <1>a, <1>b, <1>4, <1>6, <2>2 DEF PoolInv, PoolTypeOK, PooledOnce, PoolIsFresh
  <2> QED BY <2>1, <2>2
<1> QED BY <1>9, <1>10, <1>11, <1>12, <1>13, <1>14, <1>15, <1>16, <1>17 DEF PoolInv

\* The connection opens.
LEMMA ConnectOpensKeeps ==
    ASSUME PoolInv, NEW c \in Clients, ConnectOpens(c)
    PROVE  PoolInv'
<1>1. /\ ~closing /\ closing' = closing /\ warm' = warm
      /\ client[c].state = "connecting"
      /\ client' \in [Clients -> WarmClient]
      /\ \A d \in Clients \ {c} : client'[d] = client[d]
      /\ client'[c] = [client[c] EXCEPT !.state = "open", !.connected = TRUE]
  <2>1. client[c] \in WarmClient
    BY DEF PoolInv, PoolTypeOK
  <2>2. [client[c] EXCEPT !.state = "open", !.connected = TRUE] \in WarmClient
    BY <2>1 DEF WarmClient
  <2> QED BY <2>2 DEF ConnectOpens, PoolInv, PoolTypeOK
<1>2. /\ client'[c].state = "open" /\ client'[c].inUse = client[c].inUse
      /\ client'[c].retired = client[c].retired /\ client'[c].timer = client[c].timer
      /\ client'[c].destroyed = client[c].destroyed
  BY <1>1 DEF PoolInv, PoolTypeOK, WarmClient
<1>3. /\ call' \in [Calls -> Call]
      /\ \A o \in Calls : call'[o].client = call[o].client
      /\ CallsHold'
  <2>1. \A o \in Calls : call[o].client = c => [call[o] EXCEPT !.at = "running"] \in Call
    BY DEF PoolInv, PoolTypeOK, Call
  <2>2. \A o \in Calls : /\ call'[o] \in Call /\ call'[o].client = call[o].client
                         /\ call'[o].at = "idle" <=> call[o].at = "idle"
    BY <2>1, NoClientAssumption DEF ConnectOpens, PoolInv, PoolTypeOK, CallsHold, Call
  <2> QED BY <2>2 DEF ConnectOpens, PoolInv, CallsHold
<1>4. \A d \in Clients : Users(d)' = Users(d)
  BY <1>3, SameUsers DEF PoolInv
<1>5. PoolTypeOK'
  BY <1>1, <1>3 DEF PoolInv, PoolTypeOK
<1>6. UnusedIsFree'
  BY <1>1, <1>2, <1>4 DEF PoolInv, UnusedIsFree
<1>10. UsersCounted'
  <2> SUFFICES ASSUME NEW d \in Clients PROVE client'[d].inUse = Cardinality(Users(d)')
    BY DEF UsersCounted
  <2>1. client'[d].inUse = client[d].inUse
    BY <1>1, <1>2
  <2> QED BY <1>1, <1>4, <2>1 DEF PoolInv, UsersCounted
<1>7. PooledOnce' /\ PooledUntilRetired'
  BY <1>1, <1>2 DEF PoolInv, PooledOnce, PooledUntilRetired
<1>8. InUseStaysOpen'
  BY <1>1, <1>2, <1>4 DEF PoolInv, InUseStaysOpen
<1>11. NothingLeaks'
  <2> SUFFICES ASSUME NEW d \in Clients
               PROVE  \/ client'[d].state = "unused" \/ client'[d].destroyed \/ Users(d)' # {}
                      \/ client'[d].timer /\ \E k \in Accounts : warm'[k] = d
    BY DEF NothingLeaks
  <2>1. /\ client'[d].destroyed = client[d].destroyed /\ client'[d].timer = client[d].timer
        /\ client[d].state = "unused" => client'[d].state = "unused"
    BY <1>1, <1>2
  <2> QED BY <1>1, <1>4, <2>1 DEF PoolInv, NothingLeaks
<1>9. PoolIsFresh'
  BY <1>1, <1>2, ZenonT(30) DEF PoolInv, PoolTypeOK, PoolIsFresh
<1> QED BY <1>3, <1>5, <1>6, <1>7, <1>8, <1>9, <1>10, <1>11 DEF PoolInv

\* The pool without c.
LEMMA WithoutPool ==
    ASSUME PoolTypeOK, NEW c \in Clients, warm' = Without(c)
    PROVE  /\ warm' \in [Accounts -> Clients \union {NoClient}]
           /\ \A k \in Accounts : warm'[k] # c
           /\ \A k \in Accounts : warm[k] # c => warm'[k] = warm[k]
           /\ \A k \in Accounts : warm'[k] # NoClient => warm'[k] = warm[k]
BY NoClientAssumption DEF PoolTypeOK, Without

\* The connection fails: its users are counted out, and it is retired.
LEMMA ConnectFailsKeeps ==
    ASSUME PoolInv, NEW c \in Clients, ConnectFails(c)
    PROVE  PoolInv'
<1>1. /\ ~closing /\ closing' = closing /\ warm' = Without(c)
      /\ client[c].state = "connecting" /\ client[c] \in WarmClient
      /\ client[c].inUse = Cardinality(Users(c))
  BY DEF ConnectFails, PoolInv, PoolTypeOK, UsersCounted
<1> DEFINE e == [client[c] EXCEPT !.state = "failed",
                                  !.inUse = @ - Cardinality(Users(c))]
<1>2. e \in WarmClient /\ e.inUse = 0 /\ e.state = "failed"
  <2>1. PICK n : n = client[c].inUse - Cardinality(Users(c))
    OBVIOUS
  <2>2. n = 0
    BY <1>1, <2>1, UsersFinite
  <2>3. e = [client[c] EXCEPT !.state = "failed", !.inUse = 0]
    BY <2>1, <2>2
  <2>4. [client[c] EXCEPT !.state = "failed", !.inUse = 0] \in WarmClient
    BY <1>1 DEF WarmClient
  <2>5. e.inUse = 0 /\ e.state = "failed"
    BY <1>1, <2>3 DEF WarmClient
  <2> QED BY <2>3, <2>4, <2>5
<1>3. client' = [client EXCEPT ![c] = Retired(e)]
  BY DEF ConnectFails
<1> HIDE DEF e
<1>4. /\ client' \in [Clients -> WarmClient]
      /\ \A d \in Clients \ {c} : client'[d] = client[d]
      /\ client'[c].inUse = 0 /\ client'[c].state = "failed"
      /\ client'[c].retired /\ client'[c].destroyed
  BY <1>2, <1>3, RetiredRecord DEF PoolInv, PoolTypeOK
<1>5. /\ call' \in [Calls -> Call] /\ CallsHold'
      /\ Users(c)' = {} /\ \A d \in Clients \ {c} : Users(d)' = Users(d)
  <2>1. Idle \in Call /\ Idle.at = "idle" /\ Idle.client = NoClient
    BY DEF Idle, Call
  <2> QED BY <2>1, NoClientAssumption DEF ConnectFails, PoolInv, PoolTypeOK, CallsHold, Users
<1>6. /\ warm' \in [Accounts -> Clients \union {NoClient}]
      /\ \A k \in Accounts : warm'[k] # c
      /\ \A k \in Accounts : warm[k] # c => warm'[k] = warm[k]
      /\ \A k \in Accounts : warm'[k] # NoClient => warm'[k] = warm[k]
  BY <1>1, WithoutPool DEF PoolInv
<1>7. PoolTypeOK'
  BY <1>1, <1>4, <1>5, <1>6 DEF PoolInv, PoolTypeOK
<1>8. UnusedIsFree'
  BY <1>4, <1>5 DEF PoolInv, UnusedIsFree
<1>9. PooledOnce' /\ PooledUntilRetired'
  BY <1>4, <1>6 DEF PoolInv, PooledOnce, PooledUntilRetired
<1>10. UsersCounted' /\ InUseStaysOpen'
  BY <1>1, <1>4, <1>5, FS_EmptySet DEF PoolInv, UsersCounted, InUseStaysOpen
<1>11. NothingLeaks'
  BY <1>4, <1>5, <1>6 DEF PoolInv, NothingLeaks
<1>12. PoolIsFresh'
  BY <1>4, <1>6 DEF PoolInv, PoolTypeOK, PoolIsFresh
<1> QED BY <1>5, <1>7, <1>8, <1>9, <1>10, <1>11, <1>12 DEF PoolInv

\* A call ends: on a good client it leaves it to the idle timer, or to the
\* other calls; a client that failed or was retired is dropped.
LEMMA FinishKeeps ==
    ASSUME PoolInv, NEW o \in Calls, NEW failed \in BOOLEAN, Finish(o, failed)
    PROVE  PoolInv'
<1>1. PICK c \in Clients :
        /\ c = call[o].client /\ ~closing /\ closing' = closing
        /\ client[c] \in WarmClient
        /\ client' = [client EXCEPT ![c] = Released(client[c], failed)]
        /\ warm' = IF failed \/ client[c].retired THEN Without(c) ELSE warm
        /\ call' = [call EXCEPT ![o] = Idle]
  BY DEF Finish, PoolInv, PoolTypeOK, CallsHold, Call
<1>2. /\ o \in Users(c) /\ Users(c)' = Users(c) \ {o}
      /\ \A d \in Clients \ {c} : Users(d)' = Users(d)
  BY <1>1, GiveUsers DEF PoolInv
<1>3. /\ client[c].inUse = Cardinality(Users(c)) /\ client[c].inUse > 0
      /\ Cardinality(Users(c)') = client[c].inUse - 1
      /\ Users(c)' = {} <=> client[c].inUse = 1
  <2>1. Cardinality(Users(c)) \in Nat /\ Cardinality(Users(c)) # 0
    BY <1>2, UsersFinite
  <2>2. Cardinality(Users(c) \ {o}) = Cardinality(Users(c)) - 1
    BY <1>2, UsersFinite
  <2>3. IsFiniteSet(Users(c) \ {o})
    BY CallsAssumption, FS_Subset DEF Users
  <2>4. Cardinality(Users(c) \ {o}) = 0 <=> Users(c) \ {o} = {}
    BY <2>3, FS_EmptySet
  <2> QED BY <1>1, <1>2, <2>1, <2>2, <2>4 DEF PoolInv, UsersCounted
<1>4. /\ client' \in [Clients -> WarmClient]
      /\ \A d \in Clients \ {c} : client'[d] = client[d]
      /\ client'[c].inUse = client[c].inUse - 1 /\ client'[c].state = client[c].state
      /\ failed \/ client[c].retired =>
           /\ client'[c].retired
           /\ client'[c].destroyed <=> client[c].destroyed \/ client[c].inUse = 1
      /\ ~failed /\ ~client[c].retired =>
           /\ ~client'[c].retired /\ client'[c].destroyed = client[c].destroyed
           /\ client'[c].timer <=> client[c].inUse = 1
  BY <1>1, <1>3, ReleasedRecord DEF PoolInv, PoolTypeOK
<1>5. /\ warm' \in [Accounts -> Clients \union {NoClient}]
      /\ failed \/ client[c].retired => \A k \in Accounts : warm'[k] # c
      /\ ~failed /\ ~client[c].retired => warm' = warm
      /\ \A k \in Accounts : warm[k] # c => warm'[k] = warm[k]
      /\ \A k \in Accounts : warm'[k] # NoClient => warm'[k] = warm[k]
  <2>1. CASE failed \/ client[c].retired
    BY <1>1, <2>1, WithoutPool DEF PoolInv
  <2>2. CASE ~failed /\ ~client[c].retired
    BY <1>1, <2>2 DEF PoolInv, PoolTypeOK
  <2> QED BY <2>1, <2>2
<1>6. Idle \in Call /\ Idle.at = "idle" /\ Idle.client = NoClient
  BY DEF Idle, Call
<1>7. PoolTypeOK' /\ CallsHold'
  BY <1>1, <1>4, <1>5, <1>6 DEF PoolInv, PoolTypeOK, CallsHold
<1>8. client[c].state # "unused"
  BY <1>2 DEF PoolInv, UnusedIsFree
<1>9. UnusedIsFree'
  BY <1>2, <1>4, <1>8 DEF PoolInv, UnusedIsFree
<1>10. PooledOnce'
  BY <1>5 DEF PoolInv, PooledOnce
<1>11. PooledUntilRetired'
  BY <1>4, <1>5 DEF PoolInv, PoolTypeOK, PooledUntilRetired
<1>12. UsersCounted'
  <2> SUFFICES ASSUME NEW d \in Clients PROVE client'[d].inUse = Cardinality(Users(d)')
    BY DEF UsersCounted
  <2>1. CASE d = c
    BY <1>3, <1>4, <2>1
  <2>2. CASE d # c
    BY <1>1, <1>2, <1>4, <2>2 DEF PoolInv, UsersCounted
  <2> QED BY <2>1, <2>2
<1>13. InUseStaysOpen'
  BY <1>1, <1>2, <1>3, <1>4 DEF PoolInv, InUseStaysOpen
<1>14. NothingLeaks'
  <2> SUFFICES ASSUME NEW d \in Clients
               PROVE  \/ client'[d].state = "unused" \/ client'[d].destroyed \/ Users(d)' # {}
                      \/ client'[d].timer /\ \E k \in Accounts : warm'[k] = d
    BY DEF NothingLeaks
  <2>1. CASE d # c
    BY <1>2, <1>4, <1>5, <2>1 DEF PoolInv, NothingLeaks
  <2>2. CASE d = c /\ (failed \/ client[c].retired)
    BY <1>3, <1>4, <2>2
  <2>3. CASE d = c /\ ~failed /\ ~client[c].retired
    BY <1>3, <1>4, <1>5, <1>8, <2>3 DEF PoolInv, PooledUntilRetired
  <2> QED BY <2>1, <2>2, <2>3
<1>15. PoolIsFresh'
  BY <1>4, <1>5 DEF PoolInv, PoolTypeOK, PoolIsFresh
<1> QED BY <1>7, <1>9, <1>10, <1>11, <1>12, <1>13, <1>14, <1>15 DEF PoolInv

\* The idle timer, or a log-out, retires a client that was made.
LEMMA RetireKeeps ==
    ASSUME PoolInv, NEW c \in Clients, ~closing, client[c].state # "unused",
           Retire(c), UNCHANGED <<call, closing>>
    PROVE  PoolInv'
<1>1. /\ client' \in [Clients -> WarmClient]
      /\ \A d \in Clients \ {c} : client'[d] = client[d]
      /\ client'[c].inUse = client[c].inUse /\ client'[c].state = client[c].state
      /\ client'[c].retired
      /\ client'[c].destroyed <=> client[c].destroyed \/ client[c].inUse = 0
  BY RetiredRecord DEF Retire, PoolInv, PoolTypeOK
<1>2. /\ warm' \in [Accounts -> Clients \union {NoClient}]
      /\ \A k \in Accounts : warm'[k] # c
      /\ \A k \in Accounts : warm[k] # c => warm'[k] = warm[k]
      /\ \A k \in Accounts : warm'[k] # NoClient => warm'[k] = warm[k]
  BY WithoutPool DEF Retire, PoolInv
<1>3. \A d \in Clients : Users(d)' = Users(d)
  BY DEF Users
<1>4. client[c].inUse = 0 <=> Users(c) = {}
  BY UsersFinite DEF PoolInv, UsersCounted
<1>5. PoolTypeOK' /\ CallsHold'
  BY <1>1, <1>2 DEF PoolInv, PoolTypeOK, CallsHold
<1>6. UnusedIsFree'
  BY <1>1, <1>3 DEF PoolInv, UnusedIsFree
<1>7. PooledOnce' /\ PooledUntilRetired'
  BY <1>1, <1>2 DEF PoolInv, PooledOnce, PooledUntilRetired
<1>8. UsersCounted'
  <2> SUFFICES ASSUME NEW d \in Clients PROVE client'[d].inUse = Cardinality(Users(d)')
    BY DEF UsersCounted
  <2> QED BY <1>1, <1>3 DEF PoolInv, UsersCounted
<1>9. InUseStaysOpen'
  BY <1>1, <1>3, <1>4 DEF PoolInv, InUseStaysOpen
<1>10. NothingLeaks'
  <2> SUFFICES ASSUME NEW d \in Clients
               PROVE  \/ client'[d].state = "unused" \/ client'[d].destroyed \/ Users(d)' # {}
                      \/ client'[d].timer /\ \E k \in Accounts : warm'[k] = d
    BY DEF NothingLeaks
  <2>1. CASE d # c
    BY <1>1, <1>2, <1>3, <2>1 DEF PoolInv, NothingLeaks
  <2>2. CASE d = c
    BY <1>1, <1>3, <1>4, <2>2
  <2> QED BY <2>1, <2>2
<1>11. PoolIsFresh'
  BY <1>1, <1>2 DEF PoolInv, PoolTypeOK, PoolIsFresh
<1> QED BY <1>5, <1>6, <1>7, <1>8, <1>9, <1>10, <1>11 DEF PoolInv

\* A socket drops: nothing that the pool counts changes.
LEMMA SocketDropsKeeps ==
    ASSUME PoolInv, NEW c \in Clients, SocketDrops(c)
    PROVE  PoolInv'
<1>1. /\ ~closing /\ UNCHANGED <<warm, call, closing>>
      /\ client' \in [Clients -> WarmClient]
      /\ \A d \in Clients \ {c} : client'[d] = client[d]
      /\ client'[c] = [client[c] EXCEPT !.connected = FALSE]
      /\ client[c] \in WarmClient /\ client[c].connected
  <2>1. client[c] \in WarmClient /\ [client[c] EXCEPT !.connected = FALSE] \in WarmClient
    BY DEF PoolInv, PoolTypeOK, WarmClient
  <2> QED BY <2>1 DEF SocketDrops, PoolInv, PoolTypeOK
<1>2. /\ \A d \in Clients :
            /\ client'[d].state = client[d].state /\ client'[d].inUse = client[d].inUse
            /\ client'[d].retired = client[d].retired /\ client'[d].timer = client[d].timer
            /\ client'[d].destroyed = client[d].destroyed
      /\ client[c].state # "unused"
  BY <1>1 DEF PoolInv, WarmClient, UnusedIsFree, Unused
<1>3. \A d \in Clients : Users(d)' = Users(d)
  BY <1>1 DEF Users
<1>4. PoolTypeOK' /\ CallsHold'
  BY <1>1 DEF PoolInv, PoolTypeOK, CallsHold
<1>5. UnusedIsFree'
  BY <1>1, <1>2, <1>3 DEF PoolInv, UnusedIsFree
<1>6. PooledOnce' /\ PooledUntilRetired'
  BY <1>1, <1>2 DEF PoolInv, PooledOnce, PooledUntilRetired
<1>7. UsersCounted'
  <2> SUFFICES ASSUME NEW d \in Clients PROVE client'[d].inUse = Cardinality(Users(d)')
    BY DEF UsersCounted
  <2> QED BY <1>1, <1>2, <1>3 DEF PoolInv, UsersCounted
<1>8. InUseStaysOpen' /\ NothingLeaks'
  BY <1>1, <1>2, <1>3 DEF PoolInv, InUseStaysOpen, NothingLeaks
<1>9. PoolIsFresh'
  BY <1>1, <1>2 DEF PoolInv, PoolTypeOK, PoolIsFresh
<1> QED BY <1>4, <1>5, <1>6, <1>7, <1>8, <1>9 DEF PoolInv

\* A flood wait changes nothing but the call's own record.
LEMMA FloodWaitKeeps ==
    ASSUME PoolInv, NEW o \in Calls, FloodWait(o)
    PROVE  PoolInv'
<1>1. /\ ~closing /\ UNCHANGED <<warm, client, closing>>
      /\ call' \in [Calls -> Call]
      /\ \A p \in Calls : call'[p].client = call[p].client /\ call'[p].at = call[p].at
  BY DEF FloodWait, PoolInv, PoolTypeOK, Call
<1>2. \A d \in Clients : Users(d)' = Users(d)
  BY <1>1, SameUsers DEF PoolInv
<1>3. PoolTypeOK' /\ CallsHold'
  BY <1>1 DEF PoolInv, PoolTypeOK, CallsHold
<1>4. UnusedIsFree' /\ PooledOnce' /\ PooledUntilRetired' /\ PoolIsFresh'
  BY <1>1, <1>2 DEF PoolInv, UnusedIsFree, PooledOnce, PooledUntilRetired, PoolIsFresh
<1>5. UsersCounted'
  <2> SUFFICES ASSUME NEW d \in Clients PROVE client'[d].inUse = Cardinality(Users(d)')
    BY DEF UsersCounted
  <2> QED BY <1>1, <1>2 DEF PoolInv, UsersCounted
<1>6. InUseStaysOpen' /\ NothingLeaks'
  BY <1>1, <1>2 DEF PoolInv, InUseStaysOpen, NothingLeaks
<1> QED BY <1>3, <1>4, <1>5, <1>6 DEF PoolInv

\* Shutdown closes what is pooled; what is not was closed, or is retired and
\* waits for its last call.
LEMMA CloseKeeps ==
    ASSUME PoolInv, Close
    PROVE  PoolInv'
<1>1. /\ closing' = TRUE /\ call' = call /\ warm' = [k \in Accounts |-> NoClient]
      /\ client' = [c \in Clients |-> IF \E k \in Accounts : warm[k] = c
                                      THEN Retired([client[c] EXCEPT !.inUse = 0])
                                      ELSE client[c]]
  BY DEF Close
<1>2. ASSUME NEW c \in Clients, \E k \in Accounts : warm[k] = c
      PROVE  /\ client'[c] \in WarmClient /\ client'[c].state = client[c].state
             /\ client[c].state # "unused"
             /\ client'[c].retired /\ client'[c].destroyed
  <2> DEFINE e == [client[c] EXCEPT !.inUse = 0]
  <2>1. e \in WarmClient /\ e.inUse = 0 /\ e.state = client[c].state
    BY DEF PoolInv, PoolTypeOK, WarmClient
  <2>2. client'[c] = Retired(e)
    BY <1>1, <1>2
  <2>3. client[c].state # "unused"
    BY <1>2, NoClientAssumption DEF PoolInv, PoolTypeOK, PoolIsFresh
  <2> HIDE DEF e
  <2> QED BY <2>1, <2>2, <2>3, RetiredRecord
<1>3. \A c \in Clients : (\A k \in Accounts : warm[k] # c) => client'[c] = client[c]
  BY <1>1
<1>4. \A d \in Clients : Users(d)' = Users(d)
  BY <1>1 DEF Users
<1>5. client' \in [Clients -> WarmClient]
  <2>1. \A c \in Clients : client'[c] \in WarmClient
    BY <1>2, <1>3 DEF PoolInv, PoolTypeOK
  <2> QED BY <1>1, <2>1
<1>6. PoolTypeOK' /\ CallsHold'
  BY <1>1, <1>5 DEF PoolInv, PoolTypeOK, CallsHold
<1>7. UnusedIsFree'
  BY <1>2, <1>3, <1>4 DEF PoolInv, UnusedIsFree
<1>8. PooledOnce' /\ PoolIsFresh' /\ UsersCounted' /\ InUseStaysOpen'
  BY <1>1 DEF PooledOnce, PoolIsFresh, UsersCounted, InUseStaysOpen
<1>9. PooledUntilRetired'
  BY <1>2, <1>3 DEF PoolInv, PooledUntilRetired
<1>10. NothingLeaks'
  BY <1>2, <1>3, <1>4 DEF PoolInv, NothingLeaks
<1> QED BY <1>6, <1>7, <1>8, <1>9, <1>10 DEF PoolInv

-----------------------------------------------------------------------------
\* The inductive invariant of the pool.
THEOREM PoolCorrect == PoolSpec => []PoolInv
<1>1. PoolInit => PoolInv
  <2> SUFFICES ASSUME PoolInit PROVE PoolInv
    OBVIOUS
  <2>1. \A c \in Clients : Users(c) = {}
    BY NoClientAssumption DEF PoolInit, Users, Idle
  <2>2. PoolTypeOK /\ CallsHold
    BY DEF PoolInit, PoolTypeOK, CallsHold, WarmClient, Unused, Call, Idle
  <2>3. UnusedIsFree /\ PooledOnce /\ PooledUntilRetired
    BY <2>1 DEF PoolInit, UnusedIsFree, PooledOnce, PooledUntilRetired, Unused
  <2>4. UsersCounted /\ InUseStaysOpen /\ NothingLeaks /\ PoolIsFresh
    BY <2>1, FS_EmptySet
       DEF PoolInit, UsersCounted, InUseStaysOpen, NothingLeaks, PoolIsFresh, Unused
  <2> QED BY <2>2, <2>3, <2>4 DEF PoolInv
<1>2. PoolInv /\ [PoolNext]_poolVars => PoolInv'
  <2> SUFFICES ASSUME PoolInv, [PoolNext]_poolVars PROVE PoolInv'
    OBVIOUS
  <2>1. ASSUME NEW c \in Clients, IdleTimeout(c) PROVE PoolInv'
    <3>1. client[c].state # "unused"
      BY <2>1 DEF IdleTimeout, PoolInv, UnusedIsFree, Unused
    <3> QED BY <2>1, <3>1, RetireKeeps DEF IdleTimeout
  <2>2. ASSUME NEW k \in Accounts, LogOut(k) PROVE PoolInv'
    <3>1. PICK c \in Clients : c = warm[k]
      BY <2>2 DEF LogOut, PoolInv, PoolTypeOK
    <3>2. client[c].state # "unused" /\ ~closing /\ Retire(c) /\ UNCHANGED <<call, closing>>
      BY <2>2, <3>1 DEF LogOut, PoolInv, PoolIsFresh, Retire
    <3> QED BY <3>2, RetireKeeps
  <2>3. CASE UNCHANGED poolVars
    BY <2>3 DEF poolVars, PoolInv, PoolTypeOK, CallsHold, UnusedIsFree, PooledOnce,
                PooledUntilRetired, UsersCounted, InUseStaysOpen, NothingLeaks, PoolIsFresh, Users
  <2>4. CASE PoolNext
    BY <2>1, <2>2, <2>4, AcquireWarmKeeps, AcquireFreshKeeps, ConnectOpensKeeps, ConnectFailsKeeps,
       FinishKeeps, FloodWaitKeeps, SocketDropsKeeps, CloseKeeps DEF PoolNext
  <2> QED BY <2>3, <2>4
<1> QED BY <1>1, <1>2, PTL DEF PoolSpec

\* The reference count of a connection is the number of calls that hold it.
THEOREM CountsAreExact == PoolSpec => []UsersCounted
<1>1. PoolInv => UsersCounted
  BY DEF PoolInv
<1> QED BY <1>1, PoolCorrect, PTL

\* No connection is closed under a call, whatever timers, failures of other
\* calls and log-outs do.
THEOREM NeverClosedInUse == PoolSpec => []InUseStaysOpen
<1>1. PoolInv => InUseStaysOpen
  BY DEF PoolInv
<1> QED BY <1>1, PoolCorrect, PTL

\* Every connection that was made is closed, held by a call, or pooled with
\* its idle timer running.
THEOREM PoolNeverLeaks == PoolSpec => []NothingLeaks
<1>1. PoolInv => NothingLeaks
  BY DEF PoolInv
<1> QED BY <1>1, PoolCorrect, PTL

\* A retired connection is never handed out again.
THEOREM PoolStaysFresh == PoolSpec => []PoolIsFresh
<1>1. PoolInv => PoolIsFresh
  BY DEF PoolInv
<1> QED BY <1>1, PoolCorrect, PTL
=============================================================================
