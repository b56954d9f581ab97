---------------------------- MODULE MCSessions ------------------------------
(* Instances of Sessions for TLC: two browsers with one call in flight each,  *)
(* and one tab whose page makes two calls at once, freely or taking turns.    *)
EXTENDS Sessions, TLC

CONSTANTS b1, b2, t1, t2, c1, c2

TwoBrowsers == t1 :> b1 @@ t2 :> b2
OneTab == t1 :> b1
CallEach == c1 :> t1 @@ c2 :> t2
SplitKinds == c1 :> {"request", "boot", "change", "reset"} @@ c2 :> {"login", "fetch", "logout"}
First == <<b1>>
Everyday == c1 :> {"login", "request"} @@ c2 :> {"request", "fetch"}
BothInOne == c1 :> t1 @@ c2 :> t1
SharedKinds == c1 :> {"request", "boot", "change", "logout"} @@ c2 :> {"login", "fetch", "request"}
ChangeAndList == c1 :> {"change"} @@ c2 :> {"request"}
\* The calls of the tab wait for each other before they use its cookie.
TurnsSpec == SessionInit /\ [][SessionNext /\ TakeTurns']_sessionVars
=============================================================================
