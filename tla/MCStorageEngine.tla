-------------------------- MODULE MCStorageEngine --------------------------
(* Instances of StorageEngine for TLC: the slots of a run, and budgets     *)
(* that allow the faults the run is about.                                 *)
EXTENDS StorageEngine, TLC

CONSTANTS f1, j1, j2, q1, r1, r2

\* The slots of the queue are alike.
Alike == Permutations(Jobs)

NoFaults == [kind \in FaultKinds |-> 0]
OneTelegram == [NoFaults EXCEPT !["telegram"] = 1]
TwoTelegram == [NoFaults EXCEPT !["telegram"] = 2]
OneCrash == [NoFaults EXCEPT !["crash"] = 1]
OneDatabase == [NoFaults EXCEPT !["database"] = 1]
TelegramAndHand == [OneTelegram EXCEPT !["byHand"] = 1]

\* What fails on this side of Telegram, each once.
OwnFaults ==
  [kind \in FaultKinds |-> IF kind \in {"telegram", "byHand"} THEN 0 ELSE 1]
=============================================================================
