--------------------------- MODULE FileLifecycle ---------------------------
(***************************************************************************)
(* What the storage engine promises about one file, with no jobs, requests *)
(* or messages in sight: the status a user sees against the chunks known   *)
(* to have reached the storage.  READY and LOST are evidence: they are     *)
(* only ever given to a file every chunk of which was stored (ADR-0011),   *)
(* what was stored is never forgotten while the file exists, and a deleted *)
(* file does not return.                                                   *)
(***************************************************************************)
EXTENDS Naturals

CONSTANTS
  Files,
  Chunks    \* chunks of a file

VARIABLES
  status,   \* what the user is shown
  stored    \* chunks that have reached the storage

lifecycleVars == <<status, stored>>

Alive(f) == status[f] \notin {"NEW", "GONE"}

Init ==
  /\ status = [f \in Files |-> "NEW"]
  /\ stored = [f \in Files |-> {}]

SetStatus(f, s) ==
  /\ status' = [status EXCEPT ![f] = s]
  /\ UNCHANGED stored

Create(f) == status[f] = "NEW" /\ SetStatus(f, "UPLOADING")

Store(f, c) ==
  /\ Alive(f)
  /\ stored' = [stored EXCEPT ![f] = @ \cup {c}]
  /\ UNCHANGED status

\* The sync failed, or is taken up again.
Fail(f) == Alive(f) /\ SetStatus(f, "ERROR")
Resume(f) == Alive(f) /\ SetStatus(f, "UPLOADING")

\* Every chunk is in the storage, or was and has been deleted there.
Publish(f) == Alive(f) /\ stored[f] = Chunks /\ SetStatus(f, "READY")
Lose(f) == Alive(f) /\ stored[f] = Chunks /\ SetStatus(f, "LOST")

Delete(f) ==
  /\ Alive(f)
  /\ status' = [status EXCEPT ![f] = "GONE"]
  /\ stored' = [stored EXCEPT ![f] = {}]

Next ==
  \E f \in Files :
    \/ Create(f) \/ Fail(f) \/ Resume(f) \/ Publish(f) \/ Lose(f) \/ Delete(f)
    \/ \E c \in Chunks : Store(f, c)

Spec == Init /\ [][Next]_lifecycleVars
=============================================================================
