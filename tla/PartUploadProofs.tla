--------------------------- MODULE PartUploadProofs ---------------------------
(* For files, parts and chunks of any size: the upload session never passes a *)
(* chunk whose job was not enqueued, as long as the process lives.            *)
EXTENDS PartUpload, SequenceTheorems, TLAPS

(***************************************************************************)
(* Parts and chunks.                                                       *)
(***************************************************************************)

\* Division leaves a remainder smaller than the divisor ...
LEMMA Division ==
  ASSUME NEW a \in Nat, NEW b \in Nat \ {0}
  PROVE  /\ a \div b \in Nat /\ b * (a \div b) <= a /\ a < b * (a \div b) + b
         /\ a % b \in Nat
         /\ \A q, r \in Int : q = a \div b /\ r = a % b => a = b * q + r
  OBVIOUS

\* ... and there is one quotient that does.
LEMMA Quotient ==
  ASSUME NEW a \in Nat, NEW b \in Nat \ {0}, NEW q \in Nat, b * q <= a, a < b * q + b
  PROVE  a \div b = q
<1> DEFINE d == a \div b
<1>1. d \in Nat /\ b * d <= a /\ a < b * d + b
  BY Division
<1>2. ASSUME d < q PROVE FALSE
  <2>1. d + 1 <= q
    BY <1>1, <1>2
  <2>2. b * (d + 1) <= b * q
    BY <1>1, <2>1
  <2> QED BY <1>1, <2>2
<1>3. ASSUME q < d PROVE FALSE
  <2>1. q + 1 <= d
    BY <1>1, <1>3
  <2>2. b * (q + 1) <= b * d
    BY <1>1, <2>1
  <2> QED BY <1>1, <2>2
<1> QED BY <1>1, <1>2, <1>3

\* Rounding up: the least number of b's that a fits in.
LEMMA RoundedUp ==
  ASSUME NEW a \in Nat \ {0}, NEW b \in Nat \ {0}
  PROVE  /\ CeilDiv(a, b) \in Nat \ {0}
         /\ \A n \in Nat : n < CeilDiv(a, b) <=> n * b < a
<1> DEFINE q == (a + b - 1) \div b
<1>1. q \in Nat /\ b * q <= a + b - 1 /\ a + b - 1 < b * q + b
  BY Division
<1>2. q # 0
  BY <1>1
<1>3. ASSUME NEW n \in Nat, n < q PROVE n * b < a
  <2>1. n + 1 <= q
    BY <1>1, <1>3
  <2>2. (n + 1) * b <= q * b
    BY <1>1, <2>1
  <2> QED BY <1>1, <2>2
<1>4. ASSUME NEW n \in Nat, ~(n < q) PROVE ~(n * b < a)
  <2>1. q * b <= n * b
    BY <1>1, <1>4
  <2> QED BY <1>1, <2>1
<1> QED BY <1>1, <1>2, <1>3, <1>4 DEF CeilDiv

\* A chunk is a whole number of parts, and at least one.
LEMMA WholeParts == /\ PartsPerChunk \in Nat \ {0}
                    /\ ChunkUnits = PartUnits * PartsPerChunk
<1> USE PartAssumption
<1> DEFINE k == ConfigChunkUnits \div PartUnits
<1>1. k \in Nat
  BY Division
<1>2. \E m \in Nat \ {0} : ChunkUnits = PartUnits * m
  <2>1. CASE k = 0
    BY <2>1 DEF ChunkUnits, Greatest
  <2>2. CASE k # 0
    <3>1. k * PartUnits = PartUnits * k /\ PartUnits = PartUnits * 1
      BY <1>1
    <3> QED BY <1>1, <2>2, <3>1, SMTT(30) DEF ChunkUnits, Greatest
  <2> QED BY <2>1, <2>2
<1>3. PICK m \in Nat \ {0} : ChunkUnits = PartUnits * m
  BY <1>2
<1>4. ChunkUnits \in Nat /\ PartUnits * m <= ChunkUnits /\ ChunkUnits < PartUnits * m + PartUnits
  BY <1>3
<1>5. PartsPerChunk = m
  BY <1>4, Quotient DEF PartsPerChunk
<1> QED BY <1>3, <1>5

LEMMA SomeParts == TotalParts \in Nat \ {0}
  BY PartAssumption, RoundedUp DEF TotalParts

\* A chunk begins with a part of the file.
LEMMA ChunkBegins ==
  ASSUME NEW c \in Chunks
  PROVE  c \in Nat /\ c * PartsPerChunk \in Nat /\ c * PartsPerChunk < TotalParts
<1> USE PartAssumption, WholeParts
<1>1. ChunkUnits \in Nat \ {0} /\ c \in Nat /\ c < TotalChunks
  BY RoundedUp DEF Chunks, TotalChunks
<1>2. c * ChunkUnits < FileUnits
  BY <1>1, RoundedUp DEF TotalChunks
<1>3. c * ChunkUnits = (c * PartsPerChunk) * PartUnits /\ c * PartsPerChunk \in Nat
  BY <1>1
<1> QED BY <1>1, <1>2, <1>3, RoundedUp DEF TotalParts

\* The last part of a chunk is one of its parts, and is known to be the last.
LEMMA ChunkEnds ==
  ASSUME NEW c \in Chunks
  PROVE  /\ LastPart(c) \in Parts
         /\ ChunkOf(LastPart(c)) = c
         /\ IsLastOfChunk(LastPart(c))
<1> USE SomeParts, WholeParts, ChunkBegins
<1> DEFINE l == LastPart(c)
           n == PartsPerChunk
<1>1. (c + 1) * n = c * n + n /\ c * n = n * c
  OBVIOUS
<1>2. l = (IF c * n + n < TotalParts THEN c * n + n ELSE TotalParts) - 1
  BY <1>1 DEF LastPart, FirstPart, Least
<1>3. l \in Parts /\ n * c <= l /\ l < n * c + n
  BY <1>1, <1>2 DEF Parts
<1>4. ChunkOf(l) = c
  BY <1>3, Quotient DEF ChunkOf, Parts
<1>5. CASE l = TotalParts - 1
  BY <1>3, <1>4, <1>5 DEF IsLastOfChunk, IsLastOfFile
<1>6. CASE l + 1 = n * c + n
  <2>1. (l + 1) \div n = c + 1
    BY <1>1, <1>6, Quotient
  <2>2. (l + 1) % n = 0
    BY <1>1, <1>6, <2>1, Division
  <2> QED BY <1>3, <1>4, <2>2 DEF IsLastOfChunk
<1> QED BY <1>1, <1>2, <1>5, <1>6

\* Sending a chunk again goes back, and stays in the file.
LEMMA ChunkRestarts ==
  ASSUME NEW p \in Parts
  PROVE  FirstPart(ChunkOf(p)) \in Parts /\ FirstPart(ChunkOf(p)) <= p
<1>1. p \in Nat /\ p \div PartsPerChunk \in Nat /\ PartsPerChunk * (p \div PartsPerChunk) <= p
  BY SomeParts, WholeParts, Division DEF Parts
<1>2. FirstPart(ChunkOf(p)) = PartsPerChunk * (p \div PartsPerChunk)
        /\ FirstPart(ChunkOf(p)) \in Nat
  BY <1>1, WholeParts DEF FirstPart, ChunkOf
<1> QED BY <1>1, <1>2, SomeParts DEF Parts

\* A part has its place in a chunk, and its bytes are bytes of the chunk; the
\* last part of the chunk completes it.
LEMMA PartInChunk ==
  ASSUME NEW p \in Parts
  PROVE  /\ ChunkOf(p) \in Chunks
         /\ OffsetInChunk(p) \in Nat /\ BodyUnits(p) \in Nat \ {0}
         /\ p * PartUnits = ChunkOf(p) * ChunkUnits + OffsetInChunk(p)
         /\ OffsetInChunk(p) + BodyUnits(p) <= Len(ChunkBytes(ChunkOf(p)))
         /\ IsLastOfChunk(p) =>
              /\ p = LastPart(ChunkOf(p))
              /\ OffsetInChunk(p) + BodyUnits(p) = Len(ChunkBytes(ChunkOf(p)))
<1> USE PartAssumption, SomeParts, WholeParts
<1> DEFINE n == PartsPerChunk
           c == p \div n
           k == p % n
           o == k * PartUnits
<1>1. p \in Nat /\ p < TotalParts /\ ~(p + 1 < TotalParts) = (p = TotalParts - 1)
  BY DEF Parts
<1>2. c \in Nat /\ k \in Nat /\ p = n * c + k /\ k < n
  BY <1>1, Division
<1>3. p * PartUnits < FileUnits /\ (p = TotalParts - 1 => FileUnits <= (p + 1) * PartUnits)
  BY <1>1, RoundedUp DEF TotalParts
<1> HIDE DEF c, k
<1>4. o \in Nat /\ p * PartUnits \in Nat /\ c * ChunkUnits \in Nat
  BY <1>1, <1>2
<1>5. p * PartUnits = c * ChunkUnits + o
  <2>1. p * PartUnits = (n * c) * PartUnits + k * PartUnits
    BY <1>2
  <2>2. (n * c) * PartUnits = c * (PartUnits * n)
    BY <1>2
  <2> QED BY <2>1, <2>2
<1>6. o + PartUnits <= ChunkUnits /\ (k + 1 = n => o + PartUnits = ChunkUnits)
  <2>1. o + PartUnits = (k + 1) * PartUnits /\ ChunkUnits = n * PartUnits
    BY <1>2
  <2>2. (k + 1) * PartUnits <= n * PartUnits
    BY <1>2
  <2> QED BY <2>1, <2>2
<1>7. (p + 1) * PartUnits = p * PartUnits + PartUnits
  BY <1>1
<1>8. c < TotalChunks
  <2>1. ChunkUnits \in Nat \ {0} /\ c * ChunkUnits < FileUnits
    BY <1>3, <1>4, <1>5
  <2> QED BY <1>2, <2>1, RoundedUp DEF TotalChunks
<1>9. c \in Chunks
  <2>1. TotalChunks \in Nat
    BY RoundedUp DEF TotalChunks
  <2> QED BY <1>2, <1>8, <2>1 DEF Chunks
<1>10. ChunkOf(p) = c /\ OffsetInChunk(p) = o
  BY DEF ChunkOf, OffsetInChunk, c, k
<1>11. Len(ChunkBytes(c)) = Least(ChunkUnits, FileUnits - c * ChunkUnits)
  <2>1. Least(ChunkUnits, FileUnits - c * ChunkUnits) \in Nat
    BY <1>3, <1>4, <1>5 DEF Least
  <2> QED BY <2>1 DEF ChunkBytes
<1>12. IsLastOfChunk(p) => p = TotalParts - 1 \/ k + 1 = n
  <2>1. ASSUME (p + 1) % n = 0 PROVE k + 1 = n
    <3>1. PICK q \in Int : p + 1 = n * q
      <4> DEFINE q == (p + 1) \div n
      <4>1. p + 1 \in Nat /\ q \in Int
        BY <1>1, Division
      <4>2. p + 1 = n * q + 0
        BY <2>1, <4>1, Division
      <4> QED BY <4>1, <4>2
    <3>2. n * (q - c) = k + 1
      BY <1>2, <3>1
    <3>3. q - c >= 1
      <4>1. q - c <= 0 => n * (q - c) <= 0
        BY <1>2, <3>1
      <4> QED BY <1>2, <3>1, <3>2, <4>1
    <3>4. q - c >= 2 => n * (q - c) >= n + n
      BY <1>2, <3>1
    <3>5. q - c = 1
      BY <1>2, <3>1, <3>2, <3>3, <3>4
    <3> QED BY <1>2, <3>2, <3>5
  <2> QED BY <2>1 DEF IsLastOfChunk, IsLastOfFile
<1>16. p = TotalParts - 1 \/ k + 1 = n => p = LastPart(c)
  <2>1. (c + 1) * n = n * c + n
    BY <1>2
  <2>2. (c + 1) * n \in Nat
    BY <1>2
  <2>3. LastPart(c) = (IF (c + 1) * n < TotalParts THEN (c + 1) * n ELSE TotalParts) - 1
    BY <1>2 DEF LastPart, FirstPart, Least
  <2> QED BY <1>1, <1>2, <2>1, <2>2, <2>3
<1> HIDE DEF o, n
<1>13. BodyUnits(p) \in Nat \ {0}
  BY <1>3, <1>4 DEF BodyUnits, Least
<1>14. o + BodyUnits(p) <= Len(ChunkBytes(c))
  BY <1>3, <1>4, <1>5, <1>6, <1>11 DEF BodyUnits, Least
<1>15. p = TotalParts - 1 \/ k + 1 = n => o + BodyUnits(p) = Len(ChunkBytes(c))
  <2> DEFINE x == p * PartUnits
             y == c * ChunkUnits
  <2>1. x \in Nat /\ y \in Nat /\ x = y + o /\ x < FileUnits /\ FileUnits - x > 0
    BY <1>3, <1>4, <1>5
  <2>2. p = TotalParts - 1 => FileUnits - x <= PartUnits
    BY <1>1, <1>3, <1>7, <2>1
  <2>3. BodyUnits(p) = (IF PartUnits < FileUnits - x THEN PartUnits ELSE FileUnits - x)
        /\ Len(ChunkBytes(c)) = (IF ChunkUnits < FileUnits - y THEN ChunkUnits ELSE FileUnits - y)
    BY <1>11 DEF BodyUnits, Least
  <2> HIDE DEF x, y
  <2>4. p = TotalParts - 1 => o + BodyUnits(p) = FileUnits - y
    BY <1>4, <2>1, <2>2, <2>3
  <2>5. p = TotalParts - 1 => FileUnits - y <= ChunkUnits
    BY <1>4, <1>6, <2>1, <2>2
  <2>6. k + 1 = n => o + BodyUnits(p) = Len(ChunkBytes(c))
    BY <1>4, <1>6, <2>1, <2>3
  <2> QED BY <2>1, <2>3, <2>4, <2>5, <2>6
<1> QED BY <1>4, <1>5, <1>9, <1>10, <1>12, <1>13, <1>14, <1>15, <1>16

\* The bytes of a chunk, one after the other.
LEMMA BytesInOrder ==
  ASSUME NEW c \in Chunks
  PROVE  /\ ChunkBytes(c) \in Seq(Int)
         /\ \A i \in 1..Len(ChunkBytes(c)) : ChunkBytes(c)[i] = c * ChunkUnits + i - 1
<1> DEFINE m == Least(ChunkUnits, FileUnits - c * ChunkUnits)
<1> USE PartAssumption, WholeParts
<1>1. ChunkUnits \in Nat \ {0} /\ c \in Nat /\ c < TotalChunks
  BY RoundedUp DEF Chunks, TotalChunks
<1>2. c * ChunkUnits < FileUnits /\ c * ChunkUnits \in Nat
  BY <1>1, RoundedUp DEF TotalChunks
<1>3. m \in Nat
  BY <1>1, <1>2 DEF Least
<1> HIDE DEF m
<1>4. ChunkBytes(c) = [i \in 1..m |-> c * ChunkUnits + i - 1]
  BY DEF ChunkBytes, m
<1> QED BY <1>2, <1>3, <1>4

\* A part beyond the end of a chunk belongs to a later one, which begins beyond
\* that end, too.
LEMMA LaterChunk ==
  ASSUME NEW p \in Parts, NEW c \in Chunks, p > LastPart(c)
  PROVE  ChunkOf(p) # c /\ FirstPart(ChunkOf(p)) > LastPart(c)
<1> USE SomeParts, WholeParts
<1> DEFINE n == PartsPerChunk
           d == p \div n
<1>1. c \in Nat /\ p \in Nat /\ p < TotalParts
  BY ChunkBegins DEF Parts
<1>2. (c + 1) * n \in Nat /\ LastPart(c) = (c + 1) * n - 1 /\ (c + 1) * n <= p
  BY <1>1 DEF LastPart, FirstPart, Least
<1>3. d \in Nat /\ p < n * d + n
  BY <1>1, Division
<1> HIDE DEF d
<1>4. d >= c + 1
  <2>1. SUFFICES ASSUME d + 1 <= c + 1 PROVE FALSE
    BY <1>1, <1>3
  <2>2. (d + 1) * n <= (c + 1) * n
    BY <1>1, <1>3, <2>1
  <2>3. (d + 1) * n = n * d + n
    BY <1>3
  <2> QED BY <1>1, <1>2, <1>3, <2>2, <2>3
<1>5. d * n >= (c + 1) * n
  BY <1>1, <1>3, <1>4
<1>6. ChunkOf(p) = d /\ FirstPart(d) = d * n
  BY DEF ChunkOf, FirstPart, d
<1> QED BY <1>1, <1>2, <1>3, <1>4, <1>5, <1>6

(***************************************************************************)
(* The invariant.                                                          *)
(***************************************************************************)

Done(c) == c \in queued \cup stored \/ status = "ERROR"
Passed(c) == cursor = Closed \/ cursor > LastPart(c)

\* A request that has been found in order, and works on its part.
Working(r) == put[r].pc \notin {"idle", "check"}

\* What a request knows of the chunks, wherever the cursor has gone since it
\* was found in order: those before its part are done, and its own once it has
\* enqueued it.
Knows(r) ==
  /\ Working(r) => \A c \in Chunks : put[r].part > LastPart(c) => Done(c)
  /\ put[r].pc = "advance" => \A c \in Chunks : put[r].part = LastPart(c) => Done(c)

ClientPcs == {"ready", "waiting", "stopped", "done"}
PutPcs == {"idle", "check", "stat", "reset", "open", "write", "rollback", "hash",
           "enqueue", "advance"}
Asking == [pc : ClientPcs, next : Nat, on : Requests \cup {NoPut}]
Serving == [pc : PutPcs, part : Parts, linked : BOOLEAN, received : Nat]

Typed ==
  /\ cursor \in Parts \cup {Closed}
  /\ client \in Asking
  /\ put \in [Requests -> Serving]

SkipInv ==
  /\ Typed
  /\ NothingSkipped
  /\ "crash" \notin happened => \A r \in Requests : Knows(r)

\* What the requests know stays so in a step that brings no request forward to
\* its part or past its chunk.
Quiet(r) ==
  \/ put'[r].pc \in {"idle", "check"}
  \/ /\ Working(r)
     /\ put'[r].part = put[r].part
     /\ put'[r].pc = "advance" => put[r].pc = "advance"

\* Faults are never forgotten.
LEMMA FaultsAreKept == Next => happened \subseteq happened'
<1> USE DEF Fault, faults
<1>1. ASSUME NEW r \in Requests, PutStep(r) PROVE happened \subseteq happened'
  BY <1>1 DEF PutStep, PutCheck, PutStat, PutReset, PutOpen, PutWrite, PutRollback, PutHash,
     PutEnqueue, PutAdvance, AnswerOk, AnswerResume, AnswerError, Answer
<1>2. ASSUME NEW r \in Requests, PutCut(r) \/ PutFails(r) PROVE happened \subseteq happened'
  BY <1>2 DEF PutCut, PutFails
<1>3. ASSUME NEW c \in Chunks, JobStep(c) PROVE happened \subseteq happened'
  BY <1>3 DEF JobStep, JobReads, JobUnstages, JobSkips, JobGivesUp
<1>4. ASSUME ClientStep \/ ClientAbandons \/ ClientResumes \/ Crash
      PROVE  happened \subseteq happened'
  BY <1>4 DEF ClientStep, ClientDone, ClientSend, ClientAbandons, ClientResumes, Crash
<1> QED BY <1>1, <1>2, <1>3, <1>4 DEF Next

\* While the process lives, what is done stays done.
LEMMA DoneIsKept ==
  ASSUME Next, "crash" \notin happened', NEW c \in Chunks, Done(c)
  PROVE  Done(c)'
<1> USE DEF Done
<1>1. ASSUME NEW r \in Requests, PutStep(r) PROVE Done(c)'
  BY <1>1 DEF PutStep, PutCheck, PutStat, PutReset, PutOpen, PutWrite, PutRollback, PutHash,
     PutEnqueue, PutAdvance
<1>2. ASSUME NEW r \in Requests, PutCut(r) \/ PutFails(r) PROVE Done(c)'
  BY <1>2 DEF PutCut, PutFails
<1>3. ASSUME NEW d \in Chunks, JobStep(d) PROVE Done(c)'
  BY <1>3 DEF JobStep, JobReads, JobUnstages, JobSkips, JobGivesUp
<1>4. ASSUME ClientStep \/ ClientAbandons \/ ClientResumes PROVE Done(c)'
  BY <1>4 DEF ClientStep, ClientDone, ClientSend, ClientAbandons, ClientResumes
<1>5. ~Crash
  BY DEF Crash, Fault
<1> QED BY <1>1, <1>2, <1>3, <1>4, <1>5 DEF Next

\* So a step keeps the invariant if each chunk it passes is done, and so is what
\* a request learns by it.
LEMMA StepKeeps ==
  ASSUME SkipInv, Next, Typed',
         "crash" \notin happened /\ "crash" \notin happened' =>
           /\ \A c \in Chunks : Passed(c)' => Passed(c) \/ Done(c)'
           /\ \A r \in Requests : Quiet(r) \/ Knows(r)'
  PROVE  SkipInv'
<1> USE DEF SkipInv
<1>1. CASE "crash" \in happened'
  BY <1>1 DEF NothingSkipped
<1>2. CASE "crash" \notin happened'
  <2>1. "crash" \notin happened
    BY <1>2, FaultsAreKept
  <2>2. \A c \in Chunks : Done(c) => Done(c)'
    BY <1>2, DoneIsKept
  <2>3. ASSUME NEW c \in Chunks, Passed(c)' PROVE Done(c)'
    BY <1>2, <2>1, <2>2, <2>3 DEF NothingSkipped, Passed, Done
  <2>4. NothingSkipped'
    BY <2>3 DEF NothingSkipped, Passed, Done
  <2>5. ASSUME NEW r \in Requests PROVE Knows(r)'
    BY <1>2, <2>1, <2>2 DEF Knows, Quiet, Working
  <2> QED BY <2>4, <2>5
<1> QED BY <1>1, <1>2

\* The types the argument needs are kept.
LEMMA TypedKept == Typed /\ Next => Typed'
<1> SUFFICES ASSUME Typed, Next PROVE Typed'
  OBVIOUS
<1>p. /\ \A p \in Parts : p \in Nat
      /\ 0 \in Parts
      /\ \A p \in Parts : ~IsLastOfFile(p) => p + 1 \in Parts
  <2>1. Parts = 0..(TotalParts - 1) /\ TotalParts \in Nat /\ TotalParts >= 1
    BY SomeParts DEF Parts
  <2> QED BY <2>1 DEF IsLastOfFile
<1>s. \A pc \in PutPcs, p \in Parts, l \in BOOLEAN, n \in Nat : PutAt(pc, p, l, n) \in Serving
  BY DEF PutAt, Serving
<1>c. \A pc \in ClientPcs, n \in Nat, r \in Requests \cup {NoPut} : ClientAt(pc, n, r) \in Asking
  BY DEF ClientAt, Asking
<1>b. TRUE \in BOOLEAN /\ FALSE \in BOOLEAN
  BY Zenon
<1>z. 0 \in Nat /\ "write" \in PutPcs /\ "idle" \in PutPcs
  BY DEF PutPcs
<1>i. IdlePut \in Serving
  BY <1>p, <1>s, <1>b, <1>z, Zenon DEF IdlePut
<1>o. \A p \in Parts : PutAt("write", p, TRUE, 0) \in Serving
  BY <1>s, <1>b, <1>z, Zenon
<1> USE SomeParts DEF Typed, ClientPcs, PutPcs
<1>f. \A r \in Requests : put[r] \in Serving /\ put[r].part \in Parts /\ put[r].received \in Nat
                          /\ put[r].linked \in BOOLEAN
  BY DEF Serving
<1>n. client.next \in Nat /\ client.next + 1 \in Nat
  BY DEF Asking
<1>g. ASSUME NEW r \in Requests, NEW pc \in PutPcs, Goto(r, pc)
      PROVE  put' \in [Requests -> Serving]
  BY <1>g, <1>f, <1>s DEF Goto
<1>l. ASSUME NEW r \in Requests, Leave(r) PROVE put' \in [Requests -> Serving]
  BY <1>l, <1>i DEF Leave
<1>u. \A c : Unlinked(c) \in [Requests -> Serving]
  BY DEF Unlinked, Serving
<1>0. ASSUME NEW r \in Requests, NEW next \in Nat, NEW pc \in ClientPcs, Answer(r, pc, next)
      PROVE  client' \in Asking
  BY <1>0, <1>c, <1>n DEF Answer
<1>1. ASSUME NEW r \in Requests, PutStep(r) PROVE Typed'
  <2>1. FirstPart(ChunkOf(put[r].part)) \in Parts
    BY <1>f, ChunkRestarts
  <2>2. CASE PutCheck(r)
    BY <1>0, <1>g, <1>l, <1>n, <1>p, <2>2 DEF PutCheck, AnswerError, AnswerResume
  <2>3. CASE PutStat(r)
    <3>1. put' = [Unlinked(ChunkOf(put[r].part)) EXCEPT ![r].pc = "reset"] \/ Goto(r, "open")
      BY <2>3 DEF PutStat
    <3>2. UNCHANGED <<cursor, client>>
      BY <2>3 DEF PutStat
    <3>3. CASE Goto(r, "open")
      BY <1>g, <3>2, <3>3
    <3>4. ASSUME NEW U \in [Requests -> Serving]
          PROVE  [U EXCEPT ![r].pc = "reset"] \in [Requests -> Serving]
      BY DEF Serving
    <3>5. Unlinked(ChunkOf(put[r].part)) \in [Requests -> Serving]
      BY <1>u
    <3> QED BY <3>1, <3>2, <3>3, <3>4, <3>5
  <2>4. CASE PutReset(r)
    BY <1>0, <1>l, <1>n, <1>p, <2>1, <2>4 DEF PutReset, AnswerError, AnswerResume
  <2>5. CASE PutOpen(r) \/ PutEnqueue(r)
    BY <1>g, <1>f, <1>o, <2>5 DEF PutOpen, PutEnqueue
  <2>6. CASE PutWrite(r)
    <3> DEFINE n == put[r].received + 1
               pc == IF n < BodyUnits(put[r].part) THEN "write" ELSE AfterBody(put[r].part)
    <3>1. put' = [put EXCEPT ![r] = PutAt(pc, put[r].part, put[r].linked, n)]
          /\ UNCHANGED <<cursor, client>>
      BY <2>6 DEF PutWrite
    <3>2. pc \in PutPcs /\ n \in Nat
      BY <1>f DEF AfterBody
    <3> QED BY <1>f, <1>s, <3>1, <3>2
  <2>7. CASE PutRollback(r)
    BY <1>0, <1>l, <1>n, <2>7 DEF PutRollback, AnswerError
  <2>8. CASE PutHash(r)
    BY <1>0, <1>g, <1>l, <1>n, <2>8 DEF PutHash, AnswerError
  <2>9. CASE PutAdvance(r)
    BY <1>0, <1>l, <1>n, <1>f, <1>p, <2>9 DEF PutAdvance, AnswerError, AnswerOk
  <2> QED BY <1>1, <2>2, <2>3, <2>4, <2>5, <2>6, <2>7, <2>8, <2>9 DEF PutStep
<1>2. ASSUME NEW r \in Requests, PutCut(r) \/ PutFails(r) PROVE Typed'
  BY <1>2, <1>g, <1>l, <1>c, <1>n DEF PutCut, PutFails
<1>3. ASSUME NEW c \in Chunks, JobStep(c) PROVE Typed'
  BY <1>3, <1>u DEF JobStep, JobReads, JobUnstages, JobSkips, JobGivesUp
<1>4. ASSUME NEW r \in Requests, ClientSend(r) PROVE Typed'
  <2>1. client.next \in Parts
    BY <1>4, <1>n DEF ClientSend, Parts
  <2> QED BY <1>4, <1>s, <1>c, <1>n, <1>p, <2>1 DEF ClientSend
<1>5. CASE ClientDone \/ ClientAbandons \/ ClientResumes
  BY <1>5, <1>c, <1>n DEF ClientDone, ClientAbandons, ClientResumes
<1>6. CASE Crash
  BY <1>6, <1>c, <1>n, <1>i DEF Crash
<1> QED BY <1>1, <1>2, <1>3, <1>4, <1>5, <1>6 DEF Next, ClientStep

\* Three steps teach a request something or move the cursor.  Found in order,
\* it knows what the cursor has passed; once it has enqueued the last part of a
\* chunk, that chunk is done, and the cursor follows it there; and sending a
\* chunk again takes the cursor back to where the request had been before.
LEMMA SkipStep == SkipInv /\ [Next]_vars => SkipInv'
<1> SUFFICES ASSUME SkipInv, [Next]_vars PROVE SkipInv'
  OBVIOUS
<1> DEFINE Learns == \A r \in Requests : Quiet(r) \/ Knows(r)'
           Passes == \A c \in Chunks : Passed(c)' => Passed(c) \/ Done(c)'
<1>1. Typed /\ \A r \in Requests : put[r].part \in Parts /\ put[r].pc \in PutPcs
  BY DEF SkipInv, Typed, Serving
<1>2. \A c \in Chunks : /\ LastPart(c) \in Parts
                        /\ ChunkOf(LastPart(c)) = c
                        /\ IsLastOfChunk(LastPart(c))
  BY ChunkEnds
<1>3. \A p \in Parts : p \in 0..(TotalParts - 1) /\ TotalParts \in Nat
  BY SomeParts DEF Parts
<1>4. SUFFICES ASSUME Next, "crash" \notin happened, "crash" \notin happened'
               PROVE  Learns /\ Passes
  <2>1. CASE Next
    BY <2>1, <1>1, <1>4, StepKeeps, TypedKept
  <2>2. CASE UNCHANGED vars
    BY <2>2 DEF vars, SkipInv, Typed, NothingSkipped, Knows, Working, Done, Passed, faults, staging
  <2> QED BY <2>1, <2>2
<1>5. /\ \A c \in Chunks : Passed(c) => Done(c)
      /\ \A r \in Requests : Knows(r)
  BY <1>4 DEF SkipInv, NothingSkipped, Passed, Done
<1>6. \A c \in Chunks : Done(c) => Done(c)'
  BY <1>4, DoneIsKept
<1>7. cursor' = cursor => Passes
  BY DEF Passed
<1>a. ASSUME NEW r \in Requests, \A q \in Requests \ {r} : put'[q] = put[q],
             Quiet(r) \/ Knows(r)'
      PROVE  Learns
  <2>1. ASSUME NEW q \in Requests, q # r PROVE Quiet(q)
    BY <1>1, <1>a, <2>1 DEF Quiet, Working
  <2> QED BY <1>a, <2>1
<1>b. ASSUME NEW r \in Requests, Leave(r) PROVE Learns
  <2>1. put'[r].pc = "idle" /\ \A q \in Requests \ {r} : put'[q] = put[q]
    BY <1>1, <1>b DEF Leave, IdlePut, PutAt, Typed
  <2> QED BY <1>a, <2>1 DEF Quiet
<1>c. ASSUME NEW r \in Requests, NEW pc \in PutPcs, Goto(r, pc)
      PROVE  /\ put'[r].pc = pc /\ put'[r].part = put[r].part
             /\ \A q \in Requests \ {r} : put'[q] = put[q]
  BY <1>1, <1>c DEF Goto, PutAt, Typed
<1>d. ASSUME NEW c PROVE \A r \in Requests : Unlinked(c)[r].pc = put[r].pc
                                             /\ Unlinked(c)[r].part = put[r].part
  BY <1>1 DEF Unlinked, Typed, Serving
<1>8. ASSUME NEW r \in Requests, PutCheck(r) PROVE Learns /\ Passes
  <2>1. CASE Leave(r)
    BY <1>7, <1>8, <1>b, <2>1 DEF PutCheck
  <2>2. CASE Goto(r, "stat") /\ put[r].part = cursor
    <3>1. \A c \in Chunks : put[r].part > LastPart(c) => Done(c)'
      BY <1>5, <1>6, <2>2 DEF Passed
    <3>2. Knows(r)'
      BY <1>c, <2>2, <3>1 DEF Knows, PutPcs
    <3> QED BY <1>7, <1>8, <1>a, <1>c, <2>2, <3>2 DEF PutCheck, PutPcs
  <2> QED BY <1>8, <2>1, <2>2 DEF PutCheck
<1>9. ASSUME NEW r \in Requests, PutStat(r) PROVE Learns /\ Passes
  <2>1. CASE Goto(r, "open")
    BY <1>7, <1>9, <1>a, <1>c, <2>1 DEF PutStat, Quiet, Working, PutPcs
  <2>2. CASE put' = [Unlinked(ChunkOf(put[r].part)) EXCEPT ![r].pc = "reset"]
    <3> DEFINE U == Unlinked(ChunkOf(put[r].part))
    <3>1. U \in [Requests -> Serving]
      BY <1>1 DEF Typed, Unlinked, Serving
    <3>2. \A q \in Requests : put'[q].part = put[q].part
                              /\ put'[q].pc = IF q = r THEN "reset" ELSE put[q].pc
      BY <1>d, <2>2, <3>1 DEF Serving
    <3>3. ASSUME NEW q \in Requests PROVE Quiet(q)
      BY <1>9, <3>2 DEF Quiet, Working, PutStat
    <3> QED BY <1>7, <1>9, <3>3 DEF PutStat
  <2> QED BY <1>9, <2>1, <2>2 DEF PutStat
<1>10. ASSUME NEW r \in Requests, PutReset(r) PROVE Learns /\ Passes
  <2> DEFINE first == FirstPart(ChunkOf(put[r].part))
  <2>1. first \in Parts /\ first <= put[r].part
    BY <1>1, ChunkRestarts
  <2>2. ASSUME NEW c \in Chunks, first > LastPart(c) PROVE Done(c)
    <3>1. put[r].part > LastPart(c)
      BY <1>1, <1>2, <1>3, <2>1, <2>2
    <3> QED BY <1>5, <1>10, <3>1 DEF Knows, Working, PutReset
  <2>3. cursor' \in {cursor, first}
    BY <1>10 DEF PutReset
  <2>4. Passes
    BY <1>3, <1>6, <1>7, <2>1, <2>2, <2>3 DEF Passed, Closed
  <2> QED BY <1>10, <1>b, <2>4 DEF PutReset
<1>11. ASSUME NEW r \in Requests, PutOpen(r) PROVE Learns /\ Passes
  <2>1. put'[r].pc = "write" /\ put'[r].part = put[r].part
        /\ \A q \in Requests \ {r} : put'[q] = put[q]
    BY <1>1, <1>11 DEF PutOpen, PutAt, Typed
  <2> QED BY <1>7, <1>11, <1>a, <2>1 DEF PutOpen, Quiet, Working
<1>12. ASSUME NEW r \in Requests, PutWrite(r) PROVE Learns /\ Passes
  <2> DEFINE p == put[r].part
  <2>1. put'[r].pc \in {"write", AfterBody(p)} /\ put'[r].part = p
        /\ \A q \in Requests \ {r} : put'[q] = put[q]
    BY <1>1, <1>12 DEF PutWrite, PutAt, Typed
  <2>2. AfterBody(p) = "advance" => ~IsLastOfChunk(p)
    BY DEF AfterBody
  <2>3. put'[r].pc = "advance" => \A c \in Chunks : p # LastPart(c)
    BY <1>2, <2>1, <2>2
  <2>4. Knows(r)'
    BY <1>5, <1>6, <1>12, <2>1, <2>3 DEF Knows, Working, PutWrite
  <2> QED BY <1>7, <1>12, <1>a, <2>1, <2>4 DEF PutWrite
<1>13. ASSUME NEW r \in Requests, PutRollback(r) PROVE Learns /\ Passes
  BY <1>7, <1>13, <1>b DEF PutRollback
<1>14. ASSUME NEW r \in Requests, PutHash(r) PROVE Learns /\ Passes
  <2>1. CASE Leave(r)
    BY <1>7, <1>14, <1>b, <2>1 DEF PutHash
  <2>2. CASE Goto(r, "enqueue")
    BY <1>7, <1>14, <1>a, <1>c, <2>2 DEF PutHash, Quiet, Working, PutPcs
  <2> QED BY <1>14, <2>1, <2>2 DEF PutHash
<1>15. ASSUME NEW r \in Requests, PutEnqueue(r) PROVE Learns /\ Passes
  <2>1. put'[r].pc = "advance" /\ put'[r].part = put[r].part
        /\ \A q \in Requests \ {r} : put'[q] = put[q]
    BY <1>15, <1>c DEF PutEnqueue, PutPcs
  <2>2. ChunkOf(put[r].part) \in queued'
    BY <1>15 DEF PutEnqueue
  <2>3. Knows(r)'
    BY <1>2, <1>5, <1>6, <1>15, <2>1, <2>2 DEF Knows, Working, Done, PutEnqueue
  <2> QED BY <1>7, <1>15, <1>a, <2>1, <2>3 DEF PutEnqueue
<1>16. ASSUME NEW r \in Requests, PutAdvance(r) PROVE Learns /\ Passes
  <2> DEFINE p == put[r].part
  <2>1. ASSUME NEW c \in Chunks, p >= LastPart(c) PROVE Done(c)
    BY <1>1, <1>2, <1>3, <1>5, <1>16, <2>1 DEF Knows, Working, PutAdvance
  <2>2. CASE cursor' = cursor
    BY <1>7, <1>16, <1>b, <2>2 DEF PutAdvance
  <2>3. CASE IsLastOfFile(p)
    <3>1. \A c \in Chunks : Done(c)
      BY <1>1, <1>2, <1>3, <2>1, <2>3 DEF IsLastOfFile
    <3> QED BY <1>6, <1>16, <1>b, <3>1 DEF PutAdvance
  <2>4. CASE cursor' = p + 1
    <3>1. ASSUME NEW c \in Chunks, Passed(c)' PROVE Done(c)
      BY <1>1, <1>2, <1>3, <2>1, <2>4, <3>1 DEF Passed, Closed
    <3> QED BY <1>6, <1>16, <1>b, <3>1 DEF PutAdvance
  <2> QED BY <1>16, <2>2, <2>3, <2>4 DEF PutAdvance
<1>17. ASSUME NEW r \in Requests, PutCut(r) PROVE Learns /\ Passes
  BY <1>7, <1>17, <1>a, <1>c DEF PutCut, Quiet, Working, PutPcs
<1>18. ASSUME NEW r \in Requests, PutFails(r) PROVE Learns /\ Passes
  BY <1>7, <1>18, <1>b DEF PutFails
<1>19. ASSUME NEW c \in Chunks, JobStep(c) PROVE Learns /\ Passes
  <2>1. cursor' = cursor /\ put' \in {put, Unlinked(c)}
    BY <1>19 DEF JobStep, JobReads, JobUnstages, JobSkips, JobGivesUp
  <2>2. \A r \in Requests : put'[r].pc = put[r].pc /\ put'[r].part = put[r].part
    BY <1>d, <2>1
  <2>3. Learns
    BY <2>2 DEF Quiet, Working
  <2> QED BY <1>7, <2>1, <2>3
<1>20. ASSUME NEW r \in Requests, ClientSend(r) PROVE Learns /\ Passes
  <2>1. put'[r].pc = "check" /\ \A q \in Requests \ {r} : put'[q] = put[q]
    BY <1>1, <1>20 DEF ClientSend, PutAt, Typed
  <2> QED BY <1>7, <1>20, <1>a, <2>1 DEF ClientSend, Quiet
<1>21. CASE ClientDone \/ ClientAbandons \/ ClientResumes
  <2>1. UNCHANGED <<cursor, put>>
    BY <1>21 DEF ClientDone, ClientAbandons, ClientResumes
  <2> QED BY <1>7, <2>1 DEF Quiet, Working
<1>22. ~Crash
  BY <1>4 DEF Crash, Fault
<1> QED
  BY <1>4, <1>8, <1>9, <1>10, <1>11, <1>12, <1>13, <1>14, <1>15, <1>16, <1>17, <1>18, <1>19,
     <1>20, <1>21, <1>22
     DEF Next, PutStep, ClientStep

\* The system starts in order.
LEMMA InitTyped == Init => Typed
<1>1. 0 \in Parts
  BY SomeParts DEF Parts
<1>2. FALSE \in BOOLEAN
  BY Zenon
<1>3. IdlePut \in Serving
  BY <1>1, <1>2 DEF IdlePut, PutAt, Serving, PutPcs
<1> QED BY <1>1, <1>3 DEF Init, Typed, Asking, ClientAt, ClientPcs

\* What the requests know is right, whatever is cut, repeated, left behind or
\* fails, for any sizes and any number of requests.
THEOREM SkipCorrect == Spec => []SkipInv
<1>1. ASSUME Init PROVE SkipInv
  <2>1. \A p \in Parts : p \in Nat
    BY SomeParts DEF Parts
  <2>4. Typed
    BY <1>1, InitTyped
  <2>5. NothingSkipped
    BY <1>1, <2>1, ChunkEnds DEF Init, NothingSkipped, Closed
  <2>6. \A r \in Requests : Knows(r)
    BY <1>1 DEF Init, Knows, Working, IdlePut, PutAt
  <2> QED BY <2>4, <2>5, <2>6 DEF SkipInv
<1>2. SkipInv /\ [Next]_vars => SkipInv'
  BY SkipStep
<1> QED BY <1>1, <1>2, PTL DEF Spec

\* The session never moves past a chunk whose job was not enqueued.
THEOREM NeverSkips == Spec => []NothingSkipped
<1>1. SkipInv => NothingSkipped
  BY DEF SkipInv
<1> QED BY <1>1, SkipCorrect, PTL

(***************************************************************************)
(* What is staged and read.                                                *)
(***************************************************************************)

\* One request at a time: the one the client waits for.
OneAtATime == \A r \in Requests : put[r].pc # "idle" => client.pc = "waiting" /\ client.on = r

\* The staging file holds the first bytes of its chunk, or all of them.
Begun(c) ==
  /\ Len(disk[c]) <= Len(ChunkBytes(c))
  /\ \A i \in 1..Len(disk[c]) : disk[c][i] = ChunkBytes(c)[i]
Whole(c) == disk[c] = ChunkBytes(c)

\* How far the staging file has come with the request at work on it.
HasWritten(r) ==
  LET p == put[r].part
      c == ChunkOf(p)
  IN
  c \notin stored =>
    /\ put[r].pc = "open" => Len(disk[c]) = OffsetInChunk(p)
    /\ put[r].pc = "write" => /\ put[r].linked /\ put[r].received < BodyUnits(p)
                              /\ Len(disk[c]) = OffsetInChunk(p) + put[r].received
    /\ put[r].pc = "rollback" => Len(disk[c]) >= OffsetInChunk(p)
    /\ put[r].pc \in {"hash", "enqueue"} => Whole(c)

Staged == (\A c \in Chunks \ stored : Begun(c)) /\ \A r \in Requests : HasWritten(r)

StagedInv ==
  /\ Typed
  /\ disk \in [Chunks -> Seq(Int)]
  /\ unstage \subseteq stored
  /\ "abandon" \notin happened => OneAtATime /\ Staged

\* The client sends a request when the one before has ended on the server, as
\* long as it gives none up.
LEMMA OneAtATimeKept ==
  ASSUME Typed, OneAtATime, Next, "abandon" \notin happened'
  PROVE  OneAtATime'
<1> USE DEF Typed, OneAtATime
<1>a. ASSUME NEW r \in Requests, put[r].pc # "idle",
             Leave(r), client' = client \/ client'.pc # "waiting"
      PROVE  OneAtATime'
  <2>1. \A q \in Requests : put'[q].pc = "idle"
    BY <1>a DEF Leave, IdlePut, PutAt
  <2> QED BY <2>1
<1>b. ASSUME \A r \in Requests : put'[r].pc = "idle" <=> put[r].pc = "idle", UNCHANGED client
      PROVE  OneAtATime'
  BY <1>b
<1>c. ASSUME NEW r \in Requests, NEW pc, pc # "idle", Goto(r, pc)
      PROVE  \A q \in Requests : put'[q].pc = "idle" <=> put[q].pc = "idle" /\ q # r
  BY <1>c DEF Goto, PutAt
<1>d. \A c : /\ Unlinked(c) \in [Requests -> Serving]
             /\ \A r \in Requests : Unlinked(c)[r].pc = put[r].pc
  BY DEF Unlinked, Serving
<1>e. ASSUME NEW r \in Requests, NEW pc, NEW next, Answer(r, pc, next), pc # "waiting"
      PROVE  client' = client \/ client'.pc # "waiting"
  BY <1>e DEF Answer, ClientAt
<1>1. ASSUME NEW r \in Requests, PutStep(r) PROVE OneAtATime'
  <2>1. put[r].pc # "idle"
    BY <1>1 DEF PutStep, PutCheck, PutStat, PutReset, PutOpen, PutWrite, PutRollback, PutHash,
       PutEnqueue, PutAdvance
  <2>2. CASE PutCheck(r) \/ PutHash(r)
    BY <1>a, <1>b, <1>c, <1>e, <2>1, <2>2
       DEF PutCheck, PutHash, AnswerError, AnswerResume
  <2>3. CASE PutReset(r) \/ PutRollback(r) \/ PutAdvance(r)
    BY <1>a, <1>e, <2>1, <2>3
       DEF PutReset, PutRollback, PutAdvance, AnswerError, AnswerResume, AnswerOk
  <2>4. CASE PutStat(r)
    <3>1. UNCHANGED client
      BY <2>4 DEF PutStat
    <3>2. Goto(r, "open") \/ put' = [Unlinked(ChunkOf(put[r].part)) EXCEPT ![r].pc = "reset"]
      BY <2>4 DEF PutStat
    <3>3. \A q \in Requests : put'[q].pc = "idle" <=> put[q].pc = "idle" /\ q # r
      BY <1>c, <1>d, <3>2 DEF Serving
    <3> QED BY <1>b, <2>1, <3>1, <3>3
  <2>5. CASE PutOpen(r) \/ PutWrite(r) \/ PutEnqueue(r)
    <3>1. UNCHANGED client
      BY <2>5 DEF PutOpen, PutWrite, PutEnqueue
    <3>2. \A q \in Requests : put'[q].pc = "idle" <=> put[q].pc = "idle" /\ q # r
      BY <1>c, <2>5 DEF PutOpen, PutWrite, PutEnqueue, PutAt, AfterBody
    <3> QED BY <1>b, <2>1, <3>1, <3>2
  <2> QED BY <1>1, <2>2, <2>3, <2>4, <2>5 DEF PutStep
<1>2. ASSUME NEW r \in Requests, PutCut(r) PROVE OneAtATime'
  <2>1. put[r].pc # "idle" /\ UNCHANGED client /\ Goto(r, "rollback")
    BY <1>2 DEF PutCut
  <2> QED BY <1>b, <1>c, <2>1
<1>3. ASSUME NEW r \in Requests, PutFails(r) PROVE OneAtATime'
  BY <1>3, <1>a DEF PutFails, ClientAt
<1>4. ASSUME NEW c \in Chunks, JobStep(c) PROVE OneAtATime'
  BY <1>4, <1>b, <1>d DEF JobStep, JobReads, JobUnstages, JobSkips, JobGivesUp
<1>5. ASSUME NEW r \in Requests, ClientSend(r) PROVE OneAtATime'
  BY <1>5 DEF ClientSend, ClientAt, PutAt
<1>6. CASE ClientDone \/ ClientResumes
  BY <1>6 DEF ClientDone, ClientResumes, ClientAt
<1>7. ~ClientAbandons
  BY DEF ClientAbandons, Fault
<1>8. CASE Crash
  BY <1>8 DEF Crash, IdlePut, PutAt
<1> QED BY <1>1, <1>2, <1>3, <1>4, <1>5, <1>6, <1>7, <1>8 DEF Next, ClientStep

\* A byte is appended.
LEMMA Appended ==
  ASSUME NEW s \in Seq(Int), NEW b \in Int
  PROVE  /\ Append(s, b) \in Seq(Int) /\ Len(Append(s, b)) = Len(s) + 1
         /\ Append(s, b)[Len(s) + 1] = b
         /\ \A i \in 1..Len(s) : Append(s, b)[i] = s[i]
  OBVIOUS

\* The staging file of a chunk that is not stored yet grows by the bytes of its
\* chunk, in order, or is removed, or is cut back to where a part began.
LEMMA StagedKept ==
  ASSUME StagedInv, Next, "abandon" \notin happened', OneAtATime, Staged
  PROVE  Staged'
<1> USE DEF StagedInv, Typed
<1>1. \A r \in Requests :
        LET p == put[r].part
        IN  /\ p \in Parts /\ ChunkOf(p) \in Chunks
            /\ OffsetInChunk(p) \in Nat /\ BodyUnits(p) \in Nat \ {0}
            /\ put[r].received \in Nat
  BY PartInChunk DEF Serving
<1>2. \A c \in Chunks : disk[c] \in Seq(Int) /\ Len(disk[c]) \in Nat
                        /\ ChunkBytes(c) \in Seq(Int) /\ Len(ChunkBytes(c)) \in Nat
  BY BytesInOrder
\* Only the request r is at work.
<1>a. ASSUME NEW r \in Requests, put[r].pc # "idle",
             \A q \in Requests \ {r} : put'[q].pc = put[q].pc, HasWritten(r)'
      PROVE  \A q \in Requests : HasWritten(q)'
  <2>1. \A q \in Requests \ {r} : put'[q].pc = "idle"
    BY <1>a DEF OneAtATime
  <2> QED BY <1>a, <2>1 DEF HasWritten
<1>b. ASSUME UNCHANGED <<disk, stored>>, \A q \in Requests : HasWritten(q)'
      PROVE  Staged'
  BY <1>b DEF Staged, Begun
<1>c. ASSUME NEW r \in Requests, NEW pc, Goto(r, pc)
      PROVE  /\ put'[r].pc = pc /\ put'[r].part = put[r].part
             /\ put'[r].linked = put[r].linked /\ put'[r].received = put[r].received
             /\ \A q \in Requests \ {r} : put'[q].pc = put[q].pc
  BY <1>c DEF Goto, PutAt
<1>d. ASSUME NEW r \in Requests, Leave(r)
      PROVE  put'[r].pc = "idle" /\ \A q \in Requests \ {r} : put'[q].pc = put[q].pc
  BY <1>d DEF Leave, IdlePut, PutAt
<1>e. ASSUME NEW r \in Requests, put'[r].pc \notin {"open", "write", "rollback", "hash", "enqueue"}
      PROVE  HasWritten(r)'
  BY <1>e DEF HasWritten
<1>f. ASSUME NEW r \in Requests, put[r].pc # "idle", Leave(r), UNCHANGED <<disk, stored>>
      PROVE  Staged'
  BY <1>a, <1>b, <1>d, <1>e, <1>f
<1>g. ASSUME NEW r \in Requests, put[r].pc # "idle", Goto(r, "stat") \/ Goto(r, "advance"),
             UNCHANGED <<disk, stored>>
      PROVE  Staged'
  BY <1>a, <1>b, <1>c, <1>e, <1>g
<1>h. ASSUME NEW c \in Chunks, stored \subseteq stored',
             \A d \in Chunks \ stored' : disk'[d] = disk[d]
      PROVE  \A d \in Chunks \ stored' : Begun(d)'
  BY <1>h DEF Staged, Begun
<1>3. ASSUME NEW r \in Requests, PutCheck(r) PROVE Staged'
  BY <1>3, <1>f, <1>g DEF PutCheck, staging
<1>4. ASSUME NEW r \in Requests, PutStat(r) PROVE Staged'
  <2> DEFINE p == put[r].part
             c == ChunkOf(p)
  <2>1. CASE Len(disk[c]) = OffsetInChunk(p) /\ Goto(r, "open") /\ UNCHANGED <<disk, stored>>
    <3>1. HasWritten(r)'
      BY <1>c, <2>1 DEF HasWritten
    <3> QED BY <1>4, <1>a, <1>b, <1>c, <2>1, <3>1 DEF PutStat
  <2>2. CASE RemoveStaging(c) /\ put' = [Unlinked(c) EXCEPT ![r].pc = "reset"] /\ UNCHANGED stored
    <3>1. Unlinked(c) \in [Requests -> Serving] /\ \A q \in Requests : Unlinked(c)[q].pc = put[q].pc
      BY DEF Unlinked, Serving
    <3>2. put'[r].pc = "reset" /\ \A q \in Requests \ {r} : put'[q].pc = put[q].pc
      BY <2>2, <3>1 DEF Serving
    <3>3. \A d \in Chunks \ stored : Begun(d)'
      BY <1>1, <1>2, <2>2 DEF RemoveStaging, Staged, Begun
    <3> QED BY <1>4, <1>a, <1>e, <2>2, <3>2, <3>3 DEF PutStat, Staged
  <2> QED BY <1>4, <2>1, <2>2 DEF PutStat, staging
<1>5. ASSUME NEW r \in Requests, PutReset(r) PROVE Staged'
  BY <1>5, <1>f DEF PutReset, staging
<1>6. ASSUME NEW r \in Requests, PutOpen(r) PROVE Staged'
  <2>1. /\ put' = [put EXCEPT ![r] = PutAt("write", put[r].part, TRUE, 0)]
        /\ put[r].pc = "open" /\ UNCHANGED <<disk, stored>>
    BY <1>6 DEF PutOpen
  <2>2. /\ put'[r].pc = "write" /\ put'[r].part = put[r].part /\ put'[r].linked
        /\ put'[r].received = 0
        /\ \A q \in Requests \ {r} : put'[q].pc = put[q].pc
    BY <2>1 DEF PutAt
  <2> DEFINE p == put[r].part
  <2>3. OffsetInChunk(p) \in Nat /\ BodyUnits(p) \in Nat \ {0}
    BY <1>1
  <2>4. ChunkOf(p) \notin stored => Len(disk[ChunkOf(p)]) = OffsetInChunk(p)
    BY <2>1 DEF HasWritten, Staged
  <2>5. HasWritten(r)'
    <3> HIDE DEF StagedInv, Typed, p
    <3>1. ChunkOf(p) \notin stored => 0 < BodyUnits(p)
            /\ Len(disk[ChunkOf(p)]) = OffsetInChunk(p) + 0
      BY <2>3, <2>4
    <3>2. put'[r].part = p
      BY <2>2 DEF p
    <3> QED BY <2>1, <2>2, <3>1, <3>2 DEF HasWritten
  <2> QED BY <1>a, <1>b, <2>1, <2>2, <2>5
<1>7. ASSUME NEW r \in Requests, PutWrite(r) PROVE Staged'
  <2> DEFINE p == put[r].part
             c == ChunkOf(p)
             n == put[r].received + 1
             pc == IF n < BodyUnits(p) THEN "write" ELSE AfterBody(p)
  <2>1. /\ put[r].pc = "write" /\ UNCHANGED stored
        /\ put' = [put EXCEPT ![r] = PutAt(pc, p, put[r].linked, n)]
        /\ disk' = IF put[r].linked
                   THEN [disk EXCEPT ![c] = Append(@, PartByte(p, put[r].received))]
                   ELSE disk
    BY <1>7 DEF PutWrite
  <2>2. /\ put'[r].pc = pc /\ put'[r].part = p
        /\ put'[r].linked = put[r].linked /\ put'[r].received = n
        /\ \A q \in Requests \ {r} : put'[q].pc = put[q].pc
    BY <2>1 DEF PutAt
  <2>3. CASE c \in stored
    <3>1. \A d \in Chunks \ stored : disk'[d] = disk[d]
      BY <2>1, <2>3
    <3>2. HasWritten(r)'
      BY <2>1, <2>2, <2>3 DEF HasWritten
    <3> QED BY <1>1, <1>a, <1>h, <2>1, <2>2, <3>1, <3>2 DEF Staged
  <2>4. CASE c \notin stored
    <3> DEFINE k == put[r].received
               o == OffsetInChunk(p)
               B == ChunkBytes(c)
    <3>1. c \in Chunks /\ k \in Nat /\ o \in Nat /\ BodyUnits(p) \in Nat
          /\ o + BodyUnits(p) <= Len(B) /\ Len(B) \in Nat /\ k < BodyUnits(p)
          /\ put[r].linked /\ Len(disk[c]) = o + k
          /\ (IsLastOfChunk(p) => o + BodyUnits(p) = Len(B))
      BY <1>1, <1>2, <2>1, <2>4, PartInChunk DEF Staged, HasWritten
    <3>2. PartByte(p, k) = B[o + k + 1] /\ PartByte(p, k) \in Int
      <4>1. p \in Parts /\ p * PartUnits = c * ChunkUnits + o
        BY <1>1, PartInChunk
      <4>4. p * PartUnits \in Int /\ c * ChunkUnits \in Int
        <5>1. p \in Int /\ c \in Int
          BY <3>1, <4>1, ChunkBegins, SomeParts DEF Parts
        <5>2. PartUnits \in Int /\ ChunkUnits \in Int
          BY PartAssumption, WholeParts
        <5> QED BY <5>1, <5>2
      <4>2. o + k + 1 \in 1..Len(B)
        BY <3>1
      <4>3. B[o + k + 1] = c * ChunkUnits + (o + k + 1) - 1
        BY <3>1, <4>2, BytesInOrder
      <4>5. PartByte(p, k) = p * PartUnits + k
        BY DEF PartByte
      <4> DEFINE x == p * PartUnits
                 y == c * ChunkUnits
      <4>6. x \in Int /\ y \in Int /\ x = y + o /\ PartByte(p, k) = x + k
            /\ B[o + k + 1] = y + (o + k + 1) - 1
        BY <4>1, <4>3, <4>4, <4>5
      <4> HIDE DEF x, y, k, o, B
      <4> QED BY <3>1, <4>6
    <3>3. /\ disk' = [disk EXCEPT ![c] = Append(disk[c], B[o + k + 1])]
          /\ B[o + k + 1] \in Int
      BY <2>1, <3>1, <3>2
    <3>4. /\ Len(disk'[c]) = o + k + 1
          /\ \A i \in 1..(o + k) : disk'[c][i] = disk[c][i]
          /\ disk'[c][o + k + 1] = B[o + k + 1]
          /\ disk'[c] \in Seq(Int)
      <4>1. disk'[c] = Append(disk[c], B[o + k + 1]) /\ disk[c] \in Seq(Int)
        BY <1>2, <3>1, <3>3
      <4> HIDE DEF B, o, k
      <4> QED BY <3>1, <3>3, <4>1, Appended
    <3>5. Begun(c)
      BY <2>4, <3>1 DEF Staged
    <3>15. \A i \in 1..(o + k) : disk[c][i] = B[i]
      BY <3>1, <3>5 DEF Begun
    <3>16. B \in Seq(Int)
      BY <1>2, <3>1
    <3> HIDE DEF o, k, B, p
    <3>6. Len(disk'[c]) <= Len(B) /\ \A i \in 1..Len(disk'[c]) : disk'[c][i] = B[i]
      <4>1. \A i \in 1..(o + k + 1) : i \in 1..(o + k) \/ i = o + k + 1
        BY <3>1
      <4>2. \A i \in 1..(o + k + 1) : disk'[c][i] = B[i]
        BY <3>4, <3>15, <4>1
      <4> QED BY <3>1, <3>4, <4>2
    <3> USE DEF o, k, B, p
    <3>7. \A d \in Chunks \ stored : Begun(d)'
      BY <2>1, <3>1, <3>3, <3>6, SMTT(30) DEF Staged, Begun
    <3>8. Len(disk'[c]) = Len(B) => disk'[c] = B
      <4> HIDE DEF B, p, o, k
      <4>1. disk'[c] \in Seq(Int)
        BY <3>4
      <4> QED BY <3>6, <3>16, <4>1, SeqEqual
    <3>9. pc = "write" => n < BodyUnits(p)
      BY DEF AfterBody
    <3>10. pc \in {"hash", "enqueue"} => IsLastOfChunk(p) /\ n = BodyUnits(p)
      BY <3>1 DEF AfterBody
    <3>11. pc \in {"hash", "enqueue"} => disk'[c] = B
      BY <3>1, <3>4, <3>8, <3>10
    <3>12. pc # "open"
      BY DEF AfterBody
    <3>13. Len(disk'[c]) = o + n /\ n \in Nat
      BY <3>1, <3>4, SMTT(30)
    <3> HIDE DEF pc, n, k, o, B
    <3>14. HasWritten(r)'
      BY <2>2, <3>1, <3>9, <3>11, <3>12, <3>13 DEF HasWritten, Whole, o, B
    <3> QED BY <1>a, <2>1, <2>2, <3>7, <3>14 DEF Staged
  <2> QED BY <2>3, <2>4
<1>8. ASSUME NEW r \in Requests, PutCut(r) PROVE Staged'
  <2>1. put[r].pc = "write" /\ Goto(r, "rollback") /\ UNCHANGED <<disk, stored>>
    BY <1>8 DEF PutCut, staging
  <2> DEFINE p == put[r].part
  <2>2. OffsetInChunk(p) \in Nat /\ put[r].received \in Nat
    BY <1>1
  <2>3. ChunkOf(p) \notin stored => Len(disk[ChunkOf(p)]) = OffsetInChunk(p) + put[r].received
    BY <2>1 DEF HasWritten, Staged
  <2>4. put'[r].pc = "rollback" /\ put'[r].part = p
        /\ \A q \in Requests \ {r} : put'[q].pc = put[q].pc
    BY <1>c, <2>1
  <2>5. HasWritten(r)'
    BY <2>1, <2>2, <2>3, <2>4 DEF HasWritten
  <2> QED BY <1>a, <1>b, <2>1, <2>4, <2>5
<1>9. ASSUME NEW r \in Requests, PutRollback(r) PROVE Staged'
  <2> DEFINE c == ChunkOf(put[r].part)
             o == OffsetInChunk(put[r].part)
  <2>1. /\ put[r].pc = "rollback" /\ UNCHANGED stored /\ Leave(r)
        /\ disk' = disk \/ disk' = [disk EXCEPT ![c] = Resized(@, o)]
    BY <1>9 DEF PutRollback
  <2>2. \A q \in Requests : HasWritten(q)'
    BY <1>a, <1>d, <1>e, <2>1
  <2>3. CASE disk' = disk
    BY <1>b, <2>1, <2>2, <2>3
  <2>4. CASE disk' = [disk EXCEPT ![c] = Resized(@, o)] /\ c \in stored
    <3>1. \A d \in Chunks \ stored' : disk'[d] = disk[d]
      BY <2>1, <2>4
    <3> QED BY <1>h, <2>1, <2>2, <3>1 DEF Staged
  <2>5. CASE disk' = [disk EXCEPT ![c] = Resized(@, o)] /\ c \notin stored
    <3>1. c \in Chunks /\ o \in Nat /\ o <= Len(disk[c]) /\ Len(disk[c]) \in Nat
      BY <1>1, <1>2, <2>1, <2>5 DEF Staged, HasWritten
    <3>2. Resized(disk[c], o) = [i \in 1..o |-> IF i <= Len(disk[c]) THEN disk[c][i] ELSE Hole]
      BY DEF Resized
    <3>3. Len(Resized(disk[c], o)) = o /\ \A i \in 1..o : Resized(disk[c], o)[i] = disk[c][i]
      BY <3>1, <3>2
    <3>4. \A d \in Chunks \ stored : Begun(d)'
      BY <1>2, <2>1, <2>5, <3>1, <3>3, SMTT(30) DEF Staged, Begun
    <3> QED BY <2>1, <2>2, <3>4 DEF Staged
  <2> QED BY <2>1, <2>3, <2>4, <2>5
<1>10. ASSUME NEW r \in Requests, PutHash(r) PROVE Staged'
  <2>1. put[r].pc = "hash" /\ UNCHANGED <<disk, stored>> /\ (Goto(r, "enqueue") \/ Leave(r))
    BY <1>10 DEF PutHash, staging
  <2>2. CASE Goto(r, "enqueue")
    <3>1. HasWritten(r)'
      BY <1>1, <1>c, <2>1, <2>2 DEF HasWritten, Staged, Whole
    <3> QED BY <1>a, <1>b, <1>c, <2>1, <2>2, <3>1
  <2> QED BY <1>f, <2>1, <2>2
<1>11. ASSUME NEW r \in Requests, PutEnqueue(r) \/ PutAdvance(r) \/ PutFails(r) PROVE Staged'
  BY <1>11, <1>f, <1>g DEF PutEnqueue, PutAdvance, PutFails, staging
<1>12. ASSUME NEW c \in Chunks, JobStep(c) PROVE Staged'
  <2>1. CASE JobReads(c) \/ JobGivesUp(c)
    <3>1. UNCHANGED <<disk, put>> /\ stored \subseteq stored'
      BY <2>1 DEF JobReads, JobGivesUp, staging
    <3>2. \A q \in Requests : HasWritten(q)'
      BY <3>1 DEF Staged, HasWritten, Whole
    <3> QED BY <1>h, <3>1, <3>2 DEF Staged
  <2>2. CASE JobUnstages(c) \/ JobSkips(c)
    <3>1. c \in stored /\ RemoveStaging(c) /\ put' = Unlinked(c) /\ UNCHANGED stored
      BY <2>2 DEF JobUnstages, JobSkips
    <3>2. \A d \in Chunks \ stored' : disk'[d] = disk[d]
      BY <3>1 DEF RemoveStaging
    <3>3. ASSUME NEW q \in Requests PROVE HasWritten(q)'
      <4>1. CASE ChunkOf(put[q].part) = c
        <5>1. put'[q].part = put[q].part
          BY <3>1 DEF Unlinked, Serving
        <5> QED BY <3>1, <4>1, <5>1 DEF HasWritten
      <4>2. CASE ChunkOf(put[q].part) # c
        <5>1. put'[q] = put[q] /\ disk'[ChunkOf(put[q].part)] = disk[ChunkOf(put[q].part)]
          BY <1>1, <3>1, <4>2 DEF Unlinked, RemoveStaging
        <5> QED BY <3>1, <5>1 DEF HasWritten, Whole, Staged
      <4> QED BY <4>1, <4>2
    <3> QED BY <1>h, <3>1, <3>2, <3>3 DEF Staged
  <2> QED BY <1>12, <2>1, <2>2 DEF JobStep
<1>13. ASSUME NEW r \in Requests, ClientSend(r) PROVE Staged'
  <2>1. put'[r].pc = "check" /\ UNCHANGED <<disk, stored>>
        /\ \A q \in Requests \ {r} : put'[q] = put[q]
    BY <1>13 DEF ClientSend, PutAt, staging
  <2>2. \A q \in Requests \ {r} : put'[q].pc = "idle"
    BY <1>13, <2>1 DEF OneAtATime, ClientSend
  <2>3. \A q \in Requests : HasWritten(q)'
    BY <1>e, <2>1, <2>2
  <2> QED BY <1>b, <2>1, <2>3
<1>14. CASE ClientDone \/ ClientAbandons \/ ClientResumes
  <2>1. UNCHANGED <<disk, stored, put>>
    BY <1>14 DEF ClientDone, ClientAbandons, ClientResumes, staging
  <2>2. \A q \in Requests : HasWritten(q)'
    BY <2>1 DEF Staged, HasWritten, Whole
  <2> QED BY <1>b, <2>1, <2>2
<1>15. CASE Crash
  <2>1. /\ \A r \in Requests : put'[r].pc = "idle"
        /\ disk' = disk \/ disk' = [c \in Chunks |-> << >>]
        /\ UNCHANGED stored
    BY <1>15 DEF Crash, IdlePut, PutAt, staging
  <2>2. \A q \in Requests : HasWritten(q)'
    BY <1>e, <2>1
  <2>3. disk' = [c \in Chunks |-> << >>] => \A d \in Chunks \ stored : Begun(d)'
    BY <1>2 DEF Begun
  <2> QED BY <1>b, <2>1, <2>2, <2>3 DEF Staged
<1> QED
  BY <1>3, <1>4, <1>5, <1>6, <1>7, <1>8, <1>9, <1>10, <1>11, <1>12, <1>13, <1>14, <1>15
     DEF Next, PutStep, ClientStep

\* The staging area keeps its types, and only what is stored is removed by a job.
LEMMA StagingTyped ==
  ASSUME StagedInv, Next
  PROVE  disk' \in [Chunks -> Seq(Int)] /\ unstage' \subseteq stored'
<1> USE DEF StagedInv, Typed
<1>1. \A r \in Requests : put[r].part \in Parts /\ put[r].received \in Nat
        /\ ChunkOf(put[r].part) \in Chunks
  BY PartInChunk DEF Serving
<1>2. \A c \in Chunks : disk[c] \in Seq(Int)
  OBVIOUS
<1>3. << >> \in Seq(Int)
  OBVIOUS
<1>4. ASSUME NEW r \in Requests, PutStep(r) PROVE disk' \in [Chunks -> Seq(Int)]
  <2>1. CASE PutWrite(r)
    <3>1. PartByte(put[r].part, put[r].received) \in Int
      BY <1>1, PartAssumption, SomeParts DEF PartByte, Parts
    <3>2. Append(disk[ChunkOf(put[r].part)], PartByte(put[r].part, put[r].received)) \in Seq(Int)
      BY <1>1, <1>2, <3>1
    <3> QED BY <2>1, <3>2 DEF PutWrite
  <2>2. CASE PutRollback(r)
    <3> DEFINE c == ChunkOf(put[r].part)
               o == OffsetInChunk(put[r].part)
    <3>1. c \in Chunks /\ o \in Nat /\ Hole \in Int /\ disk[c] \in Seq(Int)
      BY <1>1, <1>2, PartInChunk, PartAssumption DEF Hole
    <3> HIDE DEF c, o
    <3>2. \A i \in 1..o : (IF i <= Len(disk[c]) THEN disk[c][i] ELSE Hole) \in Int
      BY <3>1
    <3>3. Resized(disk[c], o) \in Seq(Int)
      BY <3>1, <3>2 DEF Resized
    <3> QED BY <2>2, <3>3 DEF PutRollback, c, o
  <2>3. CASE PutStat(r)
    BY <1>3, <2>3 DEF PutStat, RemoveStaging, staging
  <2>4. CASE ~(PutWrite(r) \/ PutRollback(r) \/ PutStat(r))
    BY <1>4, <2>4 DEF PutStep, PutCheck, PutReset, PutOpen, PutHash, PutEnqueue, PutAdvance, staging
  <2> QED BY <2>1, <2>2, <2>3, <2>4
<1>5. ASSUME NEW r \in Requests, PutStep(r) \/ PutCut(r) \/ PutFails(r)
      PROVE  UNCHANGED <<unstage, stored>>
  BY <1>5 DEF PutStep, PutCheck, PutStat, PutReset, PutOpen, PutWrite, PutRollback, PutHash,
     PutEnqueue, PutAdvance, PutCut, PutFails
<1>6. ASSUME NEW r \in Requests, PutCut(r) \/ PutFails(r) PROVE UNCHANGED disk
  BY <1>6 DEF PutCut, PutFails, staging
<1>7. ASSUME NEW c \in Chunks, JobStep(c)
      PROVE  disk' \in [Chunks -> Seq(Int)] /\ unstage' \subseteq stored'
  BY <1>3, <1>7 DEF JobStep, JobReads, JobUnstages, JobSkips, JobGivesUp, RemoveStaging, staging
<1>8. CASE ClientStep \/ ClientAbandons \/ ClientResumes
  BY <1>8 DEF ClientStep, ClientSend, ClientDone, ClientAbandons, ClientResumes, staging
<1>9. CASE Crash
  BY <1>3, <1>9 DEF Crash, staging
<1> QED BY <1>4, <1>5, <1>6, <1>7, <1>8, <1>9 DEF Next

LEMMA StagedStep == StagedInv /\ [Next]_vars => StagedInv'
<1> SUFFICES ASSUME StagedInv, [Next]_vars PROVE StagedInv'
  OBVIOUS
<1>1. CASE Next
  <2>1. "abandon" \notin happened' => "abandon" \notin happened
    BY <1>1, FaultsAreKept
  <2>2. "abandon" \notin happened' => OneAtATime' /\ Staged'
    BY <1>1, <2>1, OneAtATimeKept, StagedKept DEF StagedInv
  <2> QED BY <1>1, <2>2, StagingTyped, TypedKept DEF StagedInv
<1>2. CASE UNCHANGED vars
  BY <1>2 DEF vars, staging, faults, StagedInv, Typed, OneAtATime, Staged, Begun, HasWritten, Whole
<1> QED BY <1>1, <1>2

\* Nothing is staged in the beginning.
LEMMA StagedFirst == Init => StagedInv
<1> SUFFICES ASSUME Init PROVE StagedInv
  OBVIOUS
<1>1. << >> \in Seq(Int)
  OBVIOUS
<1>2. \A c \in Chunks : Begun(c)
  BY BytesInOrder DEF Init, Begun
<1>3. \A r \in Requests : put[r].pc = "idle"
  BY DEF Init, IdlePut, PutAt
<1> QED BY <1>1, <1>2, <1>3, InitTyped DEF Init, StagedInv, OneAtATime, Staged, HasWritten

\* As long as the client gives no request up, what is handed to the queue is the
\* whole chunk in order, for any sizes, whatever is cut or dies and is resumed.
THEOREM QueuedWhole == Spec => []EnqueuedIntact
<1>1. Spec => []StagedInv
  BY StagedFirst, StagedStep, PTL DEF Spec
<1>2. StagedInv => EnqueuedIntact
  BY DEF StagedInv, Staged, HasWritten, EnqueuedIntact, Whole
<1> QED BY <1>1, <1>2, PTL

\* A chunk whose job waits is behind the session, or its last request is about
\* to take the session past it.
Behind(c) == Passed(c) \/ \E r \in Requests : put[r].pc = "advance" /\ put[r].part = LastPart(c)

\* The request at work is on the part the session waits for; what waits for its
\* job is whole and behind the session; what a job has read was whole.
ReadInv ==
  happened \subseteq {"cut", "answer"} =>
    /\ \A r \in Requests : Working(r) => put[r].part = cursor
    /\ \A r \in Requests : put[r].pc \in {"hash", "enqueue"} => IsLastOfChunk(put[r].part)
    /\ queued \subseteq Chunks /\ stored \subseteq Chunks
    /\ \A c \in queued \ stored : Whole(c) /\ Behind(c)
    /\ DOMAIN sent = Chunks /\ \A c \in stored : sent[c] = ChunkBytes(c)

\* With one request at a time, none that fails and no crash, what is behind the
\* session is never sent again while it waits.
LEMMA ReadStep == StagedInv /\ StagedInv' /\ ReadInv /\ [Next]_vars => ReadInv'
<1> SUFFICES ASSUME StagedInv, StagedInv', ReadInv, [Next]_vars,
                    happened' \subseteq {"cut", "answer"}
             PROVE  ReadInv'
  BY DEF ReadInv
<1>1. CASE UNCHANGED vars
  BY <1>1 DEF vars, staging, faults, ReadInv, Working, Whole, Behind, Passed
<1>2. SUFFICES ASSUME Next PROVE ReadInv'
  BY <1>1
<1>3. happened \subseteq {"cut", "answer"}
  BY <1>2, FaultsAreKept
<1>4. /\ \A r \in Requests : Working(r) => put[r].part = cursor
      /\ \A r \in Requests : put[r].pc \in {"hash", "enqueue"} => IsLastOfChunk(put[r].part)
      /\ queued \subseteq Chunks /\ stored \subseteq Chunks
      /\ \A c \in queued \ stored : Whole(c) /\ Behind(c)
      /\ DOMAIN sent = Chunks /\ \A c \in stored : sent[c] = ChunkBytes(c)
  BY <1>3 DEF ReadInv
<1>5. OneAtATime /\ Staged /\ Typed /\ Typed'
  BY <1>3 DEF StagedInv
<1> DEFINE Working1 == \A r \in Requests : Working(r)' => put'[r].part = cursor'
           Last1 == \A r \in Requests :
                      put'[r].pc \in {"hash", "enqueue"} => IsLastOfChunk(put'[r].part)
           Waiting1 == queued' \subseteq Chunks
                       /\ \A c \in queued' \ stored' : Whole(c)' /\ Behind(c)'
           Sent1 == stored' \subseteq Chunks /\ DOMAIN sent' = Chunks
                    /\ \A c \in stored' : sent'[c] = ChunkBytes(c)
<1>6. SUFFICES Last1 /\ Working1 /\ Waiting1 /\ Sent1
  BY DEF ReadInv
<1>p. \A r \in Requests : put[r].part \in Parts /\ ChunkOf(put[r].part) \in Chunks
  BY <1>5, PartInChunk DEF Typed, Serving
<1>q. \A p \in Parts : p \in Nat /\ p # Closed
  BY SomeParts DEF Parts, Closed
<1>7. \A r, q \in Requests : put[r].pc # "idle" /\ put[q].pc # "idle" => r = q
  BY <1>5 DEF OneAtATime
\* The request at work on a part is not on a chunk that waits for its job.
<1>8. ASSUME NEW r \in Requests, Working(r), put[r].pc # "advance", NEW c \in queued \ stored
      PROVE  /\ ChunkOf(put[r].part) # c /\ FirstPart(ChunkOf(put[r].part)) > LastPart(c)
             /\ cursor > LastPart(c)
  <2>1. Passed(c)
    BY <1>4, <1>7, <1>8 DEF Behind, Working
  <2>2. put[r].part > LastPart(c) /\ put[r].part \in Parts
    BY <1>4, <1>p, <1>q, <1>8, <2>1 DEF Passed
  <2> QED BY <1>4, <1>8, <2>2, LaterChunk
<1>t. \A r \in Requests : put'[r].part \in Parts /\ put[r].pc \in PutPcs
  BY <1>5 DEF Typed, Serving
\* A step of the request at work, short of its last one.
<1>a. ASSUME NEW r \in Requests, put[r].pc \notin {"idle", "advance"},
             UNCHANGED <<cursor, queued, stored, sent>>,
             \A c \in queued \ stored : disk'[c] = disk[c],
             \A q \in Requests \ {r} : put'[q].pc = put[q].pc,
             put'[r].pc \notin {"idle", "check"} => put'[r].part = cursor,
             put'[r].pc \in {"hash", "enqueue"} => IsLastOfChunk(put'[r].part)
      PROVE  Last1 /\ Working1 /\ Waiting1 /\ Sent1
  <2>1. \A q \in Requests \ {r} : put[q].pc = "idle" /\ put'[q].pc = "idle"
    BY <1>7, <1>a
  <2>2. \A c \in queued \ stored : Passed(c)
    BY <1>4, <1>a, <2>1 DEF Behind
  <2>3. Last1 /\ Working1
    BY <1>a, <2>1 DEF Working
  <2>4. Waiting1
    BY <1>4, <1>a, <2>2 DEF Whole, Behind, Passed
  <2> QED BY <1>4, <1>a, <2>3, <2>4
\* A step that moves no request and not the session.
<1>b. ASSUME \A r \in Requests : put'[r].pc = put[r].pc /\ put'[r].part = put[r].part,
             UNCHANGED cursor, queued' \subseteq queued, stored \subseteq stored',
             \A c \in queued' \ stored' : disk'[c] = disk[c]
      PROVE  Last1 /\ Working1 /\ Waiting1
  <2>1. Last1 /\ Working1
    BY <1>4, <1>b DEF Working
  <2>2. Waiting1
    BY <1>4, <1>b DEF Whole, Behind, Passed
  <2> QED BY <2>1, <2>2
<1>c. ASSUME NEW r \in Requests, NEW pc, Goto(r, pc)
      PROVE  /\ put'[r].pc = pc /\ put'[r].part = put[r].part
             /\ \A q \in Requests \ {r} : put'[q].pc = put[q].pc
  BY <1>5, <1>c DEF Goto, PutAt, Typed
<1>d. ASSUME NEW r \in Requests, Leave(r)
      PROVE  put'[r].pc = "idle" /\ \A q \in Requests \ {r} : put'[q].pc = put[q].pc
  BY <1>5, <1>d DEF Leave, IdlePut, PutAt, Typed
<1>e. \A c : \A q \in Requests : Unlinked(c)[q].pc = put[q].pc /\ Unlinked(c)[q].part = put[q].part
  BY <1>5 DEF Unlinked, Typed, Serving
<1>9. ASSUME NEW r \in Requests, PutCheck(r) PROVE Last1 /\ Working1 /\ Waiting1 /\ Sent1
  <2>1. put[r].pc = "check" /\ UNCHANGED <<cursor, queued, stored, sent, disk>>
    BY <1>9 DEF PutCheck, staging
  <2>2. Leave(r) \/ (Goto(r, "stat") /\ put[r].part = cursor)
    BY <1>9 DEF PutCheck
  <2> QED BY <1>a, <1>c, <1>d, <2>1, <2>2
<1>10. ASSUME NEW r \in Requests, PutStat(r) \/ PutWrite(r) \/ PutRollback(r)
       PROVE  Last1 /\ Working1 /\ Waiting1 /\ Sent1
  <2> DEFINE c == ChunkOf(put[r].part)
  <2>1. put[r].pc \in {"stat", "write", "rollback"} /\ Working(r) /\ put[r].part = cursor
    BY <1>4, <1>10 DEF PutStat, PutWrite, PutRollback, Working
  <2>2. \A d \in queued \ stored : d # c
    BY <1>4, <1>8, <2>1
  <2>3. \A d \in Chunks \ {c} : disk'[d] = disk[d]
    BY <1>5, <1>10 DEF PutStat, PutWrite, PutRollback, RemoveStaging, staging, StagedInv
  <2>4. UNCHANGED <<cursor, queued, stored, sent>>
    BY <1>10 DEF PutStat, PutWrite, PutRollback
  <2>5. /\ \A q \in Requests \ {r} : put'[q].pc = put[q].pc
        /\ put'[r].pc # "idle" => put'[r].part = cursor
        /\ put'[r].pc \in {"hash", "enqueue"} => IsLastOfChunk(put[r].part)
    <3>1. CASE PutStat(r)
      <4>1. CASE Goto(r, "open")
        BY <1>c, <2>1, <4>1
      <4>2. CASE put' = [Unlinked(c) EXCEPT ![r].pc = "reset"]
        <5>1. Unlinked(c) \in [Requests -> Serving]
          BY <1>5 DEF Unlinked, Typed, Serving
        <5> QED BY <1>e, <2>1, <4>2, <5>1 DEF Serving
      <4> QED BY <3>1, <4>1, <4>2 DEF PutStat
    <3>2. CASE PutWrite(r)
      <4>1. /\ put'[r].part = put[r].part /\ put'[r].pc \in {"write", AfterBody(put[r].part)}
            /\ \A q \in Requests \ {r} : put'[q] = put[q]
        BY <1>5, <3>2 DEF PutWrite, PutAt, Typed
      <4> QED BY <2>1, <4>1 DEF AfterBody
    <3>3. CASE PutRollback(r)
      BY <1>d, <3>3 DEF PutRollback
    <3> QED BY <1>10, <3>1, <3>2, <3>3
  <2>6. \A d \in queued \ stored : disk'[d] = disk[d]
    BY <1>4, <2>2, <2>3
  <2>7. put'[r].pc \in {"hash", "enqueue"} => IsLastOfChunk(put'[r].part)
    BY <2>1, <2>5
  <2> QED BY <1>a, <2>1, <2>4, <2>5, <2>6, <2>7
<1>11. ASSUME NEW r \in Requests, PutOpen(r) \/ PutCut(r) \/ PutHash(r)
       PROVE  Last1 /\ Working1 /\ Waiting1 /\ Sent1
  <2>1. put[r].pc \in {"open", "write", "hash"} /\ put[r].part = cursor
        /\ (put[r].pc = "hash" => IsLastOfChunk(put[r].part))
    BY <1>4, <1>11 DEF PutOpen, PutCut, PutHash, Working
  <2>2. UNCHANGED <<cursor, queued, stored, sent, disk>>
    BY <1>11 DEF PutOpen, PutCut, PutHash, staging
  <2>3. /\ \A q \in Requests \ {r} : put'[q].pc = put[q].pc
        /\ \/ put'[r].pc = "idle"
           \/ put'[r].part = put[r].part
              /\ (put'[r].pc \in {"hash", "enqueue"} => put[r].pc = "hash")
    <3>1. CASE PutOpen(r)
      BY <1>5, <3>1 DEF PutOpen, PutAt, Typed
    <3>2. CASE Goto(r, "rollback") \/ Leave(r)
      BY <1>c, <1>d, <3>2
    <3>3. CASE PutHash(r)
      BY <1>c, <1>d, <3>3 DEF PutHash
    <3> QED BY <1>11, <3>1, <3>2, <3>3 DEF PutCut
  <2> QED BY <1>a, <2>1, <2>2, <2>3
<1>12. ASSUME NEW r \in Requests, PutEnqueue(r),
              NEW p, p = put[r].part, NEW c, c = ChunkOf(p)
       PROVE  Last1 /\ Working1 /\ Waiting1 /\ Sent1
  <2>1. /\ put[r].pc = "enqueue" /\ queued' = queued \union {c}
        /\ UNCHANGED <<cursor, stored, sent, disk>>
        /\ put'[r].pc = "advance" /\ put'[r].part = p
        /\ \A q \in Requests \ {r} : put'[q].pc = put[q].pc
    BY <1>12, <1>c DEF PutEnqueue, staging
  <2>2. p = cursor /\ p = LastPart(c) /\ c \in Chunks
    BY <1>4, <1>p, <1>12, <2>1, PartInChunk DEF Working
  <2>3. \A q \in Requests \ {r} : put'[q].pc = "idle"
    BY <1>7, <2>1
  <2>4. Last1 /\ Working1
    BY <2>1, <2>2, <2>3 DEF Working
  <2>5. (Whole(c)' /\ Behind(c)') \/ c \in stored
    <3>1. c \notin stored => Whole(c)
      BY <1>5, <1>12, <2>1 DEF Staged, HasWritten
    <3>2. Whole(c) => Whole(c)'
      BY <2>1 DEF Whole
    <3>3. put'[r].pc = "advance" /\ put'[r].part = LastPart(c)
      BY <2>1, <2>2
    <3>4. Behind(c)'
      BY <3>3 DEF Behind
    <3> QED BY <3>1, <3>2, <3>4
  <2>6. ASSUME NEW d \in queued \ stored PROVE Whole(d)' /\ Behind(d)'
    <3>1. Passed(d)
      BY <1>4, <1>7, <2>1, <2>6 DEF Behind
    <3> QED BY <1>4, <2>1, <2>6, <3>1 DEF Whole, Behind, Passed
  <2>7. Waiting1
    BY <1>4, <2>1, <2>2, <2>5, <2>6
  <2> QED BY <1>4, <2>1, <2>4, <2>7
<1>13. ASSUME NEW r \in Requests, PutReset(r) \/ PutAdvance(r)
       PROVE  Last1 /\ Working1 /\ Waiting1 /\ Sent1
  <2> DEFINE p == put[r].part
  <2>1. /\ put[r].pc \in {"reset", "advance"} /\ UNCHANGED <<queued, stored, sent, disk>>
        /\ Leave(r) /\ p = cursor /\ p \in Parts /\ cursor # Closed
    BY <1>4, <1>13, <1>p, <1>q DEF PutReset, PutAdvance, staging, Working
  <2>2. \A q \in Requests : put'[q].pc = "idle"
    BY <1>7, <1>d, <2>1
  <2>3. \/ put[r].pc = "reset" /\ cursor' = FirstPart(ChunkOf(p))
        \/ put[r].pc = "advance" /\ cursor' \in {Closed, p + 1}
    BY <1>13, <2>1 DEF PutReset, PutAdvance
  <2>4. ASSUME NEW c \in queued \ stored PROVE Passed(c)'
    <3>1. CASE put[r].pc = "reset"
      BY <1>4, <1>8, <2>1, <2>3, <2>4, <3>1 DEF Passed, Working
    <3>2. CASE put[r].pc = "advance"
      <4>1. p >= LastPart(c)
        BY <1>4, <1>7, <1>q, <2>1, <2>4, <3>2, ChunkEnds DEF Behind, Passed
      <4>2. p \in Nat /\ LastPart(c) \in Nat
        BY <1>4, <1>q, <2>1, <2>4, ChunkEnds
      <4> QED BY <2>3, <3>2, <4>1, <4>2 DEF Passed
    <3> QED BY <2>1, <3>1, <3>2
  <2>5. Last1 /\ Working1
    BY <2>2 DEF Working
  <2>6. Waiting1
    BY <1>4, <2>1, <2>4 DEF Whole, Behind, Passed
  <2> QED BY <1>4, <2>1, <2>5, <2>6
<1>14. ASSUME NEW c \in Chunks, JobReads(c) PROVE Last1 /\ Working1 /\ Waiting1 /\ Sent1
  <2>1. c \in queued \ stored /\ UNCHANGED <<put, cursor, disk>> /\ queued' = queued \ {c}
        /\ stored' = stored \union {c}
        /\ sent' = [sent EXCEPT ![c] = SubSeq(disk[c], 1, Least(Len(disk[c]), Len(ChunkBytes(c))))]
    BY <1>14 DEF JobReads, staging
  <2>2. disk[c] = ChunkBytes(c) /\ ChunkBytes(c) \in Seq(Int)
    BY <1>4, <2>1, BytesInOrder DEF Whole
  <2>3. \A s \in Seq(Int) : SubSeq(s, 1, Len(s)) = s
    <3>1. ASSUME NEW s \in Seq(Int) PROVE SubSeq(s, 1, Len(s)) = s
      <4>1. /\ SubSeq(s, 1, Len(s)) \in Seq(Int) /\ Len(SubSeq(s, 1, Len(s))) = Len(s)
            /\ \A i \in 1..Len(s) : SubSeq(s, 1, Len(s))[i] = s[i]
        OBVIOUS
      <4> QED BY <4>1, SeqEqual
    <3> QED BY <3>1
  <2>4. sent' = [sent EXCEPT ![c] = ChunkBytes(c)]
    BY <2>1, <2>2, <2>3 DEF Least
  <2>5. Sent1
    BY <1>4, <2>1, <2>4
  <2> QED BY <1>b, <2>1, <2>5
<1>15. ASSUME NEW c \in Chunks, JobUnstages(c) \/ JobSkips(c) \/ JobGivesUp(c)
       PROVE  Last1 /\ Working1 /\ Waiting1 /\ Sent1
  <2>1. /\ queued' \subseteq queued /\ UNCHANGED <<cursor, stored, sent>>
        /\ put' \in {put, Unlinked(c)}
        /\ disk' = disk \/ (c \in stored /\ disk' = [disk EXCEPT ![c] = << >>])
    BY <1>15 DEF JobUnstages, JobSkips, JobGivesUp, RemoveStaging, staging, StagedInv
  <2>2. \A r \in Requests : put'[r].pc = put[r].pc /\ put'[r].part = put[r].part
    BY <1>e, <2>1
  <2>3. \A d \in queued' \ stored' : disk'[d] = disk[d]
    BY <1>4, <2>1 DEF StagedInv
  <2> QED BY <1>4, <1>b, <2>1, <2>2, <2>3
<1>16. ASSUME NEW r \in Requests, ClientSend(r) PROVE Last1 /\ Working1 /\ Waiting1 /\ Sent1
  <2>1. /\ put'[r].pc = "check" /\ UNCHANGED <<cursor, queued, stored, sent, disk>>
        /\ \A q \in Requests \ {r} : put'[q] = put[q]
        /\ client.pc = "ready"
    BY <1>5, <1>16 DEF ClientSend, PutAt, staging, Typed
  <2>2. \A q \in Requests : put[q].pc = "idle"
    BY <1>5, <2>1 DEF OneAtATime
  <2>3. \A q \in Requests : put'[q].pc \in {"idle", "check"}
    BY <2>1, <2>2
  <2>4. Last1 /\ Working1
    BY <2>3 DEF Working
  <2>5. Waiting1
    BY <1>4, <2>1, <2>2 DEF Whole, Behind, Passed
  <2> QED BY <1>4, <2>1, <2>4, <2>5
<1>17. ASSUME ClientDone \/ ClientResumes PROVE Last1 /\ Working1 /\ Waiting1 /\ Sent1
  <2>1. UNCHANGED <<put, cursor, queued, stored, sent, disk>>
    BY <1>17 DEF ClientDone, ClientResumes, staging
  <2> QED BY <1>4, <1>b, <2>1
<1>18. ~ClientAbandons /\ ~Crash /\ \A r \in Requests : ~PutFails(r)
  <2>1. "abandon" \notin happened' /\ "crash" \notin happened' /\ "server" \notin happened'
    OBVIOUS
  <2>2. \A kind : Fault(kind) => kind \in happened'
    BY DEF Fault
  <2> QED BY <2>1, <2>2 DEF ClientAbandons, Crash, PutFails
<1> QED
  BY <1>2, <1>9, <1>10, <1>11, <1>12, <1>13, <1>14, <1>15, <1>16, <1>17, <1>18
     DEF Next, PutStep, JobStep, ClientStep

\* A client that gives no request up, a server that fails no write and a process
\* that lives store each chunk as it is in the file, whatever is cut or lost.
THEOREM StoredWhole == Spec => []SentIntact
<1>1. ASSUME Init PROVE StagedInv /\ ReadInv
  BY <1>1, StagedFirst DEF Init, ReadInv, Working, IdlePut, PutAt
<1>2. StagedInv /\ ReadInv /\ [Next]_vars => (StagedInv /\ ReadInv)'
  BY StagedStep, ReadStep
<1>3. ReadInv => SentIntact
  BY DEF ReadInv, SentIntact
<1> QED BY <1>1, <1>2, <1>3, PTL DEF Spec
=============================================================================
