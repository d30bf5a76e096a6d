------------------------ MODULE DemonstrationProofs ------------------------
(***************************************************************************)
(* The two demonstration programs do what they are there to show, whatever *)
(* their constants: any number of spurious wake-ups and of checks, of      *)
(* readers, addresses, cells, passes and puts.                             *)
(***************************************************************************)
EXTENDS Handover, PointerEscape, FiniteSetTheorems, TLAPS

-----------------------------------------------------------------------------
(* The handover.  Who is where decides everything else: what access is, who *)
(* holds its mutex, which checkpoints are set, and what main has seen.     *)

\* main is in the second half of the program.
Stressing == {"checking", "checkingSecond", "joiningStress", "done"}

\* The writer is in the second half, and has not ended.
Flipping == {"looping", "flipping", "flipped", "flippingBack", "flippedBack"}

\* The writer has seen the first checkpoint.
PastCheckpoint == {"reassigning", "reassigned", "finishing", "notifying", "ended"}

MainSteps ==
  {"resetting", "readingFirst", "announcing", "notifying", "testing", "blocking",
   "sleeping", "waking", "readingSecond", "joining", "joined"} \cup Stressing

WriterSteps ==
  {"unborn", "testing", "blocking", "sleeping", "waking"} \cup PastCheckpoint \cup Flipping

\* Managers have access and engineers do not; both have, in the middle of a section.
Reorganised ==
  \/ at.writer \in {"finishing", "notifying", "flippingBack"}
  \/ at.writer = "ended" /\ at.main \notin Stressing

Midway == at.writer \in {"reassigned", "flipped", "flippedBack"}

HandoverTypes ==
  /\ at \in [main : MainSteps, writer : WriterSteps]
  /\ access \in [engineers : BOOLEAN, managers : BOOLEAN]
  /\ seen \in [engineers : BOOLEAN, managers : BOOLEAN]
  /\ {dataMutex, checkpointMutex} \subseteq {Free, "main", "writer"}
  /\ {readOneDone, writerDone, halted} \subseteq BOOLEAN
  /\ wakeups \in 0 .. MaxWakeups

HalvesInv ==
  /\ at.main = "resetting" <=> at.writer = "unborn"
  /\ at.main \in Stressing => at.writer \in Flipping \cup {"ended"}
  /\ at.main \notin Stressing => at.writer \notin Flipping

AccessInv ==
  /\ access.engineers = ~Reorganised
  /\ access.managers = (Reorganised \/ Midway)

DataMutexInv ==
  /\ dataMutex = "writer" <=> Midway
  /\ dataMutex = "main" <=> at.main = "checkingSecond"

CheckpointInv ==
  /\ readOneDone = (at.main \notin {"resetting", "readingFirst", "announcing"})
  /\ writerDone = (at.main \in Stressing \/ at.writer \in {"notifying", "ended"})
  /\ at.main \notin Stressing /\ at.writer \in PastCheckpoint => readOneDone
  /\ at.main \in {"readingSecond", "joining", "joined"} => writerDone
  /\ at.main = "joined" => at.writer = "ended"

SeenInv ==
  /\ at.main \in {"announcing", "notifying", "testing", "blocking", "sleeping", "waking",
                  "readingSecond", "joining", "joined"} => seen.engineers
  /\ at.main \in {"joining", "joined"} => seen.managers
  /\ at.main = "checkingSecond" => seen.engineers = access.engineers

TallyInv ==
  /\ violations = 0
  /\ iterations \in 0 .. MaxChecks
  /\ at.main = "checkingSecond" => iterations < MaxChecks

HandoverInv ==
  /\ HandoverTypes
  /\ HalvesInv
  /\ AccessInv
  /\ DataMutexInv
  /\ CheckpointInv
  /\ SeenInv
  /\ TallyInv

\* The program starts with all of it.
LEMMA HandoverStart == HandoverInit => HandoverInv
<1> SUFFICES ASSUME HandoverInit PROVE HandoverInv
  OBVIOUS
<1>1. at.main = "resetting" /\ at.writer = "unborn"
  BY DEF HandoverInit
<1>2. HandoverTypes
  <2>1. 0 \in 0 .. MaxWakeups
    BY HandoverAssumption
  <2>2. at \in [main : MainSteps, writer : WriterSteps]
    BY DEF HandoverInit, MainSteps, WriterSteps
  <2> QED
    BY <2>1, <2>2 DEF HandoverInit, HandoverTypes, BeforeReorg
<1>3. HalvesInv
  BY <1>1 DEF HalvesInv, Stressing, Flipping
<1>4. AccessInv
  BY <1>1 DEF HandoverInit, AccessInv, Reorganised, Midway, BeforeReorg
<1>5. DataMutexInv
  BY <1>1 DEF HandoverInit, DataMutexInv, Midway, Free
<1>6. CheckpointInv
  BY <1>1 DEF HandoverInit, CheckpointInv, Stressing, PastCheckpoint
<1>7. SeenInv
  BY <1>1 DEF SeenInv
<1>8. TallyInv
  BY <1>1, HandoverAssumption DEF HandoverInit, TallyInv
<1> QED
  BY <1>2, <1>3, <1>4, <1>5, <1>6, <1>7, <1>8 DEF HandoverInv

\* A move of one thread leaves the other where it is.
LEMMA MoveMain ==
  ASSUME HandoverTypes, NEW from, NEW to \in MainSteps, Move("main", from, to)
  PROVE  /\ at.main = from /\ at'.main = to /\ at'.writer = at.writer
         /\ at' \in [main : MainSteps, writer : WriterSteps]
  BY DEF HandoverTypes, Move

\* The same of the writer.
LEMMA MoveWriter ==
  ASSUME HandoverTypes, NEW from, NEW to \in WriterSteps, Move("writer", from, to)
  PROVE  /\ at.writer = from /\ at'.writer = to /\ at'.main = at.main
         /\ at' \in [main : MainSteps, writer : WriterSteps]
  BY DEF HandoverTypes, Move

\* main's steps keep the invariant.
LEMMA MainStepKeeps == HandoverInv /\ MainStep => HandoverInv'
<1> SUFFICES ASSUME HandoverInv PROVE MainStep => HandoverInv'
  OBVIOUS
<1> USE DEF HandoverInv, HalvesInv, AccessInv, DataMutexInv, CheckpointInv, SeenInv, TallyInv,
            MainSteps, WriterSteps, Stressing, Flipping, PastCheckpoint, Reorganised, Midway, Free,
            checkpointVars, stressVars
<1>0. HandoverTypes
  OBVIOUS
<1>1. ASSUME ReadFirst PROVE HandoverInv'
  <2>1. /\ at.main = "readingFirst" /\ at'.main = "announcing" /\ at'.writer = at.writer
        /\ at' \in [main : MainSteps, writer : WriterSteps]
    BY <1>0, <1>1, MoveMain DEF ReadFirst
  <2>2. HandoverTypes' /\ seen'.engineers = access.engineers
    BY <1>0, <1>1, <2>1 DEF HandoverTypes, ReadFirst
  <2> QED
    BY <1>1, <2>1, <2>2 DEF ReadFirst
<1>2. ASSUME AnnounceReader PROVE HandoverInv'
  <2>1. /\ at.main = "announcing" /\ at'.main = "notifying" /\ at'.writer = at.writer
        /\ at' \in [main : MainSteps, writer : WriterSteps]
    BY <1>0, <1>2, MoveMain DEF AnnounceReader
  <2>2. HandoverTypes'
    BY <1>0, <1>2, <2>1 DEF HandoverTypes, AnnounceReader
  <2> QED
    BY <1>2, <2>1, <2>2 DEF AnnounceReader
<1>3. ASSUME Block("main") PROVE HandoverInv'
  <2>1. /\ at.main = "blocking" /\ at'.main = "sleeping" /\ at'.writer = at.writer
        /\ at' \in [main : MainSteps, writer : WriterSteps]
    BY <1>0, <1>3, MoveMain DEF Block
  <2>2. HandoverTypes'
    BY <1>0, <1>3, <2>1 DEF HandoverTypes, Block
  <2> QED
    BY <1>3, <2>1, <2>2 DEF Block
<1>4. ASSUME Lock("main") PROVE HandoverInv'
  <2>1. /\ at.main = "waking" /\ at'.main = "testing" /\ at'.writer = at.writer
        /\ at' \in [main : MainSteps, writer : WriterSteps]
    BY <1>0, <1>4, MoveMain DEF Lock
  <2>2. HandoverTypes'
    BY <1>0, <1>4, <2>1 DEF HandoverTypes, Lock
  <2> QED
    BY <1>4, <2>1, <2>2 DEF Lock
<1>5. ASSUME JoinWriter("joining", "joined") PROVE HandoverInv'
  <2>1. /\ at.main = "joining" /\ at'.main = "joined" /\ at'.writer = at.writer
        /\ at' \in [main : MainSteps, writer : WriterSteps]
    BY <1>0, <1>5, MoveMain DEF JoinWriter
  <2>2. HandoverTypes'
    BY <1>0, <1>5, <2>1 DEF HandoverTypes, JoinWriter
  <2> QED
    BY <1>5, <2>1, <2>2 DEF JoinWriter
<1>6. ASSUME JoinWriter("joiningStress", "done") PROVE HandoverInv'
  <2>1. /\ at.main = "joiningStress" /\ at'.main = "done" /\ at'.writer = at.writer
        /\ at' \in [main : MainSteps, writer : WriterSteps]
    BY <1>0, <1>6, MoveMain DEF JoinWriter
  <2>2. HandoverTypes'
    BY <1>0, <1>6, <2>1 DEF HandoverTypes, JoinWriter
  <2> QED
    BY <1>6, <2>1, <2>2 DEF JoinWriter
<1>7. ASSUME Stop PROVE HandoverInv'
  <2>1. /\ at.main = "checking" /\ at'.main = "joiningStress" /\ at'.writer = at.writer
        /\ at' \in [main : MainSteps, writer : WriterSteps]
    BY <1>0, <1>7, MoveMain DEF Stop
  <2>2. HandoverTypes'
    BY <1>0, <1>7, <2>1 DEF HandoverTypes, Stop
  <2> QED
    BY <1>7, <2>1, <2>2 DEF Stop
<1>8. ASSUME ReadSecond PROVE HandoverInv'
  <2>1. /\ at.main = "readingSecond" /\ at'.main = "joining" /\ at'.writer = at.writer
        /\ at' \in [main : MainSteps, writer : WriterSteps]
    BY <1>0, <1>8, MoveMain DEF ReadSecond
  <2>2. HandoverTypes' /\ seen'.managers = access.managers /\ seen'.engineers = seen.engineers
    BY <1>0, <1>8, <2>1 DEF HandoverTypes, ReadSecond
  <2> QED
    BY <1>8, <2>1, <2>2 DEF ReadSecond
<1>9. ASSUME CheckFirst PROVE HandoverInv'
  <2>1. /\ at.main = "checking" /\ at'.main = "checkingSecond" /\ at'.writer = at.writer
        /\ at' \in [main : MainSteps, writer : WriterSteps]
    BY <1>0, <1>9, MoveMain DEF CheckFirst
  <2>2. HandoverTypes' /\ seen'.engineers = access.engineers
    BY <1>0, <1>9, <2>1 DEF HandoverTypes, CheckFirst
  <2> QED
    BY <1>9, <2>1, <2>2 DEF CheckFirst, DataUnlocked, MoreChecks
<1>10. ASSUME CheckSecond PROVE HandoverInv'
  <2>1. /\ at.main = "checkingSecond" /\ at'.main = "checking" /\ at'.writer = at.writer
        /\ at' \in [main : MainSteps, writer : WriterSteps]
    BY <1>0, <1>10, MoveMain DEF CheckSecond
  <2>2. /\ HandoverTypes' /\ seen'.managers = access.managers /\ seen'.engineers = seen.engineers
    BY <1>0, <1>10, <2>1 DEF HandoverTypes, CheckSecond
  <2>3. seen'.engineers # seen'.managers
    <3>1. dataMutex = "main" /\ ~Midway /\ seen.engineers = access.engineers
      BY <2>1
    <3>2. access.managers = ~access.engineers
      BY <3>1
    <3> QED
      BY <2>2, <3>1, <3>2
  <2>4. violations' = 0
    <3>1. violations' = violations + IF seen'.engineers = seen'.managers THEN 1 ELSE 0
      BY <1>10 DEF CheckSecond
    <3> QED
      BY <2>3, <3>1
  <2>5. iterations' \in 0 .. MaxChecks
    BY <1>10, <2>1, HandoverAssumption DEF CheckSecond
  <2> QED
    BY <1>10, <2>1, <2>2, <2>4, <2>5 DEF CheckSecond
<1>11. ASSUME NotifyAll("main", "testing") PROVE HandoverInv'
  <2>1. /\ at.main = "notifying" /\ at'.main = "testing"
        /\ at'.writer = at.writer \/ (at.writer = "sleeping" /\ at'.writer = "waking")
        /\ at' \in [main : MainSteps, writer : WriterSteps]
    BY <1>0, <1>11 DEF HandoverTypes, NotifyAll
  <2>2. HandoverTypes'
    BY <1>0, <1>11, <2>1 DEF HandoverTypes, NotifyAll
  <2> QED
    BY <1>11, <2>1, <2>2 DEF NotifyAll
<1>12. ASSUME Test("main", "readingSecond") PROVE HandoverInv'
  <2>1. /\ at.main = "testing" /\ at'.writer = at.writer
        /\ at'.main = IF writerDone THEN "readingSecond" ELSE "blocking"
        /\ at' \in [main : MainSteps, writer : WriterSteps]
    BY <1>0, <1>12 DEF HandoverTypes, Test, Awaited
  <2>2. HandoverTypes'
    BY <1>0, <1>12, <2>1 DEF HandoverTypes, Test
  <2> QED
    BY <1>12, <2>1, <2>2 DEF Test
<1>13. ASSUME StartHandover PROVE HandoverInv'
  <2>1. /\ at.main = "resetting" /\ at'.main = "readingFirst" /\ at'.writer = "waking"
        /\ at' \in [main : MainSteps, writer : WriterSteps]
        /\ access' = BeforeReorg /\ access'.engineers = TRUE /\ access'.managers = FALSE
    BY <1>13 DEF StartHandover, BeforeReorg
  <2>2. HandoverTypes'
    BY <1>0, <1>13, <2>1 DEF HandoverTypes, StartHandover, BeforeReorg
  <2> QED
    BY <1>13, <2>1, <2>2 DEF StartHandover
<1>14. ASSUME StartStress PROVE HandoverInv'
  <2>1. /\ at.main = "joined" /\ at'.main = "checking" /\ at'.writer = "looping"
        /\ at' \in [main : MainSteps, writer : WriterSteps]
        /\ access' = BeforeReorg /\ access'.engineers = TRUE /\ access'.managers = FALSE
    BY <1>14 DEF StartStress, BeforeReorg
  <2>2. HandoverTypes'
    BY <1>0, <1>14, <2>1 DEF HandoverTypes, StartStress, BeforeReorg
  <2> QED
    BY <1>14, <2>1, <2>2 DEF StartStress
<1> QED
  BY <1>1, <1>2, <1>3, <1>4, <1>5, <1>6, <1>7, <1>8, <1>9, <1>10, <1>11, <1>12, <1>13, <1>14 DEF MainStep

\* The writer's steps keep it too.
LEMMA WriterStepKeeps == HandoverInv /\ WriterStep => HandoverInv'
<1> SUFFICES ASSUME HandoverInv PROVE WriterStep => HandoverInv'
  OBVIOUS
<1> USE DEF HandoverInv, HalvesInv, AccessInv, DataMutexInv, CheckpointInv, SeenInv, TallyInv,
            MainSteps, WriterSteps, Stressing, Flipping, PastCheckpoint, Reorganised, Midway, Free,
            checkpointVars, stressVars
<1>0. HandoverTypes
  OBVIOUS
<1>1. ASSUME Test("writer", "reassigning") PROVE HandoverInv'
  <2>1. /\ at.writer = "testing" /\ at'.main = at.main
        /\ at'.writer = IF readOneDone THEN "reassigning" ELSE "blocking"
        /\ at' \in [main : MainSteps, writer : WriterSteps]
    BY <1>0, <1>1 DEF HandoverTypes, Test, Awaited
  <2>2. HandoverTypes'
    BY <1>0, <1>1, <2>1 DEF HandoverTypes, Test
  <2> QED
    BY <1>1, <2>1, <2>2 DEF Test
<1>2. ASSUME Block("writer") PROVE HandoverInv'
  <2>1. /\ at.writer = "blocking" /\ at'.writer = "sleeping" /\ at'.main = at.main
        /\ at' \in [main : MainSteps, writer : WriterSteps]
    BY <1>0, <1>2, MoveWriter DEF Block
  <2>2. HandoverTypes'
    BY <1>0, <1>2, <2>1 DEF HandoverTypes, Block
  <2> QED
    BY <1>2, <2>1, <2>2 DEF Block
<1>3. ASSUME Lock("writer") PROVE HandoverInv'
  <2>1. /\ at.writer = "waking" /\ at'.writer = "testing" /\ at'.main = at.main
        /\ at' \in [main : MainSteps, writer : WriterSteps]
    BY <1>0, <1>3, MoveWriter DEF Lock
  <2>2. HandoverTypes'
    BY <1>0, <1>3, <2>1 DEF HandoverTypes, Lock
  <2> QED
    BY <1>3, <2>1, <2>2 DEF Lock
<1>4. ASSUME EnterAndSet("reassigning", "reassigned", "managers", TRUE) PROVE HandoverInv'
  <2>1. /\ at.writer = "reassigning" /\ at'.writer = "reassigned" /\ at'.main = at.main
        /\ at' \in [main : MainSteps, writer : WriterSteps]
    BY <1>0, <1>4, MoveWriter DEF EnterAndSet
  <2>2. HandoverTypes' /\ access'.managers = TRUE /\ access'.engineers = access.engineers
    BY <1>0, <1>4, <2>1 DEF HandoverTypes, EnterAndSet
  <2> QED
    BY <1>4, <2>1, <2>2 DEF EnterAndSet, DataUnlocked
<1>5. ASSUME SetAndLeave("reassigned", "finishing", "engineers", FALSE) PROVE HandoverInv'
  <2>1. /\ at.writer = "reassigned" /\ at'.writer = "finishing" /\ at'.main = at.main
        /\ at' \in [main : MainSteps, writer : WriterSteps]
    BY <1>0, <1>5, MoveWriter DEF SetAndLeave
  <2>2. HandoverTypes' /\ access'.engineers = FALSE /\ access'.managers = access.managers
    BY <1>0, <1>5, <2>1 DEF HandoverTypes, SetAndLeave
  <2> QED
    BY <1>5, <2>1, <2>2 DEF SetAndLeave, DataUnlocked
<1>6. ASSUME AnnounceWriter PROVE HandoverInv'
  <2>1. /\ at.writer = "finishing" /\ at'.writer = "notifying" /\ at'.main = at.main
        /\ at' \in [main : MainSteps, writer : WriterSteps]
    BY <1>0, <1>6, MoveWriter DEF AnnounceWriter
  <2>2. HandoverTypes'
    BY <1>0, <1>6, <2>1 DEF HandoverTypes, AnnounceWriter
  <2> QED
    BY <1>6, <2>1, <2>2 DEF AnnounceWriter
<1>7. ASSUME NotifyAll("writer", "ended") PROVE HandoverInv'
  <2>1. /\ at.writer = "notifying" /\ at'.writer = "ended"
        /\ at'.main = at.main \/ (at.main = "sleeping" /\ at'.main = "waking")
        /\ at' \in [main : MainSteps, writer : WriterSteps]
    BY <1>0, <1>7 DEF HandoverTypes, NotifyAll
  <2>2. HandoverTypes'
    BY <1>0, <1>7, <2>1 DEF HandoverTypes, NotifyAll
  <2> QED
    BY <1>7, <2>1, <2>2 DEF NotifyAll
<1>8. ASSUME Loop PROVE HandoverInv'
  <2>1. /\ at.writer = "looping" /\ at'.main = at.main
        /\ at'.writer \in {"ended", "flipping"}
        /\ at' \in [main : MainSteps, writer : WriterSteps]
    BY <1>0, <1>8, MoveWriter DEF Loop
  <2>2. HandoverTypes'
    BY <1>0, <1>8, <2>1 DEF HandoverTypes, Loop
  <2> QED
    BY <1>8, <2>1, <2>2 DEF Loop
<1>9. ASSUME EnterAndSet("flipping", "flipped", "managers", TRUE) PROVE HandoverInv'
  <2>1. /\ at.writer = "flipping" /\ at'.writer = "flipped" /\ at'.main = at.main
        /\ at' \in [main : MainSteps, writer : WriterSteps]
    BY <1>0, <1>9, MoveWriter DEF EnterAndSet
  <2>2. HandoverTypes' /\ access'.managers = TRUE /\ access'.engineers = access.engineers
    BY <1>0, <1>9, <2>1 DEF HandoverTypes, EnterAndSet
  <2> QED
    BY <1>9, <2>1, <2>2 DEF EnterAndSet, DataUnlocked
<1>10. ASSUME SetAndLeave("flipped", "flippingBack", "engineers", FALSE) PROVE HandoverInv'
  <2>1. /\ at.writer = "flipped" /\ at'.writer = "flippingBack" /\ at'.main = at.main
        /\ at' \in [main : MainSteps, writer : WriterSteps]
    BY <1>0, <1>10, MoveWriter DEF SetAndLeave
  <2>2. HandoverTypes' /\ access'.engineers = FALSE /\ access'.managers = access.managers
    BY <1>0, <1>10, <2>1 DEF HandoverTypes, SetAndLeave
  <2> QED
    BY <1>10, <2>1, <2>2 DEF SetAndLeave, DataUnlocked
<1>11. ASSUME EnterAndSet("flippingBack", "flippedBack", "engineers", TRUE) PROVE HandoverInv'
  <2>1. /\ at.writer = "flippingBack" /\ at'.writer = "flippedBack" /\ at'.main = at.main
        /\ at' \in [main : MainSteps, writer : WriterSteps]
    BY <1>0, <1>11, MoveWriter DEF EnterAndSet
  <2>2. HandoverTypes' /\ access'.engineers = TRUE /\ access'.managers = access.managers
    BY <1>0, <1>11, <2>1 DEF HandoverTypes, EnterAndSet
  <2> QED
    BY <1>11, <2>1, <2>2 DEF EnterAndSet, DataUnlocked
<1>12. ASSUME SetAndLeave("flippedBack", "looping", "managers", FALSE) PROVE HandoverInv'
  <2>1. /\ at.writer = "flippedBack" /\ at'.writer = "looping" /\ at'.main = at.main
        /\ at' \in [main : MainSteps, writer : WriterSteps]
    BY <1>0, <1>12, MoveWriter DEF SetAndLeave
  <2>2. HandoverTypes' /\ access'.managers = FALSE /\ access'.engineers = access.engineers
    BY <1>0, <1>12, <2>1 DEF HandoverTypes, SetAndLeave
  <2> QED
    BY <1>12, <2>1, <2>2 DEF SetAndLeave, DataUnlocked
<1> QED
  BY <1>1, <1>2, <1>3, <1>4, <1>5, <1>6, <1>7, <1>8, <1>9, <1>10, <1>11, <1>12 DEF WriterStep

\* So does a thread that wakes for no reason.
LEMMA WakeupKeeps ==
  ASSUME HandoverInv, NEW p \in {"main", "writer"}, WakeSpuriously(p)
  PROVE  HandoverInv'
<1> USE DEF HandoverInv, HalvesInv, AccessInv, DataMutexInv, CheckpointInv, SeenInv, TallyInv,
            MainSteps, WriterSteps, Stressing, Flipping, PastCheckpoint, Reorganised, Midway
<1>0. HandoverTypes /\ wakeups' \in 0 .. MaxWakeups
  BY HandoverAssumption DEF HandoverTypes, WakeSpuriously
<1>1. CASE p = "main"
  <2>1. /\ at.main = "sleeping" /\ at'.main = "waking" /\ at'.writer = at.writer
        /\ at' \in [main : MainSteps, writer : WriterSteps]
    BY <1>1, MoveMain DEF WakeSpuriously
  <2>2. HandoverTypes'
    BY <1>0, <2>1 DEF WakeSpuriously, HandoverTypes, stressVars
  <2> QED
    BY <2>1, <2>2 DEF WakeSpuriously, stressVars
<1>2. CASE p = "writer"
  <2>1. /\ at.writer = "sleeping" /\ at'.writer = "waking" /\ at'.main = at.main
        /\ at' \in [main : MainSteps, writer : WriterSteps]
    BY <1>2, MoveWriter DEF WakeSpuriously
  <2>2. HandoverTypes'
    BY <1>0, <2>1 DEF WakeSpuriously, HandoverTypes, stressVars
  <2> QED
    BY <2>1, <2>2 DEF WakeSpuriously, stressVars
<1> QED
  BY <1>1, <1>2

(***************************************************************************)
(* Who is where decides what access is, who holds its mutex and what has   *)
(* been seen, in every state, however often the threads wake.              *)
(***************************************************************************)
THEOREM HandoverInvariant == HandoverSpec => []HandoverInv
<1>1. HandoverInv /\ UNCHANGED handoverVars => HandoverInv'
  BY DEF HandoverInv, HandoverTypes, HalvesInv, AccessInv, DataMutexInv, CheckpointInv, SeenInv, TallyInv,
         Reorganised, Midway, handoverVars, checkpointVars, stressVars
<1>2. HandoverInv /\ [HandoverNext]_handoverVars => HandoverInv'
  BY <1>1, MainStepKeeps, WriterStepKeeps, WakeupKeeps DEF HandoverNext
<1> QED
  BY <1>2, HandoverStart, PTL DEF HandoverSpec

(***************************************************************************)
(* Every variable of the handover program keeps its type.                  *)
(***************************************************************************)
THEOREM HandoverTypeCorrect == HandoverSpec => []HandoverTypeOK
<1>1. HandoverInv => HandoverTypeOK
  BY HandoverAssumption
     DEF HandoverInv, HandoverTypes, TallyInv, HandoverTypeOK, MainSteps, WriterSteps, Stressing,
         Flipping, PastCheckpoint
<1> QED
  BY <1>1, HandoverInvariant, PTL

(***************************************************************************)
(* The unpinned check is torn on every schedule.                           *)
(***************************************************************************)
THEOREM BugAlwaysReproducedHolds == HandoverSpec => []BugAlwaysReproduced
<1>1. HandoverInv => BugAlwaysReproduced
  BY DEF HandoverInv, SeenInv, BugAlwaysReproduced
<1> QED
  BY <1>1, HandoverInvariant, PTL

(***************************************************************************)
(* The pinned check is never torn, however many checks and flips there are. *)
(***************************************************************************)
THEOREM FixNeverViolatedHolds == HandoverSpec => []FixNeverViolated
<1>1. HandoverInv => FixNeverViolated
  BY DEF HandoverInv, TallyInv, FixNeverViolated
<1> QED
  BY <1>1, HandoverInvariant, PTL

-----------------------------------------------------------------------------
(* The escaping pointer.  An object's count is its owners. *)

Holders(a) == {r \in Readers : Holds(r, a)}

Owners(a) ==
  (IF entry = a THEN 1 ELSE 0) + (IF store = "SafeStore" THEN Cardinality(Holders(a)) ELSE 0)

\* What main's step says of the run.
RunInv ==
  /\ writer \in {"starting", "done"} => entry = NoAddress /\ \A r \in Readers : reader[r] \in {Unborn, Ended}
  /\ writer \in {"looping", "overwriting", "joining"} => entry \in Addresses /\ store \in Stores
  /\ writer = "starting" => store \in Stores
  /\ writer = "overwriting" => store = "BrokenStore" /\ puts < MaxPuts
  /\ store = "none" => writer = "done"

\* What a reader of BrokenStore holds is never replaced.
BorrowedInv ==
  store = "BrokenStore" => \A r \in Readers, a \in Addresses : Holds(r, a) => a = entry

CountedInv == \A a \in Addresses : refs[a] = Owners(a)

EscapeInv == EscapeTypeOK /\ RunInv /\ BorrowedInv /\ CountedInv

\* A reader's locals have their types while it reads.
LEMMA ReaderTypes ==
  ASSUME EscapeTypeOK, NEW r \in Readers
  PROVE  /\ reader[r].step = "reading" => reader[r] \in Reading
         /\ reader[r] \in {Unborn, Polling, Finding, Ended} =>
              reader[r].step # "reading" /\ \A a : ~Holds(r, a)
  BY DEF EscapeTypeOK, Unborn, Polling, Finding, Ended, Reading, Holds

\* An object has finitely many holders.
LEMMA HoldersCount ==
  ASSUME NEW a
  PROVE  /\ IsFiniteSet(Holders(a)) /\ Cardinality(Holders(a)) \in Nat
         /\ Cardinality(Holders(a)) <= Cardinality(Readers)
         /\ Cardinality(Holders(a)) = 0 <=> Holders(a) = {}
         /\ Cardinality(Readers) \in Nat
<1>1. IsFiniteSet(Readers) /\ Holders(a) \in SUBSET Readers
  BY EscapeAssumption DEF Holders
<1>2. IsFiniteSet(Holders(a)) /\ Cardinality(Holders(a)) <= Cardinality(Readers)
  BY <1>1, FS_Subset
<1>3. Cardinality(Holders(a)) \in Nat /\ Cardinality(Readers) \in Nat
  BY <1>1, <1>2, FS_CardinalityType
<1>4. Cardinality(Holders(a)) = 0 <=> Holders(a) = {}
  BY <1>2, FS_EmptySet
<1> QED
  BY <1>2, <1>3, <1>4

(***************************************************************************)
(* There is always memory for one object more: one is installed, and each  *)
(* reader holds at most one.                                               *)
(***************************************************************************)
LEMMA FreeAddress ==
  ASSUME EscapeInv, store = "SafeStore" \/ writer = "starting"
  PROVE  \E a \in Addresses : refs[a] = 0
<1> DEFINE busy == {r \in Readers : reader[r].step = "reading"}
           held == [r \in busy |-> reader[r].held]
           live == {held[r] : r \in busy} \cup {entry}
<1>1. IsFiniteSet(busy) /\ Cardinality(busy) <= Cardinality(Readers) /\ Cardinality(busy) \in Nat
  <2>1. IsFiniteSet(Readers) /\ busy \in SUBSET Readers
    BY EscapeAssumption
  <2>2. IsFiniteSet(busy) /\ Cardinality(busy) <= Cardinality(Readers)
    BY <2>1, FS_Subset
  <2> QED
    BY <2>2, FS_CardinalityType
<1>2. /\ IsFiniteSet({held[r] : r \in busy}) /\ Cardinality({held[r] : r \in busy}) <= Cardinality(busy)
  <2>1. held \in Surjection(busy, {held[r] : r \in busy})
    BY DEF Surjection
  <2> QED
    BY <1>1, <2>1, FS_Surjection
<1>3. IsFiniteSet(live) /\ Cardinality(live) <= Cardinality(Readers) + 1
  <2>1. Cardinality({held[r] : r \in busy}) \in Nat
    BY <1>2, FS_CardinalityType
  <2>2. /\ IsFiniteSet(live)
        /\ Cardinality(live) \in {Cardinality({held[r] : r \in busy}), Cardinality({held[r] : r \in busy}) + 1}
    BY <1>2, FS_AddElement
  <2>3. Cardinality(Readers) \in Nat
    BY HoldersCount
  <2> QED
    BY <1>1, <1>2, <2>1, <2>2, <2>3
<1>4. ~(Addresses \subseteq live)
  <2>1. Cardinality(Addresses) >= Cardinality(Readers) + 2 /\ Cardinality(Readers) \in Nat
        /\ Cardinality(Addresses) \in Nat
    BY EscapeAssumption, HoldersCount, FS_CardinalityType
  <2>2. Addresses \subseteq live => Cardinality(Addresses) <= Cardinality(live)
    BY <1>3, FS_Subset
  <2>3. Cardinality(live) \in Nat
    BY <1>3, FS_CardinalityType
  <2> QED
    BY <1>3, <2>1, <2>2, <2>3
<1>5. PICK a \in Addresses : a \notin live
  BY <1>4
<1>6. Holders(a) = {} /\ entry # a
  BY <1>5 DEF Holders, Holds
<1>7. refs[a] = 0
  BY <1>6, HoldersCount DEF EscapeInv, CountedInv, Owners
<1> QED
  BY <1>7

\* The same of any set of readers: also of those that will hold an object after a step.
LEMMA SomeReaders ==
  ASSUME NEW S \in SUBSET Readers
  PROVE  /\ IsFiniteSet(S) /\ Cardinality(S) \in 0 .. Cardinality(Readers)
         /\ Cardinality(Readers) \in Nat
         /\ Cardinality(S) = 0 <=> S = {}
         /\ \A r \in Readers \ S : Cardinality(S \cup {r}) = Cardinality(S) + 1
         /\ \A r \in S : Cardinality(S \ {r}) = Cardinality(S) - 1
<1>1. IsFiniteSet(S) /\ Cardinality(S) <= Cardinality(Readers) /\ IsFiniteSet(Readers)
  BY EscapeAssumption, FS_Subset
<1>2. Cardinality(S) \in Nat /\ Cardinality(Readers) \in Nat
  BY <1>1, FS_CardinalityType
<1>3. Cardinality(S) = 0 <=> S = {}
  BY <1>1, FS_EmptySet
<1>4. ASSUME NEW r \in Readers \ S PROVE Cardinality(S \cup {r}) = Cardinality(S) + 1
  BY <1>1, FS_AddElement
<1>5. ASSUME NEW r \in S PROVE Cardinality(S \ {r}) = Cardinality(S) - 1
  BY <1>1, FS_RemoveElement
<1> QED
  BY <1>1, <1>2, <1>3, <1>4, <1>5

\* Counts that are right are within their bounds.
LEMMA CountsAreBounded ==
  ASSUME NEW a \in Addresses, (refs[a] = Owners(a))'
  PROVE  refs'[a] \in 0 .. Cardinality(Readers) + 1
<1> DEFINE S == Holders(a)'
<1>1. S \in SUBSET Readers
  BY DEF Holders
<1>2. Cardinality(S) \in 0 .. Cardinality(Readers) /\ Cardinality(Readers) \in Nat
  BY <1>1, SomeReaders
<1>3. refs'[a] = (IF entry' = a THEN 1 ELSE 0) + (IF store' = "SafeStore" THEN Cardinality(S) ELSE 0)
  BY DEF Owners
<1> HIDE DEF S
<1> QED
  BY <1>2, <1>3

\* A step that moves no object and lets nobody hold or let go keeps the counts.
LEMMA CountsStay ==
  ASSUME EscapeInv, UNCHANGED <<store, entry, refs>>,
         \A r \in Readers, a \in Addresses : Holds(r, a)' = Holds(r, a)
  PROVE  BorrowedInv' /\ CountedInv'
<1>1. \A a \in Addresses : Holders(a)' = Holders(a)
  BY DEF Holders
<1>2. CountedInv'
  BY <1>1 DEF EscapeInv, CountedInv, Owners
<1> QED
  BY <1>2 DEF EscapeInv, BorrowedInv

\* What Install puts in place was free, and is the only object it gives out.
LEMMA InstallNew ==
  ASSUME EscapeInv, store = "SafeStore" \/ writer = "starting", NEW fill \in 1 .. 2, Install(fill)
  PROVE  /\ entry' \in Addresses /\ entry' # entry /\ Holders(entry') = {}
         /\ refs[entry'] = 0
         /\ refs' = [a \in Addresses |-> CASE a = entry' -> 1
                                           [] a = entry -> refs[a] - 1
                                           [] OTHER -> refs[a]]
         /\ data' = [data EXCEPT ![entry'] = Filled(fill)]
         /\ data' \in [Addresses -> [Cells -> 1 .. 2]]
<1>1. entry' \in Addresses /\ refs[entry'] = 0
  BY FreeAddress DEF Install
<1>2. /\ refs' = [a \in Addresses |-> CASE a = entry' -> 1
                                        [] a = entry -> refs[a] - 1
                                        [] OTHER -> refs[a]]
      /\ data' = [data EXCEPT ![entry'] = Filled(fill)]
  BY DEF Install
<1>3. data' \in [Addresses -> [Cells -> 1 .. 2]]
  BY <1>1, <1>2 DEF EscapeInv, EscapeTypeOK, Filled
<1>4. entry' # entry /\ (store = "SafeStore" => Holders(entry') = {})
  <2> DEFINE new == entry'
  <2>1. new \in Addresses /\ refs[new] = 0
    BY <1>1
  <2> HIDE DEF new
  <2>2. refs[new] = (IF entry = new THEN 1 ELSE 0)
                    + (IF store = "SafeStore" THEN Cardinality(Holders(new)) ELSE 0)
    BY <2>1 DEF EscapeInv, CountedInv, Owners
  <2>3. Cardinality(Holders(new)) \in Nat /\ (Cardinality(Holders(new)) = 0 <=> Holders(new) = {})
    BY HoldersCount
  <2>4. entry # new /\ (store = "SafeStore" => Holders(new) = {})
    BY <2>1, <2>2, <2>3
  <2> QED
    BY <2>4 DEF new
<1>5. writer = "starting" => Holders(entry') = {}
  BY DEF EscapeInv, RunInv, Unborn, Ended, Holders, Holds
<1> QED
  BY <1>1, <1>2, <1>3, <1>4, <1>5

\* Install keeps the counts when nobody takes or lets go in its step.
LEMMA InstallCounts ==
  ASSUME EscapeInv, store = "SafeStore" \/ writer = "starting", NEW fill \in 1 .. 2, Install(fill),
         store' = store, \A a \in Addresses : Holders(a)' = Holders(a)
  PROVE  CountedInv'
<1>1. /\ entry' \in Addresses /\ entry' # entry /\ Cardinality(Holders(entry')) = 0
      /\ refs' = [a \in Addresses |-> CASE a = entry' -> 1
                                        [] a = entry -> refs[a] - 1
                                        [] OTHER -> refs[a]]
  BY InstallNew, FS_EmptySet
<1>2. SUFFICES ASSUME NEW a \in Addresses PROVE (refs[a] = Owners(a))'
  BY DEF CountedInv
<1>3. Cardinality(Holders(a)) \in Nat /\ refs[a] = Owners(a)
  BY HoldersCount DEF EscapeInv, CountedInv
<1>4. Owners(a)' = (IF entry' = a THEN 1 ELSE 0)
                   + (IF store = "SafeStore" THEN Cardinality(Holders(a)) ELSE 0)
  BY DEF Owners
<1>5. Owners(a) = (IF entry = a THEN 1 ELSE 0)
                  + (IF store = "SafeStore" THEN Cardinality(Holders(a)) ELSE 0)
  BY DEF Owners
<1>6. CASE a = entry'
  BY <1>1, <1>4, <1>6
<1>7. CASE a = entry
  BY <1>1, <1>3, <1>4, <1>5, <1>7
<1>8. CASE a # entry /\ a # entry'
  BY <1>1, <1>3, <1>4, <1>5, <1>8
<1> QED
  BY <1>6, <1>7, <1>8

\* What the constants bound has its first value within the bound.
LEMMA EscapeBounds ==
  /\ 0 \in 0 .. MaxPuts /\ MaxPuts \in Nat
  /\ 1 \in 1 .. Passes /\ Passes \in Nat
  /\ 1 \in 1 .. Width + 1 /\ Width \in Nat
  /\ Cardinality(Readers) \in Nat /\ 0 \in 0 .. Cardinality(Readers) + 1
<1>1. Width \in Nat /\ Width # 0 /\ Passes \in Nat /\ Passes # 0 /\ MaxPuts \in Nat
  BY EscapeAssumption
<1>2. Cardinality(Readers) \in Nat
  BY HoldersCount
<1> QED
  BY <1>1, <1>2

\* The program starts with nothing counted.
LEMMA EscapeStart == EscapeInit => EscapeInv
<1> SUFFICES ASSUME EscapeInit PROVE EscapeInv
  OBVIOUS
<1>1. \A a : Holders(a) = {}
  BY DEF EscapeInit, Unborn, Holders, Holds
<1>2. Cardinality(Readers) \in Nat /\ Cardinality({}) = 0
  BY HoldersCount, FS_EmptySet
<1>3. EscapeTypeOK
  <2>1. [a \in Addresses |-> Filled(1)] \in [Addresses -> [Cells -> 1 .. 2]]
    BY DEF Filled
  <2> QED
    BY <2>1, EscapeBounds DEF EscapeInit, EscapeTypeOK, Stores
<1>4. RunInv /\ BorrowedInv
  BY <1>1 DEF EscapeInit, RunInv, BorrowedInv, Stores, Unborn, Holds
<1>5. CountedInv
  BY <1>1, <1>2, EscapeAssumption DEF EscapeInit, CountedInv, Owners
<1> QED
  BY <1>3, <1>4, <1>5 DEF EscapeInv

\* main's steps keep every count.
LEMMA PutterStepKeeps == EscapeInv /\ PutterStep => EscapeInv'
<1> SUFFICES ASSUME EscapeInv, PutterStep PROVE EscapeInv'
  OBVIOUS
<1>0. NextFill \in 1 .. 2 /\ EscapeTypeOK /\ RunInv /\ BorrowedInv
  BY DEF EscapeInv, EscapeTypeOK, NextFill
<1>1. SUFFICES EscapeTypeOK' /\ RunInv' /\ BorrowedInv' /\ CountedInv'
  BY DEF EscapeInv
<1>c. ASSUME CountedInv' PROVE \A a \in Addresses : refs'[a] \in 0 .. Cardinality(Readers) + 1
  BY <1>c, CountsAreBounded DEF CountedInv
<1>2. CASE StartRun
  <2>1. \A r \in Readers : \A a : ~Holds(r, a) /\ ~Holds(r, a)'
    BY <1>0, <1>2, EscapeAssumption DEF StartRun, RunInv, Holds, Unborn, Ended, Polling
  <2>2. \A a \in Addresses : Holders(a)' = Holders(a)
    BY <2>1 DEF Holders
  <2>3. CountedInv'
    BY <1>2, <2>2, InstallCounts DEF StartRun
  <2>4. /\ entry' \in Addresses /\ data' \in [Addresses -> [Cells -> 1 .. 2]]
        /\ refs' = [a \in Addresses |-> refs'[a]]
    BY <1>2, InstallNew DEF StartRun
  <2>5. EscapeTypeOK'
    <3>1. reader' \in [Readers -> Reading \cup {Unborn, Polling, Finding, Ended}]
      BY <1>2 DEF StartRun
    <3>2. refs' \in [Addresses -> 0 .. Cardinality(Readers) + 1]
      BY <1>c, <2>3, <2>4
    <3> QED
      BY <1>0, <1>2, <2>4, <3>1, <3>2, EscapeBounds DEF StartRun, EscapeTypeOK
  <2>6. RunInv' /\ BorrowedInv'
    BY <1>0, <1>2, <2>1, <2>4 DEF StartRun, RunInv, BorrowedInv, Stores
  <2> QED
    BY <2>3, <2>5, <2>6
<1>3. CASE LockBroken \/ CopyCell \/ UnlockBroken \/ StopReaders
  <2>1. UNCHANGED <<store, entry, refs, reader, torn>>
    BY <1>3 DEF LockBroken, CopyCell, UnlockBroken, StopReaders, heapVars
  <2>2. BorrowedInv' /\ CountedInv'
    BY <2>1, CountsStay DEF Holds
  <2>3. data' \in [Addresses -> [Cells -> 1 .. 2]]
    <3>1. CASE CopyCell
      <4>1. entry \in Addresses /\ cell \in Cells
        BY <1>0, <3>1, EscapeBounds DEF CopyCell, RunInv, EscapeTypeOK, Cells
      <4> QED
        BY <1>0, <3>1, <4>1 DEF CopyCell, EscapeTypeOK
    <3> QED
      BY <1>0, <1>3, <3>1 DEF EscapeTypeOK, LockBroken, UnlockBroken, StopReaders, heapVars
  <2>4. cell' \in 1 .. Width + 1 /\ puts' \in 0 .. MaxPuts
    BY <1>0, <1>3, EscapeBounds
       DEF EscapeTypeOK, RunInv, LockBroken, CopyCell, UnlockBroken, StopReaders, MorePuts
  <2>5. EscapeTypeOK'
    BY <1>0, <1>3, <2>1, <2>3, <2>4
       DEF EscapeTypeOK, LockBroken, CopyCell, UnlockBroken, StopReaders
  <2>6. RunInv'
    BY <1>0, <1>3, <2>1 DEF RunInv, LockBroken, CopyCell, UnlockBroken, StopReaders, MorePuts
  <2> QED
    BY <2>2, <2>5, <2>6
<1>4. CASE PutSafe
  <2>1. \A a \in Addresses : Holders(a)' = Holders(a)
    BY <1>4 DEF PutSafe, Holders, Holds
  <2>2. CountedInv'
    BY <1>0, <1>4, <2>1, InstallCounts DEF PutSafe
  <2>3. /\ entry' \in Addresses /\ data' \in [Addresses -> [Cells -> 1 .. 2]]
        /\ refs' = [a \in Addresses |-> refs'[a]]
    BY <1>0, <1>4, InstallNew DEF PutSafe
  <2>4. EscapeTypeOK'
    BY <1>0, <1>4, <1>c, <2>2, <2>3, EscapeBounds DEF PutSafe, EscapeTypeOK, MorePuts
  <2>5. RunInv' /\ BorrowedInv'
    BY <1>0, <1>4, <2>3 DEF PutSafe, RunInv, BorrowedInv
  <2> QED
    BY <2>2, <2>4, <2>5
<1>5. CASE EndRun
  <2>1. \A r \in Readers : \A a : ~Holds(r, a) /\ ~Holds(r, a)'
    BY <1>5 DEF EndRun, Holds, Ended
  <2>2. \A a : Cardinality(Holders(a)) = 0 /\ Cardinality(Holders(a)') = 0
    BY <2>1, FS_EmptySet DEF Holders
  <2>3. /\ entry \in Addresses /\ entry' = NoAddress /\ NoAddress \notin Addresses
        /\ refs' = [refs EXCEPT ![entry] = @ - 1]
    BY <1>0, <1>5, EscapeAssumption DEF EndRun, RunInv, Release
  <2>4. ASSUME NEW a \in Addresses PROVE (refs[a] = Owners(a))'
    <3>1. refs[a] = IF entry = a THEN 1 ELSE 0
      BY <2>2 DEF EscapeInv, CountedInv, Owners
    <3>2. refs'[a] = 0
      BY <1>0, <2>3, <3>1 DEF EscapeTypeOK
    <3>3. Owners(a)' = 0
      BY <2>2, <2>3 DEF Owners
    <3> QED
      BY <3>2, <3>3
  <2>5. CountedInv'
    BY <2>4 DEF CountedInv
  <2>6. refs' = [a \in Addresses |-> refs'[a]]
    BY <1>0, <2>3 DEF EscapeTypeOK
  <2>7. EscapeTypeOK'
    BY <1>0, <1>5, <1>c, <2>5, <2>6 DEF EndRun, EscapeTypeOK, Stores
  <2>8. RunInv' /\ BorrowedInv'
    BY <1>0, <1>5, <2>1 DEF EndRun, RunInv, BorrowedInv, Stores
  <2> QED
    BY <2>5, <2>7, <2>8
<1> QED
  BY <1>2, <1>3, <1>4, <1>5 DEF PutterStep

\* A reader that reads on holds what it held.
LEMMA ReadOn ==
  ASSUME EscapeInv, NEW r \in Readers, ReadCell(r) \/ ReadAgain(r)
  PROVE  /\ reader[r] \in Reading /\ reader[r].step = "reading"
         /\ reader'[r] \in Reading /\ reader'[r].step = "reading" /\ reader'[r].held = reader[r].held
         /\ reader' = [reader EXCEPT ![r] = reader'[r]]
         /\ UNCHANGED <<store, entry, refs, data, writer, cell, puts, stop, torn>>
<1>1. reader[r] \in Reading /\ reader[r].step = "reading"
  BY ReaderTypes DEF EscapeInv, ReadCell, ReadAgain
<1>2. UNCHANGED <<store, entry, refs, data, writer, cell, puts, stop, torn>>
  BY DEF ReadCell, ReadAgain, heapVars
<1>3. reader \in [Readers -> Reading \cup {Unborn, Polling, Finding, Ended}]
  BY DEF EscapeInv, EscapeTypeOK
<1>4. CASE ReadCell(r)
  <2> DEFINE me == reader[r]
             value == data[me.held][me.next]
             first == IF me.next = 1 THEN value ELSE me.first
  <2>1. /\ me.next \in Cells /\ me.next + 1 \in 1 .. Width + 1 /\ value \in 1 .. 2 /\ first \in 1 .. 2
    <3>1. me.held \in Addresses /\ me.next \in 1 .. Width + 1 /\ me.first \in 1 .. 2 /\ me.next <= Width
      BY <1>1, <1>4 DEF Reading, ReadCell
    <3>2. me.next \in Cells /\ me.next + 1 \in 1 .. Width + 1
      BY <3>1, EscapeBounds DEF Cells
    <3>3. value \in 1 .. 2
      BY <3>1, <3>2 DEF EscapeInv, EscapeTypeOK
    <3> QED
      BY <3>1, <3>2, <3>3
  <2>2. reader' = [reader EXCEPT ![r] =
                     [me EXCEPT !.next = me.next + 1, !.first = first, !.consistent = (value = first)]]
    BY <1>4 DEF ReadCell, Continue
  <2>3. (value = first) \in BOOLEAN
    OBVIOUS
  <2> HIDE DEF value, first
  <2>4. reader'[r] = [me EXCEPT !.next = me.next + 1, !.first = first, !.consistent = (value = first)]
    BY <1>3, <2>2
  <2>5. reader'[r] \in Reading /\ reader'[r].step = "reading" /\ reader'[r].held = me.held
    BY <1>1, <2>1, <2>3, <2>4 DEF Reading
  <2> QED
    BY <1>1, <1>2, <2>2, <2>4, <2>5
<1>5. CASE ReadAgain(r)
  <2> DEFINE me == reader[r]
  <2>1. me.pass \in 1 .. Passes /\ me.pass < Passes
    BY <1>1, <1>5 DEF Reading, ReadAgain
  <2>2. me.pass + 1 \in 1 .. Passes
    BY <2>1, EscapeBounds
  <2>3. reader' = [reader EXCEPT ![r] = [me EXCEPT !.pass = me.pass + 1, !.next = 1]]
    BY <1>5 DEF ReadAgain, Continue
  <2>4. reader'[r] = [me EXCEPT !.pass = me.pass + 1, !.next = 1]
    BY <1>3, <2>3
  <2>5. reader'[r] \in Reading /\ reader'[r].step = "reading" /\ reader'[r].held = me.held
    BY <1>1, <2>2, <2>4, EscapeBounds DEF Reading
  <2> QED
    BY <1>1, <1>2, <2>3, <2>4, <2>5
<1> QED
  BY <1>4, <1>5

\* A reader's steps keep every count: it counts itself in, and out, with what it holds.
LEMMA ReaderStepKeeps ==
  ASSUME EscapeInv, NEW r \in Readers, ReaderStep(r)
  PROVE  EscapeInv'
<1>0. EscapeTypeOK /\ RunInv /\ BorrowedInv /\ CountedInv
  BY DEF EscapeInv
<1>1. SUFFICES EscapeTypeOK' /\ RunInv' /\ BorrowedInv' /\ CountedInv'
  BY DEF EscapeInv
<1>c. ASSUME CountedInv', UNCHANGED <<store, entry, data, writer, cell, puts, stop>>,
             reader' \in [Readers -> Reading \cup {Unborn, Polling, Finding, Ended}],
             torn' \subseteq Stores, refs' = [a \in Addresses |-> refs'[a]]
      PROVE  EscapeTypeOK'
  <2>1. \A a \in Addresses : refs'[a] \in 0 .. Cardinality(Readers) + 1
    BY <1>c, CountsAreBounded DEF CountedInv
  <2>2. refs' \in [Addresses -> 0 .. Cardinality(Readers) + 1]
    BY <1>c, <2>1
  <2> QED
    BY <1>0, <1>c, <2>2 DEF EscapeTypeOK
<1>r. reader \in [Readers -> Reading \cup {Unborn, Polling, Finding, Ended}]
  BY <1>0 DEF EscapeTypeOK
<1>f. refs = [a \in Addresses |-> refs[a]]
  BY <1>0 DEF EscapeTypeOK
<1>2. CASE Poll(r)
  <2>1. /\ reader[r] = Polling /\ reader'[r] \in {Ended, Finding}
        /\ reader' = [reader EXCEPT ![r] = reader'[r]]
        /\ UNCHANGED <<store, entry, refs, data, writer, cell, puts, stop, torn>>
    BY <1>2, <1>r DEF Poll, Continue, heapVars
  <2>2. \A s \in Readers, a \in Addresses : Holds(s, a)' = Holds(s, a)
    BY <1>r, <2>1 DEF Holds, Polling, Ended, Finding
  <2>3. BorrowedInv' /\ CountedInv'
    BY <2>1, <2>2, CountsStay
  <2>4. EscapeTypeOK'
    BY <1>0, <1>c, <1>r, <1>f, <2>1, <2>3 DEF EscapeTypeOK
  <2>5. RunInv'
    BY <1>0, <1>r, <2>1 DEF RunInv, Polling, Unborn, Ended
  <2> QED
    BY <2>3, <2>4, <2>5
<1>3. CASE ReadCell(r) \/ ReadAgain(r)
  <2>1. /\ reader[r] \in Reading /\ reader[r].step = "reading"
        /\ reader'[r] \in Reading /\ reader'[r].step = "reading" /\ reader'[r].held = reader[r].held
        /\ reader' = [reader EXCEPT ![r] = reader'[r]]
        /\ UNCHANGED <<store, entry, refs, data, writer, cell, puts, stop, torn>>
    BY <1>3, ReadOn
  <2>2. \A s \in Readers, a \in Addresses : Holds(s, a)' = Holds(s, a)
    BY <1>r, <2>1 DEF Holds
  <2>3. BorrowedInv' /\ CountedInv'
    BY <2>1, <2>2, CountsStay
  <2>4. EscapeTypeOK'
    BY <1>0, <1>c, <1>r, <1>f, <2>1, <2>3 DEF EscapeTypeOK
  <2>5. RunInv'
    BY <1>0, <1>r, <2>1 DEF RunInv, Unborn, Ended
  <2> QED
    BY <2>3, <2>4, <2>5
<1>4. CASE FindBroken(r) \/ FindSafe(r)
  <2>1. /\ reader[r] = Finding /\ store \in Stores /\ entry \in Addresses
        /\ writer \notin {"starting", "done"}
    BY <1>0, <1>4 DEF FindBroken, FindSafe, RunInv, EscapeTypeOK, Finding, Unborn, Ended, Stores
  <2>2. /\ reader'[r] \in Reading /\ reader'[r].step = "reading" /\ reader'[r].held = entry
        /\ reader' = [reader EXCEPT ![r] = reader'[r]]
        /\ UNCHANGED <<store, entry, data, writer, cell, puts, stop, torn>>
    <3> DEFINE found == [step |-> "reading", held |-> entry, pass |-> 1, next |-> 1, first |-> 1,
                         consistent |-> TRUE]
    <3>1. reader' = [reader EXCEPT ![r] = found]
      BY <1>4 DEF FindBroken, FindSafe, StartReading, Continue
    <3>2. found \in Reading
      BY <2>1, EscapeBounds DEF Reading
    <3>3. reader'[r] = found
      BY <1>r, <3>1
    <3> QED
      <4>1. found.step = "reading" /\ found.held = entry
        OBVIOUS
      <4>2. UNCHANGED <<store, entry, data, writer, cell, puts, stop, torn>>
        BY <1>4 DEF FindBroken, FindSafe, heapVars
      <4> HIDE DEF found
      <4> QED
        BY <3>1, <3>2, <3>3, <4>1, <4>2
  <2>3. \A s \in Readers, a \in Addresses : Holds(s, a)' = (IF s = r THEN a = entry ELSE Holds(s, a))
    BY <1>r, <2>2 DEF Holds
  <2>4. ~\E a \in Addresses : Holds(r, a)
    BY <2>1 DEF Holds, Finding
  <2>5. BorrowedInv'
    BY <1>0, <2>2, <2>3 DEF BorrowedInv
  <2>6. CountedInv' /\ refs' = [a \in Addresses |-> refs'[a]]
    <3>1. CASE FindBroken(r)
      BY <1>0, <1>f, <3>1 DEF FindBroken, CountedInv, Owners, heapVars
    <3>2. CASE FindSafe(r)
      <4>1. /\ store = "SafeStore" /\ store' = "SafeStore"
            /\ refs' = [refs EXCEPT ![entry] = refs[entry] + 1]
        BY <3>2 DEF FindSafe, Retain
      <4>3. \A a \in Addresses \ {entry} : Holders(a)' = Holders(a)
        BY <2>3, <2>4 DEF Holders
      <4>4. ASSUME NEW a \in Addresses, a = entry
            PROVE  /\ Cardinality(Holders(a)) \in Nat
                   /\ Cardinality(Holders(a)') = Cardinality(Holders(a)) + 1
        <5>1. Holders(a) \in SUBSET Readers
          BY DEF Holders
        <5>2. Holders(a)' = Holders(a) \cup {r} /\ r \notin Holders(a)
          BY <2>3, <2>4, <4>4 DEF Holders
        <5> QED
          BY <5>1, <5>2, HoldersCount, SomeReaders
      <4>5. ASSUME NEW a \in Addresses PROVE (refs[a] = Owners(a))'
        <5>1. refs[a] = (IF entry = a THEN 1 ELSE 0) + Cardinality(Holders(a))
          BY <1>0, <4>1 DEF CountedInv, Owners
        <5>2. Owners(a)' = (IF entry = a THEN 1 ELSE 0) + Cardinality(Holders(a)')
          BY <2>2, <4>1 DEF Owners
        <5>3. CASE a = entry
          <6>1. refs'[a] = refs[a] + 1
            BY <1>f, <4>1, <5>3
          <6> QED
            BY <4>4, <5>1, <5>2, <5>3, <6>1
        <5>4. CASE a # entry
          <6>1. refs'[a] = refs[a]
            BY <1>f, <4>1, <5>4
          <6> QED
            BY <4>3, <5>1, <5>2, <5>4, <6>1
        <5> QED
          BY <5>3, <5>4
      <4> QED
        BY <1>f, <4>1, <4>5 DEF CountedInv
    <3> QED
      BY <1>4, <3>1, <3>2
  <2>7. EscapeTypeOK'
    BY <1>0, <1>c, <1>r, <2>2, <2>6 DEF EscapeTypeOK
  <2>8. RunInv'
    BY <1>0, <2>1, <2>2 DEF RunInv
  <2> QED
    BY <2>5, <2>6, <2>7, <2>8
<1>5. CASE Tally(r)
  <2>1. /\ reader[r] \in Reading /\ reader[r].step = "reading" /\ reader[r].held \in Addresses
        /\ store \in Stores /\ writer \notin {"starting", "done"}
    <3>1. reader[r].step = "reading" /\ reader[r] \in Reading
      BY <1>0, <1>5, ReaderTypes DEF Tally
    <3>2. reader[r].held \in Addresses /\ reader[r] \notin {Unborn, Ended}
      BY <3>1 DEF Reading, Unborn, Ended
    <3>3. writer \notin {"starting", "done"}
      BY <1>0, <3>2 DEF RunInv
    <3>4. store \in Stores
      BY <1>0, <3>3 DEF RunInv, EscapeTypeOK
    <3> QED
      BY <3>1, <3>2, <3>3, <3>4
  <2>m. PICK mine \in Addresses : mine = reader[r].held
    BY <2>1
  <2>2. /\ reader' = [reader EXCEPT ![r] = Polling] /\ reader'[r] = Polling
        /\ torn' \subseteq Stores
        /\ refs' = IF store = "SafeStore" THEN [refs EXCEPT ![mine] = refs[mine] - 1] ELSE refs
        /\ UNCHANGED <<store, entry, data, writer, cell, puts, stop>>
    BY <1>0, <1>5, <1>r, <2>1, <2>m DEF Tally, Continue, Release, EscapeTypeOK
  <2>3. \A s \in Readers, a \in Addresses : Holds(s, a)' = (s # r /\ Holds(s, a))
    BY <1>r, <2>2 DEF Holds, Polling
  <2>4. BorrowedInv'
    BY <1>0, <2>2, <2>3 DEF BorrowedInv
  <2>5. \A a \in Addresses : Holds(r, a) <=> a = mine
    BY <2>1, <2>m DEF Holds
  <2>6. CountedInv' /\ refs' = [a \in Addresses |-> refs'[a]]
    <3>1. CASE store # "SafeStore"
      BY <1>0, <1>f, <2>2, <3>1 DEF CountedInv, Owners
    <3>2. CASE store = "SafeStore"
      <4>1. Holders(mine)' = Holders(mine) \ {r} /\ r \in Holders(mine)
        BY <2>1, <2>3, <2>5 DEF Holders
      <4>2. \A a \in Addresses \ {mine} : Holders(a)' = Holders(a)
        BY <2>3, <2>5 DEF Holders
      <4>3. /\ Cardinality(Holders(mine)) \in Nat
            /\ Cardinality(Holders(mine)') = Cardinality(Holders(mine)) - 1
        <5>1. Holders(mine) \in SUBSET Readers
          BY DEF Holders
        <5> QED
          BY <4>1, <5>1, HoldersCount, SomeReaders
      <4>4. ASSUME NEW a \in Addresses PROVE (refs[a] = Owners(a))'
        <5>1. refs[a] = (IF entry = a THEN 1 ELSE 0) + Cardinality(Holders(a))
          BY <1>0, <3>2 DEF CountedInv, Owners
        <5>2. Owners(a)' = (IF entry = a THEN 1 ELSE 0) + Cardinality(Holders(a)')
          BY <2>2, <3>2 DEF Owners
        <5>3. CASE a = mine
          <6>1. refs'[a] = refs[a] - 1
            BY <1>f, <2>2, <3>2, <5>3
          <6> QED
            BY <4>3, <5>1, <5>2, <5>3, <6>1
        <5>4. CASE a # mine
          <6>1. refs'[a] = refs[a]
            BY <1>f, <2>2, <3>2, <5>4
          <6> QED
            BY <4>2, <5>1, <5>2, <5>4, <6>1
        <5> QED
          BY <5>3, <5>4
      <4> QED
        BY <1>f, <2>2, <3>2, <4>4 DEF CountedInv
    <3> QED
      BY <3>1, <3>2
  <2>7. EscapeTypeOK'
    BY <1>0, <1>c, <1>r, <2>2, <2>6 DEF EscapeTypeOK
  <2>8. RunInv'
    BY <1>0, <2>1, <2>2 DEF RunInv
  <2> QED
    BY <2>4, <2>6, <2>7, <2>8
<1> QED
  BY <1>2, <1>3, <1>4, <1>5 DEF ReaderStep

(***************************************************************************)
(* An object's count is its owners, in every state of both stores.         *)
(***************************************************************************)
THEOREM EscapeInvariant == EscapeSpec => []EscapeInv
<1>1. EscapeInv /\ UNCHANGED escapeVars => EscapeInv'
  BY DEF EscapeInv, EscapeTypeOK, RunInv, BorrowedInv, CountedInv, Owners, Holders, Holds, escapeVars, heapVars
<1>2. EscapeInv /\ [EscapeNext]_escapeVars => EscapeInv'
  BY <1>1, PutterStepKeeps, ReaderStepKeeps DEF EscapeNext
<1> QED
  BY <1>2, EscapeStart, PTL DEF EscapeSpec

(***************************************************************************)
(* Every variable of the experiment with the two stores keeps its type.    *)
(***************************************************************************)
THEOREM EscapeTypeCorrect == EscapeSpec => []EscapeTypeOK
<1>1. EscapeInv => EscapeTypeOK
  BY DEF EscapeInv
<1> QED
  BY <1>1, EscapeInvariant, PTL

(***************************************************************************)
(* No reader holds freed memory and no object outlives its owners, however *)
(* many readers there are and whenever they look up and let go.            *)
(***************************************************************************)
THEOREM ObjectsLiveAsLongAsHeldHolds == EscapeSpec => []ObjectsLiveAsLongAsHeld
<1>1. EscapeInv => ObjectsLiveAsLongAsHeld
  <2> SUFFICES ASSUME EscapeInv PROVE ObjectsLiveAsLongAsHeld
    OBVIOUS
  <2>1. \A a \in Addresses :
          refs[a] = (IF entry = a THEN 1 ELSE 0)
                    + (IF store = "SafeStore" THEN Cardinality({r \in Readers : Holds(r, a)}) ELSE 0)
    BY DEF EscapeInv, CountedInv, Owners, Holders
  <2>2. ASSUME NEW r \in Readers, NEW a \in Addresses, Holds(r, a) PROVE refs[a] > 0
    <3>1. Holders(a) # {} /\ refs[a] = Owners(a)
      BY <2>2 DEF Holders, EscapeInv, CountedInv
    <3>2. Cardinality(Holders(a)) \in Nat /\ Cardinality(Holders(a)) # 0
      BY <3>1, HoldersCount
    <3>3. store = "BrokenStore" => entry = a
      BY <2>2 DEF EscapeInv, BorrowedInv
    <3>4. store \in Stores
      <4>1. reader[r] \notin {Unborn, Ended}
        BY <2>2 DEF Holds, Unborn, Ended
      <4> QED
        BY <4>1 DEF EscapeInv, RunInv, EscapeTypeOK
    <3> QED
      BY <3>1, <3>2, <3>3, <3>4 DEF Owners, Stores
  <2> QED
    BY <2>1, <2>2 DEF ObjectsLiveAsLongAsHeld
<1> QED
  BY <1>1, EscapeInvariant, PTL

\* All the cells of the object at a have the same value.
WholeAt(a) == \E x \in 1 .. 2 : data[a] = Filled(x)

\* A reader that is still consistent saw the object's one value.
ReadsWhole(r) ==
  reader[r].step = "reading" =>
    /\ reader[r].consistent
    /\ WholeAt(reader[r].held)
    /\ reader[r].next > 1 => data[reader[r].held] = Filled(reader[r].first)

\* In SafeStore what is installed and what is held is whole, and nobody found otherwise.
WholeInv ==
  /\ "SafeStore" \notin torn
  /\ store = "SafeStore" => (entry \in Addresses => WholeAt(entry)) /\ \A r \in Readers : ReadsWhole(r)

\* main writes a new object before it installs it, and none that is held.
LEMMA PutterKeepsWhole == EscapeInv /\ WholeInv /\ PutterStep => WholeInv'
<1> SUFFICES ASSUME EscapeInv, WholeInv, PutterStep PROVE WholeInv'
  OBVIOUS
<1>0. NextFill \in 1 .. 2 /\ EscapeTypeOK /\ RunInv
  BY DEF EscapeInv, EscapeTypeOK, NextFill
<1>1. CASE StartRun
  <2>1. /\ entry' \in Addresses /\ data' = [data EXCEPT ![entry'] = Filled(1)]
    BY <1>1, InstallNew DEF StartRun
  <2>2. WholeAt(entry)'
    BY <1>0, <2>1 DEF EscapeTypeOK, WholeAt
  <2>3. \A r \in Readers : ReadsWhole(r)'
    BY <1>1 DEF StartRun, ReadsWhole, Polling
  <2> QED
    BY <1>1, <2>2, <2>3 DEF StartRun, WholeInv
<1>2. CASE PutSafe
  <2>1. /\ entry' \in Addresses /\ data' = [data EXCEPT ![entry'] = Filled(NextFill)]
        /\ Holders(entry') = {}
    BY <1>0, <1>2, InstallNew DEF PutSafe
  <2>2. WholeAt(entry)'
    BY <1>0, <2>1 DEF EscapeTypeOK, WholeAt
  <2>3. ASSUME NEW r \in Readers PROVE ReadsWhole(r)'
    <3>1. SUFFICES ASSUME reader[r].step = "reading" PROVE ReadsWhole(r)'
      BY <1>2 DEF PutSafe, ReadsWhole
    <3>2. reader[r].held # entry' /\ reader[r].held \in Addresses
      <4>1. reader[r] \in Reading
        BY <1>0, <3>1, ReaderTypes
      <4> QED
        BY <2>1, <3>1, <4>1 DEF Holders, Holds, Reading
    <3>3. data'[reader[r].held] = data[reader[r].held] /\ reader' = reader
      BY <1>0, <1>2, <2>1, <3>2 DEF EscapeTypeOK, PutSafe
    <3> QED
      BY <1>2, <3>1, <3>3 DEF WholeInv, ReadsWhole, WholeAt, PutSafe
  <2> QED
    BY <1>2, <2>2, <2>3 DEF PutSafe, WholeInv
<1>3. CASE EndRun
  BY <1>3, EscapeAssumption DEF EndRun, WholeInv, ReadsWhole, Ended
<1>4. CASE LockBroken \/ CopyCell \/ UnlockBroken
  BY <1>0, <1>4 DEF LockBroken, CopyCell, UnlockBroken, RunInv, WholeInv
<1>5. CASE StopReaders
  BY <1>5 DEF StopReaders, heapVars, WholeInv, ReadsWhole, WholeAt
<1> QED
  BY <1>1, <1>2, <1>3, <1>4, <1>5 DEF PutterStep

\* A reader finds the one value in every cell.
LEMMA ReaderKeepsWhole ==
  ASSUME EscapeInv, WholeInv, NEW r \in Readers, ReaderStep(r)
  PROVE  WholeInv'
<1>0. EscapeTypeOK /\ RunInv /\ reader \in [Readers -> Reading \cup {Unborn, Polling, Finding, Ended}]
  BY DEF EscapeInv, EscapeTypeOK
<1>1. /\ UNCHANGED <<store, entry, data>> /\ reader' = [reader EXCEPT ![r] = reader'[r]]
  BY <1>0 DEF ReaderStep, Poll, FindBroken, FindSafe, StartReading, ReadCell, ReadAgain, Tally, Continue, heapVars
<1>2. SUFFICES ASSUME store = "SafeStore" PROVE ReadsWhole(r)' /\ "SafeStore" \notin torn'
  <2>1. \A s \in Readers \ {r} : reader'[s] = reader[s]
    BY <1>0, <1>1
  <2>2. ASSUME store # "SafeStore" PROVE "SafeStore" \notin torn'
    BY <2>2, <1>0 DEF WholeInv, ReaderStep, Poll, FindBroken, FindSafe, ReadCell, ReadAgain, Tally
  <2> QED
    BY <1>1, <1>2, <2>1, <2>2 DEF WholeInv, ReadsWhole, WholeAt
<1>3. ReadsWhole(r)
  BY <1>2 DEF WholeInv
<1>4. CASE Poll(r)
  BY <1>0, <1>4 DEF Poll, Continue, WholeInv, ReadsWhole, Ended, Finding
<1>5. CASE FindBroken(r)
  BY <1>2, <1>5 DEF FindBroken
<1>6. CASE FindSafe(r)
  <2>1. entry \in Addresses
    BY <1>0, <1>6 DEF FindSafe, RunInv, EscapeTypeOK, Finding, Unborn, Ended, Stores
  <2>2. reader'[r] = [step |-> "reading", held |-> entry, pass |-> 1, next |-> 1, first |-> 1,
                      consistent |-> TRUE]
    BY <1>0, <1>6 DEF FindSafe, StartReading, Continue
  <2>3. /\ reader'[r].held = entry /\ reader'[r].next = 1 /\ reader'[r].consistent
        /\ data' = data /\ torn' = torn
    BY <1>1, <1>6, <2>2 DEF FindSafe
  <2> QED
    BY <1>2, <2>1, <2>3 DEF WholeInv, ReadsWhole, WholeAt
<1>7. CASE ReadCell(r)
  <2>1. /\ reader[r] \in Reading /\ reader[r].step = "reading"
        /\ reader'[r].step = "reading" /\ reader'[r].held = reader[r].held
        /\ data' = data /\ torn' = torn
    BY <1>7, ReadOn
  <2> DEFINE me == reader[r]
             value == data[me.held][me.next]
             first == IF me.next = 1 THEN value ELSE me.first
  <2>2. me.next \in Cells /\ me.next <= Width /\ me.first \in 1 .. 2
    <3>1. me.next \in 1 .. Width + 1 /\ me.next <= Width /\ me.first \in 1 .. 2
      BY <1>7, <2>1 DEF Reading, ReadCell
    <3> QED
      BY <3>1, EscapeBounds DEF Cells
  <2>3. PICK x \in 1 .. 2 : data[me.held] = Filled(x)
    BY <1>3, <2>1 DEF ReadsWhole, WholeAt
  <2>4. value = x
    BY <2>2, <2>3 DEF Filled
  <2>5. first = x
    <3>1. CASE me.next = 1
      BY <2>4, <3>1
    <3>2. CASE me.next # 1
      <4>1. me.next > 1
        BY <2>2, <3>2, EscapeBounds DEF Cells
      <4>2. data[me.held] = Filled(me.first)
        BY <1>3, <2>1, <4>1 DEF ReadsWhole
      <4>3. Filled(me.first)[me.next] = me.first
        BY <2>2 DEF Filled
      <4> QED
        BY <2>4, <3>2, <4>2, <4>3
    <3> QED
      BY <3>1, <3>2
  <2>6. reader' = [reader EXCEPT ![r] =
                     [me EXCEPT !.next = me.next + 1, !.first = first, !.consistent = (value = first)]]
    BY <1>7 DEF ReadCell, Continue
  <2>7. reader'[r].first = x /\ reader'[r].consistent
    <3>1. reader'[r] = [me EXCEPT !.next = me.next + 1, !.first = first, !.consistent = (value = first)]
      BY <1>0, <2>6
    <3> HIDE DEF value, first
    <3> QED
      BY <2>1, <2>4, <2>5, <3>1 DEF Reading
  <2> HIDE DEF value, first
  <2> QED
    BY <1>3, <2>1, <2>3, <2>7 DEF WholeInv, ReadsWhole, WholeAt
<1>8. CASE ReadAgain(r)
  <2>1. /\ reader[r] \in Reading /\ reader[r].step = "reading"
        /\ reader'[r].held = reader[r].held /\ data' = data /\ torn' = torn
    BY <1>8, ReadOn
  <2>2. reader'[r].next = 1 /\ reader'[r].consistent = reader[r].consistent
    <3>1. reader'[r] = [reader[r] EXCEPT !.pass = reader[r].pass + 1, !.next = 1]
      BY <1>0, <1>8 DEF ReadAgain, Continue
    <3> QED
      BY <2>1, <3>1 DEF Reading
  <2> QED
    BY <1>3, <2>1, <2>2 DEF WholeInv, ReadsWhole, WholeAt
<1>9. CASE Tally(r)
  <2>1. reader[r].consistent
    BY <1>3, <1>9 DEF ReadsWhole, Tally
  <2>2. torn' = torn /\ reader'[r] = Polling
    BY <1>0, <1>9, <2>1 DEF Tally, Continue
  <2> QED
    BY <2>2 DEF WholeInv, ReadsWhole, Polling
<1> QED
  BY <1>4, <1>5, <1>6, <1>7, <1>8, <1>9 DEF ReaderStep

(***************************************************************************)
(* No reader of SafeStore ever sees part of a write, however wide the      *)
(* value, however often it re-reads it and however many puts go on: an     *)
(* object is written before it is installed and never after.               *)
(***************************************************************************)
THEOREM SnapshotsAreWholeHolds == EscapeSpec => []SnapshotsAreWhole
<1>1. EscapeInit => WholeInv
  BY DEF EscapeInit, WholeInv
<1>2. EscapeInv /\ WholeInv /\ UNCHANGED escapeVars => WholeInv'
  BY DEF WholeInv, ReadsWhole, WholeAt, escapeVars, heapVars
<1>3. EscapeInv /\ WholeInv /\ [EscapeNext]_escapeVars => WholeInv'
  BY <1>2, PutterKeepsWhole, ReaderKeepsWhole DEF EscapeNext
<1>4. WholeInv => SnapshotsAreWhole
  BY DEF WholeInv, SnapshotsAreWhole
<1> QED
  BY <1>1, <1>3, <1>4, EscapeInvariant, PTL DEF EscapeSpec

=============================================================================
