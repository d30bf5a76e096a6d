------------------------------ MODULE Handover ------------------------------
(***************************************************************************)
(* The demonstration of a check that is not pinned to one snapshot: access *)
(* is handed from engineers to managers in one critical section while a    *)
(* check reads the two in two.  A condition variable forces the write      *)
(* between the reads; then the same check under one lock is run against a  *)
(* writer that is not held back.                                           *)
(*                                                                         *)
(* A thread in wait(lock, predicate) is                                    *)
(*   testing    the predicate, with checkpoint_mutex                       *)
(*   blocking   found it false, still with checkpoint_mutex                *)
(*   sleeping   released the mutex, in the condition variable's wait set   *)
(*   waking     notified, or woken for no reason, about to lock again      *)
(***************************************************************************)
EXTENDS Integers

CONSTANTS
  MaxWakeups,   \* bound on spurious wake-ups in a behaviour
  MaxChecks     \* iterations of the stress test: 200000 in the code

ASSUME HandoverAssumption == MaxWakeups \in Nat /\ MaxChecks \in Nat

VARIABLES
  access,                    \* group_access
  dataMutex,                 \* who holds data_mutex
  checkpointMutex,           \* who holds checkpoint_mutex
  readOneDone, writerDone,   \* the two checkpoints
  at,                        \* where main and the writer are
  seen,                      \* main's CheckResult
  halted,                    \* stop
  iterations, violations,
  wakeups                    \* spurious ones so far

checkpointVars == <<checkpointMutex, readOneDone, writerDone, wakeups>>
stressVars == <<halted, iterations, violations>>
handoverVars == <<access, dataMutex, checkpointVars, at, seen, stressVars>>

Free == "free"

BeforeReorg == [engineers |-> TRUE, managers |-> FALSE]

HandoverInit ==
  /\ access = BeforeReorg
  /\ dataMutex = Free
  /\ checkpointMutex = Free
  /\ readOneDone = FALSE /\ writerDone = FALSE
  /\ at = [main |-> "resetting", writer |-> "unborn"]
  /\ seen = [engineers |-> FALSE, managers |-> FALSE]
  /\ halted = FALSE /\ iterations = 0 /\ violations = 0
  /\ wakeups = 0

\* MUTANT: nobody takes data_mutex.
DataNeverLocked == TRUE

DataUnlocked == dataMutex = Free

\* MUTANT: one iteration too many.
OnceMore == iterations <= MaxChecks

MoreChecks == iterations < MaxChecks

Move(p, from, to) == at[p] = from /\ at' = [at EXCEPT ![p] = to]

-----------------------------------------------------------------------------
(***************************************************************************)
(* Critical sections of data_mutex that touch both groups, in two steps.   *)
(***************************************************************************)
EnterAndSet(from, to, group, value) ==
  /\ Move("writer", from, to)
  /\ DataUnlocked
  /\ dataMutex' = "writer"
  /\ access' = [access EXCEPT ![group] = value]
  /\ UNCHANGED <<checkpointVars, seen, stressVars>>

SetAndLeave(from, to, group, value) ==
  /\ Move("writer", from, to)
  /\ dataMutex' = Free
  /\ access' = [access EXCEPT ![group] = value]
  /\ UNCHANGED <<checkpointVars, seen, stressVars>>

(***************************************************************************)
(* checkpoint_cv.  Everyone asleep is notified at once.                    *)
(***************************************************************************)
NotifyAll(p, to) ==
  /\ at[p] = "notifying"
  /\ at' = [q \in DOMAIN at |-> CASE q = p -> to
                                  [] q # p /\ at[q] = "sleeping" -> "waking"
                                  [] OTHER -> at[q]]
  /\ UNCHANGED <<access, dataMutex, checkpointVars, seen, stressVars>>

\* MUTANT: both threads wait for the same flag.
AwaitedAlike(p) == readOneDone

Awaited(p) == IF p = "main" THEN writerDone ELSE readOneDone

\* The predicate, tested under the mutex; true leaves the section.
Test(p, next) ==
  /\ at[p] = "testing"
  /\ at' = [at EXCEPT ![p] = IF Awaited(p) THEN next ELSE "blocking"]
  /\ checkpointMutex' = IF Awaited(p) THEN Free ELSE p
  /\ UNCHANGED <<access, dataMutex, readOneDone, writerDone, wakeups, seen, stressVars>>

\* Unlocking and going to sleep are one step: what the condition variable is for.
Block(p) ==
  /\ Move(p, "blocking", "sleeping")
  /\ checkpointMutex' = Free
  /\ UNCHANGED <<access, dataMutex, readOneDone, writerDone, wakeups, seen, stressVars>>

WakeSpuriously(p) ==
  /\ wakeups < MaxWakeups
  /\ wakeups' = wakeups + 1
  /\ Move(p, "sleeping", "waking")
  /\ UNCHANGED <<access, dataMutex, checkpointMutex, readOneDone, writerDone, seen, stressVars>>

\* The lock at the head of a wait, or again after a wake-up.
Lock(p) ==
  /\ Move(p, "waking", "testing")
  /\ checkpointMutex = Free
  /\ checkpointMutex' = p
  /\ UNCHANGED <<access, dataMutex, readOneDone, writerDone, wakeups, seen, stressVars>>

-----------------------------------------------------------------------------
(***************************************************************************)
(* The forced interleaving.                                                *)
(***************************************************************************)
\* resetState, the flags, and the writer's thread, which begins at its wait.
StartHandover ==
  /\ at.main = "resetting"
  /\ at' = [main |-> "readingFirst", writer |-> "waking"]
  /\ access' = BeforeReorg
  /\ readOneDone' = FALSE /\ writerDone' = FALSE
  /\ UNCHANGED <<dataMutex, checkpointMutex, wakeups, seen, stressVars>>

ReadFirst ==
  /\ Move("main", "readingFirst", "announcing")
  /\ DataUnlocked
  /\ seen' = [seen EXCEPT !.engineers = access.engineers]
  /\ UNCHANGED <<access, dataMutex, checkpointVars, stressVars>>

AnnounceReader ==
  /\ Move("main", "announcing", "notifying")
  /\ checkpointMutex = Free
  /\ checkpointMutex' = "main"
  /\ readOneDone' = TRUE
  /\ UNCHANGED <<access, dataMutex, writerDone, wakeups, seen, stressVars>>

\* MUTANT: writer_done set without the mutex, as an atomic would allow.
AnnounceUnlocked ==
  /\ Move("writer", "finishing", "notifying")
  /\ writerDone' = TRUE
  /\ UNCHANGED <<access, dataMutex, checkpointMutex, readOneDone, wakeups, seen, stressVars>>

\* Locks and unlocks again; the notification comes after.
AnnounceWriter ==
  /\ Move("writer", "finishing", "notifying")
  /\ checkpointMutex = Free
  /\ writerDone' = TRUE
  /\ UNCHANGED <<access, dataMutex, checkpointMutex, readOneDone, wakeups, seen, stressVars>>

ReadSecond ==
  /\ Move("main", "readingSecond", "joining")
  /\ DataUnlocked
  /\ seen' = [seen EXCEPT !.managers = access.managers]
  /\ UNCHANGED <<access, dataMutex, checkpointVars, stressVars>>

JoinWriter(from, to) ==
  /\ Move("main", from, to)
  /\ at.writer = "ended"
  /\ UNCHANGED <<access, dataMutex, checkpointVars, seen, stressVars>>

-----------------------------------------------------------------------------
(***************************************************************************)
(* The stress test.                                                        *)
(***************************************************************************)
StartStress ==
  /\ at.main = "joined"
  /\ at' = [main |-> "checking", writer |-> "looping"]
  /\ access' = BeforeReorg
  /\ UNCHANGED <<dataMutex, checkpointVars, seen, stressVars>>

Loop ==
  /\ Move("writer", "looping", IF halted THEN "ended" ELSE "flipping")
  /\ UNCHANGED <<access, dataMutex, checkpointVars, seen, stressVars>>

\* checkWithSnapshot: both reads in one critical section.
CheckFirst ==
  /\ Move("main", "checking", "checkingSecond")
  /\ DataUnlocked /\ MoreChecks
  /\ dataMutex' = "main"
  /\ seen' = [seen EXCEPT !.engineers = access.engineers]
  /\ UNCHANGED <<access, checkpointVars, stressVars>>

CheckSecond ==
  /\ Move("main", "checkingSecond", "checking")
  /\ dataMutex' = Free
  /\ seen' = [seen EXCEPT !.managers = access.managers]
  /\ iterations' = iterations + 1
  /\ violations' = violations + IF seen'.engineers = seen'.managers THEN 1 ELSE 0
  /\ UNCHANGED <<access, checkpointVars, halted>>

Stop ==
  /\ Move("main", "checking", "joiningStress")
  /\ ~MoreChecks
  /\ halted' = TRUE
  /\ UNCHANGED <<access, dataMutex, checkpointVars, seen, iterations, violations>>

-----------------------------------------------------------------------------
MainStep ==
  \/ StartHandover \/ ReadFirst \/ AnnounceReader \/ NotifyAll("main", "testing")
  \/ Test("main", "readingSecond") \/ Block("main") \/ Lock("main")
  \/ ReadSecond \/ JoinWriter("joining", "joined")
  \/ StartStress \/ CheckFirst \/ CheckSecond \/ Stop \/ JoinWriter("joiningStress", "done")

WriterStep ==
  \/ Test("writer", "reassigning") \/ Block("writer") \/ Lock("writer")
  \/ EnterAndSet("reassigning", "reassigned", "managers", TRUE)
  \/ SetAndLeave("reassigned", "finishing", "engineers", FALSE)
  \/ AnnounceWriter \/ NotifyAll("writer", "ended")
  \/ Loop
  \/ EnterAndSet("flipping", "flipped", "managers", TRUE)
  \/ SetAndLeave("flipped", "flippingBack", "engineers", FALSE)
  \/ EnterAndSet("flippingBack", "flippedBack", "engineers", TRUE)
  \/ SetAndLeave("flippedBack", "looping", "managers", FALSE)

HandoverNext == MainStep \/ WriterStep \/ \E p \in {"main", "writer"} : WakeSpuriously(p)

HandoverSpec == HandoverInit /\ [][HandoverNext]_handoverVars

-----------------------------------------------------------------------------
HandoverTypeOK ==
  /\ access \in [engineers : BOOLEAN, managers : BOOLEAN]
  /\ {dataMutex, checkpointMutex} \subseteq {Free, "main", "writer"}
  /\ {readOneDone, writerDone, halted} \subseteq BOOLEAN
  /\ at.main \in {"resetting", "readingFirst", "announcing", "notifying", "testing", "blocking",
                  "sleeping", "waking", "readingSecond", "joining", "joined",
                  "checking", "checkingSecond", "joiningStress", "done"}
  /\ at.writer \in {"unborn", "testing", "blocking", "sleeping", "waking", "reassigning",
                    "reassigned", "finishing", "notifying", "ended",
                    "looping", "flipping", "flipped", "flippingBack", "flippedBack"}
  /\ seen \in [engineers : BOOLEAN, managers : BOOLEAN]
  /\ iterations \in 0 .. MaxChecks
  /\ violations \in 0 .. iterations
  /\ wakeups \in 0 .. MaxWakeups

(***************************************************************************)
(* The bug is reproduced every time: the two reads combine to a state that *)
(* never was, whatever order the threads reach their checkpoints in and    *)
(* however often they wake for no reason; the branch that prints           *)
(* "unexpectedly" is dead.                                                 *)
(***************************************************************************)
BugAlwaysReproduced == at.main = "joined" => seen.engineers /\ seen.managers

(***************************************************************************)
(* The fix: no check under one lock sees both groups, or neither, with     *)
(* access, though the writer flips them one after the other.               *)
(***************************************************************************)
FixNeverViolated == violations = 0

(***************************************************************************)
(* No wake-up is lost: the forced interleaving always ends, and once main  *)
(* has stopped the stress test the program does.                           *)
(***************************************************************************)
HandoverEnds ==
  /\ at.main = "readingFirst" ~> at.main = "joined"
  /\ halted ~> at.main = "done"

=============================================================================
