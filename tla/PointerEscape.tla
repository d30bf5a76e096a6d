---------------------------- MODULE PointerEscape ---------------------------
(***************************************************************************)
(* The experiment with a pointer that escapes the lock it was found under: *)
(* a store that overwrites its entry in place and hands out its address,   *)
(* and one that installs a new entry and hands out a counted reference, as *)
(* RoleGraph::addRole and RoleGraph::find do.  main puts; readers read     *)
(* what they found, cell by cell, with no lock.  The two stores are run    *)
(* one after the other.                                                    *)
(***************************************************************************)
EXTENDS FiniteSets, Integers

CONSTANTS
  Readers,      \* one in the program; RoleGraph has as many as there are checks
  Addresses,    \* enough for what is installed, what is held and what is new
  NoAddress,
  Width,        \* kWidth: 1024
  Passes,       \* kReadPasses: 400
  MaxPuts       \* 2 * kWrites: 200000

ASSUME EscapeAssumption ==
  /\ {Width, Passes} \subseteq Nat \ {0} /\ MaxPuts \in Nat
  /\ IsFiniteSet(Addresses) /\ IsFiniteSet(Readers)
  /\ Cardinality(Addresses) >= Cardinality(Readers) + 2
  /\ NoAddress \notin Addresses

VARIABLES
  store,      \* the store main is running, or "none" at the end
  entry,      \* entries_["k"]: where its object is
  refs,       \* refs[a]: the owners of the object at a; 0 is free memory
  data,       \* data[a]: its cells
  writer,     \* main's step in run()
  cell,       \* the next cell an overwrite in place copies
  puts,       \* how many main has done in the loop
  stop,
  reader,     \* reader[r]: r's step and its locals
  torn        \* the stores a reader has seen torn

heapVars == <<entry, refs, data>>
escapeVars == <<store, heapVars, writer, cell, puts, stop, reader, torn>>

Stores == {"BrokenStore", "SafeStore"}
Cells == 1 .. Width
Filled(fill) == [i \in Cells |-> fill]

\* MUTANT: one put too many.
OnePutMore == puts <= MaxPuts

MorePuts == puts < MaxPuts

\* The loop puts 1 and 2 in turn.
NextFill == 1 + (puts % 2)

Unborn == [step |-> "unborn"]
Polling == [step |-> "polling"]
Finding == [step |-> "finding"]
Ended == [step |-> "ended"]

Reading ==
  [step : {"reading"}, held : Addresses, pass : 1 .. Passes, next : 1 .. Width + 1,
   first : 1 .. 2, consistent : BOOLEAN]

\* MUTANT: the address copied, and not the counted pointer.
RetainNothing(a) == refs

Retain(a) == [refs EXCEPT ![a] = @ + 1]
Release(a) == [refs EXCEPT ![a] = @ - 1]

Holds(r, a) == reader[r].step = "reading" /\ reader[r].held = a

EscapeInit ==
  /\ store = "BrokenStore"
  /\ entry = NoAddress
  /\ refs = [a \in Addresses |-> 0]
  /\ data = [a \in Addresses |-> Filled(1)]
  /\ writer = "starting" /\ cell = 1 /\ puts = 0
  /\ stop = FALSE
  /\ reader = [r \in Readers |-> Unborn]
  /\ torn = {}

-----------------------------------------------------------------------------
(***************************************************************************)
(* main.  A reader looks the entry up only while no put holds the lock.    *)
(***************************************************************************)
\* The object replaces the installed one, which loses the store's reference.
Install(fill) ==
  LET new == CHOOSE a \in Addresses : refs[a] = 0 IN
  /\ entry' = new
  /\ refs' = [a \in Addresses |-> CASE a = new -> 1
                                    [] a = entry -> refs[a] - 1
                                    [] OTHER -> refs[a]]
  /\ data' = [data EXCEPT ![new] = Filled(fill)]

\* The first put of a store, then the readers' threads.
StartRun ==
  /\ writer = "starting"
  /\ Install(1)
  /\ writer' = "looping"
  /\ puts' = 0 /\ stop' = FALSE
  /\ reader' = [r \in Readers |-> Polling]
  /\ UNCHANGED <<store, cell, torn>>

\* BrokenStore::put: takes the lock and copies its temporary cell by cell.
LockBroken ==
  /\ store = "BrokenStore" /\ writer = "looping" /\ MorePuts
  /\ writer' = "overwriting"
  /\ cell' = 1
  /\ UNCHANGED <<store, heapVars, puts, stop, reader, torn>>

CopyCell ==
  /\ writer = "overwriting" /\ cell <= Width
  /\ data' = [data EXCEPT ![entry][cell] = NextFill]
  /\ cell' = cell + 1
  /\ UNCHANGED <<store, entry, refs, writer, puts, stop, reader, torn>>

UnlockBroken ==
  /\ writer = "overwriting" /\ cell > Width
  /\ writer' = "looping"
  /\ puts' = puts + 1
  /\ UNCHANGED <<store, heapVars, cell, stop, reader, torn>>

\* MUTANT: SafeStore assigns to the object it has instead of the pointer.
AssignThrough ==
  /\ store = "SafeStore" /\ writer = "looping" /\ MorePuts
  /\ data' = [data EXCEPT ![entry] = Filled(NextFill)]
  /\ puts' = puts + 1
  /\ UNCHANGED <<store, entry, refs, writer, cell, stop, reader, torn>>

\* SafeStore::put: nobody else has seen the new object before the lock is released.
PutSafe ==
  /\ store = "SafeStore" /\ writer = "looping" /\ MorePuts
  /\ Install(NextFill)
  /\ puts' = puts + 1
  /\ UNCHANGED <<store, writer, cell, stop, reader, torn>>

StopReaders ==
  /\ writer = "looping" /\ ~MorePuts
  /\ writer' = "joining"
  /\ stop' = TRUE
  /\ UNCHANGED <<store, heapVars, cell, puts, reader, torn>>

\* The readers joined, run() returns and its store is destroyed.
EndRun ==
  /\ writer = "joining"
  /\ \A r \in Readers : reader[r] = Ended
  /\ refs' = Release(entry)
  /\ entry' = NoAddress
  /\ store' = IF store = "BrokenStore" THEN "SafeStore" ELSE "none"
  /\ writer' = IF store = "BrokenStore" THEN "starting" ELSE "done"
  /\ UNCHANGED <<data, cell, puts, stop, reader, torn>>

-----------------------------------------------------------------------------
(***************************************************************************)
(* A reader.                                                               *)
(***************************************************************************)
Continue(r, locals) == reader' = [reader EXCEPT ![r] = locals]

Poll(r) ==
  /\ reader[r] = Polling
  /\ Continue(r, IF stop THEN Ended ELSE Finding)
  /\ UNCHANGED <<store, heapVars, writer, cell, puts, stop, torn>>

StartReading(r, a) ==
  Continue(r, [step |-> "reading", held |-> a, pass |-> 1, next |-> 1, first |-> 1, consistent |-> TRUE])

\* BrokenStore::find: the address, under the shared lock.
FindBroken(r) ==
  /\ store = "BrokenStore" /\ reader[r] = Finding
  /\ writer # "overwriting"
  /\ StartReading(r, entry)
  /\ UNCHANGED <<store, heapVars, writer, cell, puts, stop, torn>>

\* SafeStore::find: a copy of the counted pointer, under the shared lock.
FindSafe(r) ==
  /\ store = "SafeStore" /\ reader[r] = Finding
  /\ StartReading(r, entry)
  /\ refs' = Retain(entry)
  /\ UNCHANGED <<store, entry, data, writer, cell, puts, stop, torn>>

\* isConsistent, one cell: the first mismatch ends the pass and all passes.
ReadCell(r) ==
  LET me == reader[r] IN
  /\ me.step = "reading" /\ me.consistent /\ me.next <= Width
  /\ LET value == data[me.held][me.next]
         first == IF me.next = 1 THEN value ELSE me.first
     IN  Continue(r, [me EXCEPT !.next = @ + 1, !.first = first, !.consistent = value = first])
  /\ UNCHANGED <<store, heapVars, writer, cell, puts, stop, torn>>

ReadAgain(r) ==
  LET me == reader[r] IN
  /\ me.step = "reading" /\ me.consistent /\ me.next > Width
  /\ me.pass < Passes
  /\ Continue(r, [me EXCEPT !.pass = @ + 1, !.next = 1])
  /\ UNCHANGED <<store, heapVars, writer, cell, puts, stop, torn>>

\* The read is counted and what was found is let go.
Tally(r) ==
  LET me == reader[r] IN
  /\ me.step = "reading"
  /\ me.consistent => me.next > Width /\ me.pass = Passes
  /\ torn' = IF me.consistent THEN torn ELSE torn \cup {store}
  /\ refs' = IF store = "SafeStore" THEN Release(me.held) ELSE refs
  /\ Continue(r, Polling)
  /\ UNCHANGED <<store, entry, data, writer, cell, puts, stop>>

-----------------------------------------------------------------------------
PutterStep ==
  StartRun \/ LockBroken \/ CopyCell \/ UnlockBroken \/ PutSafe \/ StopReaders \/ EndRun

ReaderStep(r) == Poll(r) \/ FindBroken(r) \/ FindSafe(r) \/ ReadCell(r) \/ ReadAgain(r) \/ Tally(r)

EscapeNext == PutterStep \/ \E r \in Readers : ReaderStep(r)

EscapeSpec == EscapeInit /\ [][EscapeNext]_escapeVars

-----------------------------------------------------------------------------
EscapeTypeOK ==
  /\ store \in Stores \cup {"none"}
  /\ entry \in Addresses \cup {NoAddress}
  /\ refs \in [Addresses -> 0 .. Cardinality(Readers) + 1]
  /\ data \in [Addresses -> [Cells -> 1 .. 2]]
  /\ writer \in {"starting", "looping", "overwriting", "joining", "done"}
  /\ cell \in 1 .. Width + 1
  /\ puts \in 0 .. MaxPuts
  /\ stop \in BOOLEAN
  /\ reader \in [Readers -> Reading \cup {Unborn, Polling, Finding, Ended}]
  /\ torn \subseteq Stores

(***************************************************************************)
(* Nobody reads freed memory and nothing leaks, in either store: what a    *)
(* reader holds is alive, and an object of SafeStore lives exactly as long *)
(* as it is installed or held, through every overwrite and to the end.     *)
(***************************************************************************)
ObjectsLiveAsLongAsHeld ==
  /\ \A r \in Readers, a \in Addresses : Holds(r, a) => refs[a] > 0
  /\ \A a \in Addresses :
       refs[a] = (IF entry = a THEN 1 ELSE 0)
                 + (IF store = "SafeStore" THEN Cardinality({r \in Readers : Holds(r, a)}) ELSE 0)

(***************************************************************************)
(* A reader of SafeStore never sees a value in the middle of a write,      *)
(* however many times it re-reads it while puts go on: the snapshot        *)
(* RoleGraph::find promises.                                               *)
(***************************************************************************)
SnapshotsAreWhole == "SafeStore" \notin torn

=============================================================================
