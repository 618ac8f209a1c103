---------------------------- MODULE UsageLedger ----------------------------
(***************************************************************************)
(* The usage ledger as a running store: usage/usage-store.ts over           *)
(* storage/writing-in-turn.ts, storage/flush-cadence.ts and                *)
(* storage/json-file.ts, with the state changes boot/stored-boot.ts flushes *)
(* on and the quit that closes it.                                         *)
(*                                                                         *)
(* Settled rows accrue in memory; a flush reads how far back rows are kept, *)
(* snapshots what is left, and renames it over the document.  Rows settle,  *)
(* age, and further flushes are asked for while one waits for the disk.     *)
(***************************************************************************)
EXTENDS Naturals, Sequences, FiniteSets

CONSTANTS
    Rows,           \* what may settle, each in a bucket of its own
    MaxRefusals,    \* bound: writes the disk refuses
    MaxEnds,        \* bound: ends of the process
    MaxStanding     \* bound: flushes asked for and not over

ASSUME LedgerAssumption ==
    MaxRefusals \in Nat /\ MaxEnds \in Nat /\ MaxStanding \in Nat \ {0}

VARIABLES
    up,             \* "up", "quitting" or "down"
    memory,         \* the ledger every report is read from
    revision,       \* settled rows since the launch
    writtenRevision,
    flushes,        \* the writes asked for, the earliest first
    quiet, ceiling, \* whether either timer is set
    disk,           \* the document
    aged,           \* rows past what the retention setting keeps
    settled,        \* rows settled in this run, and those it opened on
    refusals, ends

ledgerVars == <<up, memory, revision, writtenRevision, flushes, quiet, ceiling, disk, aged,
                settled, refusals, ends>>

Flush == [at : {"asked", "aging", "writing"}, covered : Nat, snapshot : SUBSET Rows]
Asked == [at |-> "asked", covered |-> 0, snapshot |-> {}]

Kept(rows) == rows \ aged

-----------------------------------------------------------------------------
(* The cadence.                                                            *)

(* Mutant: the ceiling is put off with every row, as the quiet is.          *)
QuietOnly == quiet' = TRUE /\ UNCHANGED ceiling

WatchForQuiet == quiet' = TRUE /\ ceiling' = TRUE

StopWatching == quiet' = FALSE /\ ceiling' = FALSE

(* accrue: memory only.                                                    *)
Accrue(row) ==
    /\ up # "down"
    /\ row \notin settled
    /\ settled' = settled \cup {row}
    /\ memory' = memory \cup {row}
    /\ revision' = revision + 1
    /\ WatchForQuiet
    /\ UNCHANGED <<up, writtenRevision, flushes, disk, aged, refusals, ends>>

(* writingInTurn: a flush takes its place behind those standing.            *)
AskFlush ==
    /\ Len(flushes) < MaxStanding
    /\ flushes' = Append(flushes, Asked)
    /\ StopWatching
    /\ UNCHANGED <<up, memory, revision, writtenRevision, disk, aged, settled, refusals, ends>>

QuietFires == up # "down" /\ quiet /\ AskFlush
CeilingFires == up # "down" /\ ceiling /\ AskFlush

(* watchEngineStates: a gateway coming up or going down is a good moment.   *)
StatesChanged == up # "down" /\ AskFlush

-----------------------------------------------------------------------------
(* ledgerWrites.                                                           *)

(* Mutant: flushes race to the disk.                                       *)
AnyTurn(n) == TRUE

InTurn(n) == n = 1

Over(n) == flushes' = [m \in 1..(Len(flushes) - 1) |-> flushes[IF m < n THEN m ELSE m + 1]]

(* Mutant: a write counts for whatever has settled by its end.             *)
AllCovered(flush) == revision

Covered(flush) == flush.covered

NothingMoved(flush) == revision = flush.covered

BeginFlush(n) ==
    /\ InTurn(n)
    /\ flushes[n].at = "asked"
    /\ IF revision = writtenRevision THEN Over(n)
       ELSE flushes' = [flushes EXCEPT ![n].at = "aging"]
    /\ UNCHANGED <<up, memory, revision, writtenRevision, quiet, ceiling, disk, aged, settled,
                   refusals, ends>>

(* The retention setting was read; the snapshot is taken and the write      *)
(* begins.                                                                 *)
Snapshot(n) ==
    /\ InTurn(n)
    /\ flushes[n].at = "aging"
    /\ flushes' = [flushes EXCEPT ![n] =
                      [at |-> "writing", covered |-> revision, snapshot |-> Kept(memory)]]
    /\ UNCHANGED <<up, memory, revision, writtenRevision, quiet, ceiling, disk, aged, settled,
                   refusals, ends>>

Rename(n) ==
    /\ InTurn(n)
    /\ flushes[n].at = "writing"
    /\ LET flush == flushes[n]
       IN  /\ disk' = flush.snapshot
           /\ writtenRevision' = Covered(flush)
           /\ memory' = IF NothingMoved(flush) THEN flush.snapshot ELSE memory
    /\ Over(n)
    /\ UNCHANGED <<up, revision, quiet, ceiling, aged, settled, refusals, ends>>

(* The settings cannot be read or the disk refuses: nothing is marked       *)
(* written, and the next flush owes it all.                                *)
WriteRefused(n) ==
    /\ InTurn(n)
    /\ flushes[n].at # "asked"
    /\ refusals < MaxRefusals
    /\ refusals' = refusals + 1
    /\ Over(n)
    /\ UNCHANGED <<up, memory, revision, writtenRevision, quiet, ceiling, disk, aged, settled, ends>>

-----------------------------------------------------------------------------
(* Time, and the process.                                                  *)

(* A row grows older than the retention setting keeps, or the setting is    *)
(* shortened over it.                                                      *)
Age(row) ==
    /\ row \in settled \ aged
    /\ aged' = aged \cup {row}
    /\ UNCHANGED <<up, memory, revision, writtenRevision, flushes, quiet, ceiling, disk, settled,
                   refusals, ends>>

(* before-quit: the child is killed, and whatever was scheduled goes on     *)
(* while the process lasts.                                                *)
Quit ==
    /\ up = "up"
    /\ ends < MaxEnds
    /\ up' = "quitting"
    /\ UNCHANGED <<memory, revision, writtenRevision, flushes, quiet, ceiling, disk, aged, settled,
                   refusals, ends>>

(* A crash, or the end of a quit.                                          *)
End ==
    /\ up # "down"
    /\ ends < MaxEnds
    /\ ends' = ends + 1
    /\ up' = "down"
    /\ flushes' = <<>>
    /\ StopWatching
    /\ UNCHANGED <<memory, revision, writtenRevision, disk, aged, settled, refusals>>

NothingWrittenYet == writtenRevision' = 0

(* openUsageStore: what the launch prunes is still owed to the disk.        *)
Launch ==
    /\ up = "down"
    /\ up' = "up"
    /\ memory' = Kept(disk)
    /\ revision' = IF Kept(disk) = disk THEN 0 ELSE 1
    /\ NothingWrittenYet
    /\ settled' = disk
    /\ UNCHANGED <<flushes, quiet, ceiling, disk, aged, refusals, ends>>

LedgerInit ==
    /\ up = "up"
    /\ memory = {}
    /\ revision = 0
    /\ writtenRevision = 0
    /\ flushes = <<>>
    /\ quiet = FALSE /\ ceiling = FALSE
    /\ disk = {}
    /\ aged = {}
    /\ settled = {}
    /\ refusals = 0 /\ ends = 0

FlushSteps == \E n \in 1..Len(flushes) : BeginFlush(n) \/ Snapshot(n) \/ Rename(n)

LedgerNext ==
    \/ \E row \in Rows : Accrue(row) \/ Age(row)
    \/ QuietFires \/ CeilingFires \/ StatesChanged
    \/ FlushSteps
    \/ \E n \in 1..Len(flushes) : WriteRefused(n)
    \/ Quit \/ End \/ Launch

(* The disk answers and the ceiling fires.  Rows settling may keep the quiet *)
(* from ever coming, so nothing is assumed of its timer.                    *)
LedgerFairness == WF_ledgerVars(FlushSteps) /\ WF_ledgerVars(CeilingFires)

LedgerSpec == LedgerInit /\ [][LedgerNext]_ledgerVars /\ LedgerFairness

-----------------------------------------------------------------------------
(* Properties.                                                             *)

(* Every variable keeps its type, and no write covers rows yet to settle.   *)
LedgerTypeOK ==
    /\ up \in {"up", "quitting", "down"}
    /\ memory \in SUBSET Rows /\ disk \in SUBSET Rows
    /\ aged \in SUBSET Rows /\ settled \in SUBSET Rows
    /\ revision \in Nat /\ writtenRevision \in 0..revision
    /\ flushes \in Seq(Flush)
    /\ quiet \in BOOLEAN /\ ceiling \in BOOLEAN
    /\ refusals \in 0..MaxRefusals /\ ends \in 0..MaxEnds

(* A row that settled while the disk was busy stays in the readings         *)
(* (usage-store.ts, the revision's doc).                                   *)
NoSettledRowIsDropped == up # "down" => Kept(settled) \subseteq memory

(* A ledger that reads as written is written: no row waits for a flush that  *)
(* would find nothing to do.                                               *)
WrittenMeansOnDisk == up # "down" /\ revision = writtenRevision => Kept(memory) \subseteq disk

(* The disk never goes back to an older snapshot: a row once written leaves  *)
(* only by age ("Queueing is what makes the last rename the newest          *)
(* snapshot", writing-in-turn.ts).                                         *)
TheDiskNeverGoesBack == [][Kept(disk) \subseteq disk' \cup aged']_ledgerVars

(* A row reaches the disk though rows never stop settling, where the disk    *)
(* takes what it is given and the process lasts.                           *)
EveryRowIsWritten ==
    \A row \in Rows : row \in settled ~> row \in disk \cup aged

(* A quit leaves nothing unwritten ("immediately on flushNow for quit and   *)
(* interrupt", usage-store.ts).                                            *)
(* The code departs from this (README, Departures).                        *)
AQuitLosesNothing ==
    [][up = "quitting" /\ up' = "down" /\ refusals = 0 => Kept(memory) \subseteq disk]_ledgerVars

=============================================================================
