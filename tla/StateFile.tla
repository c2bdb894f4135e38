------------------------------ MODULE StateFile ------------------------------
(***************************************************************************)
(* The state file: Load with the quarantine of a damaged file, Save step   *)
(* by step through a temporary file, the cuts of the history, and what a   *)
(* dying process, a power failure and other programs do to the directory.  *)
(*                                                                         *)
(* Of the state only the history is kept, as the numbers of the runs in it. *)
(* All steps of the plugin are under persistMu and follow one another.     *)
(***************************************************************************)
EXTENDS Naturals, Sequences

CONSTANTS
    Limit,      \* the values of history_limit
    LoadLimit,  \* the limit Load cuts to, 300 in the code
    Time,       \* the clock of the names of quarantined files
    Tries,      \* how many names quarantine tries, 100 in the code
    MaxRuns,    \* bound on recorded runs
    MaxDamages, \* bound on changes by other programs
    MaxCrashes  \* bound on the deaths of the process

ASSUME StateFileAssumption ==
    /\ Limit \subseteq Nat \ {0}
    /\ LoadLimit \in Nat \ {0}
    /\ Tries \in Nat
    /\ MaxRuns \in Nat
    /\ MaxDamages \in Nat
    /\ MaxCrashes \in Nat

VARIABLES
    pc,        \* what the plugin is doing
    limit,     \* cfg.HistoryLimit
    memory,    \* p.state.History
    try,       \* the loop counter of quarantine
    temp,      \* the temporary file of the save under way
    disk,      \* the state file and the quarantined files
    durable,   \* the same after a power failure
    runs,      \* how many runs were recorded
    damages,   \* how often another program changed the state file
    crashes,   \* how often the process died
    litter,    \* whether a dead process has left a temporary file, for good
    acked,     \* history: the runs whose save succeeded and must be found again
    safe,      \* history: those that must be found after a power failure
    kept,      \* history: the damaged files that were quarantined
    cuts       \* history: the limits that have dropped runs since

vars == <<pc, limit, memory, try, temp, disk, durable, runs, damages,
          crashes, litter, acked, safe, kept, cuts>>

counters == <<runs, damages, crashes, litter>>
process == <<limit, memory, try, temp>>
found == <<acked, safe, kept, cuts>>

-----------------------------------------------------------------------------
(* Contents of files *)

File(form, history, id) == [form |-> form, history |-> history, id |-> id]
Absent == File("absent", <<>>, 0)
State(history) == File("state", history, 0)
Torn == File("torn", <<>>, 0)
Damaged == {File(form, <<>>, damages + 1) : form \in {"corrupt", "newer"}}

FileType == [form : {"absent", "state", "corrupt", "newer", "torn"},
             history : Seq(Nat), id : Nat]

TempFile == [content : {"none", "empty", "state"}, synced : BOOLEAN]
NoTemp == [content |-> "none", synced |-> FALSE]

BackupName == Time \X (0..Tries)

Directory == [file : FileType, backups : [BackupName -> FileType]]

Runs(history) == {history[i] : i \in 1..Len(history)}

(* Mutant: the cut goes one entry too deep.                                *)
CutTooDeep(history, n) ==
    IF Len(history) > n THEN SubSeq(history, Len(history) - n + 2, Len(history))
                        ELSE history
Cut(history, n) ==
    IF Len(history) > n THEN SubSeq(history, Len(history) - n + 1, Len(history))
                        ELSE history

(* The limit, if it drops runs of the history.                             *)
Dropping(history, n) == IF Len(history) > n THEN {n} ELSE {}

(* Mutant: the history grows until the next Load.                          *)
AppendUncut(history, run, n) == Append(history, run)
AppendHistory(history, run, n) == Cut(Append(history, run), n)

Init ==
    /\ pc = "down"
    /\ limit \in Limit
    /\ memory = <<>>
    /\ try = 0
    /\ temp = NoTemp
    /\ disk = [file |-> Absent, backups |-> [name \in BackupName |-> Absent]]
    /\ durable = disk
    /\ runs = 0
    /\ damages = 0
    /\ crashes = 0
    /\ litter = FALSE
    /\ acked = {}
    /\ safe = {}
    /\ kept = {}
    /\ cuts = {}

At(step) == pc = step
GoTo(step) == pc' = step

-----------------------------------------------------------------------------
(* Load, and configure around it *)

Configure ==
    /\ pc \in {"down", "idle"}
    /\ limit' \in Limit
    /\ GoTo("load")
    /\ UNCHANGED <<memory, try, temp, disk, durable, counters, found>>

(* The file is the only evidence of a run that no longer counts as saved,   *)
(* and of a damaged file that no longer counts as kept.                    *)
Unprotected ==
    /\ acked' = {}
    /\ safe' = {}
    /\ kept' = kept \ {disk.file.id}
    /\ cuts' = {}

LoadState ==
    /\ At("load")
    /\ disk.file.form \in {"absent", "state"}
    /\ LET loaded == Cut(disk.file.history, LoadLimit)
       IN  /\ memory' = Cut(loaded, limit)
           /\ cuts' = cuts \cup Dropping(disk.file.history, LoadLimit)
                           \cup Dropping(loaded, limit)
    /\ GoTo("idle")
    /\ UNCHANGED <<limit, try, temp, disk, durable, counters, acked, safe, kept>>

(* A file that cannot be read, or of a newer version, is left where it is:  *)
(* the next save will replace it.                                          *)
LoadFails ==
    /\ At("load")
    /\ disk.file.form # "absent"
    /\ memory' = <<>>
    /\ GoTo("idle")
    /\ Unprotected
    /\ UNCHANGED <<limit, try, temp, disk, durable, counters>>

LoadCorrupt ==
    /\ At("load")
    /\ disk.file.form \in {"corrupt", "torn"}
    /\ try' = 0
    /\ GoTo("quarantine")
    /\ UNCHANGED <<limit, memory, temp, disk, durable, counters, found>>

(* Mutant: a name that is taken is used again.                             *)
AnyName(name) == TRUE
IsUnused(name) == disk.backups[name] = Absent

(* One try: the name is taken, the file is moved to it, or the move fails.  *)
NextTry ==
    /\ try' = try + 1
    /\ UNCHANGED <<pc, memory, disk, kept>>

MoveAway(name) ==
    /\ disk' = [disk EXCEPT !.file = Absent, !.backups[name] = disk.file]
    /\ kept' = kept \cup {disk.file.id}
    /\ memory' = <<>>
    /\ GoTo("idle")
    /\ UNCHANGED try

Quarantine ==
    /\ At("quarantine")
    /\ try < Tries
    /\ \E now \in Time :
          \/ NextTry
          \/ IsUnused(<<now, try>>) /\ MoveAway(<<now, try>>)
    /\ UNCHANGED <<limit, temp, durable, counters, acked, safe, cuts>>

GiveUp ==
    /\ At("quarantine")
    /\ try = Tries
    /\ memory' = <<>>
    /\ GoTo("idle")
    /\ Unprotected
    /\ UNCHANGED <<limit, try, temp, disk, durable, counters>>

-----------------------------------------------------------------------------
(* Save *)

(* The end of a run; an edit saves the state as it is.                     *)
Record ==
    /\ At("idle")
    /\ runs < MaxRuns
    /\ runs' = runs + 1
    /\ memory' = AppendHistory(memory, runs + 1, limit)
    /\ cuts' = cuts \cup Dropping(Append(memory, runs + 1), limit)
    /\ GoTo("create")
    /\ UNCHANGED <<limit, try, temp, disk, durable, damages, crashes, litter,
                   acked, safe, kept>>

Edit ==
    /\ At("idle")
    /\ GoTo("create")
    /\ UNCHANGED <<process, disk, durable, counters, found>>

(* Directory and temporary file; without one there is nothing to remove.   *)
Create ==
    /\ At("create")
    /\ \/ GoTo("idle") /\ UNCHANGED temp
       \/ GoTo("encode") /\ temp' = [content |-> "empty", synced |-> FALSE]
    /\ UNCHANGED <<limit, memory, try, disk, durable, counters, found>>

(* Chmod and Encode; a failure of either ends in the removal.              *)
Encode ==
    /\ At("encode")
    /\ \/ GoTo("remove") /\ UNCHANGED temp
       \/ GoTo("sync") /\ temp' = [content |-> "state", synced |-> FALSE]
    /\ UNCHANGED <<limit, memory, try, disk, durable, counters, found>>

(* Mutant: the data stay in the cache of the system.                       *)
SyncLater == UNCHANGED temp
SyncNow == temp' = [temp EXCEPT !.synced = TRUE]

(* Sync and Close.                                                         *)
Sync ==
    /\ At("sync")
    /\ \/ GoTo("remove") /\ UNCHANGED temp
       \/ GoTo("rename") /\ SyncNow
    /\ UNCHANGED <<limit, memory, try, disk, durable, counters, found>>

(* The state is normalised before it is encoded.                           *)
Snapshot == State(Cut(memory, limit))

(* What the temporary file comes to after a power failure is certain only   *)
(* when it was synced.                                                     *)
OnDisk == IF temp.synced THEN {Snapshot} ELSE {Snapshot, Torn}

(* The rename may reach the device now or with a later Flush.              *)
Rename ==
    /\ At("rename")
    /\ GoTo("remove")
    /\ \/ UNCHANGED <<temp, disk, durable, acked, safe, cuts>>
       \/ /\ temp' = NoTemp
          /\ disk' = [disk EXCEPT !.file = Snapshot]
          /\ acked' = acked \cup Runs(Snapshot.history)
          /\ cuts' = cuts \cup Dropping(memory, limit)
          /\ \/ UNCHANGED <<durable, safe>>
             \/ /\ \E content \in OnDisk : durable' = [disk EXCEPT !.file = content]
                /\ safe' = acked'
    /\ UNCHANGED <<limit, memory, try, counters, kept>>

(* Mutant: the temporary file is left.                                     *)
RemoveNothing ==
    /\ At("remove")
    /\ GoTo("idle")
    /\ UNCHANGED <<process, disk, durable, counters, found>>

(* The deferred removal; after a rename it finds nothing.                  *)
Remove ==
    /\ At("remove")
    /\ temp' = NoTemp
    /\ GoTo("idle")
    /\ UNCHANGED <<limit, memory, try, disk, durable, counters, found>>

-----------------------------------------------------------------------------
(* The environment *)

(* The system writes the directory back; what it writes was synced, or is   *)
(* on the device by then.                                                  *)
Flush ==
    /\ durable # disk
    /\ durable' = disk
    /\ safe' = acked
    /\ UNCHANGED <<pc, process, disk, counters, acked, kept, cuts>>

(* The deferred removal of a save under way does not run.                  *)
Die ==
    /\ pc # "down"
    /\ crashes < MaxCrashes
    /\ crashes' = crashes + 1
    /\ GoTo("down")
    /\ memory' = <<>>
    /\ try' = 0
    /\ temp' = NoTemp
    /\ litter' = (litter \/ temp # NoTemp)
    /\ UNCHANGED <<limit, durable, runs, damages>>

Crash == Die /\ UNCHANGED <<disk, found>>

(* What was not on the device is undone, saves included.                   *)
PowerFailure ==
    /\ Die
    /\ disk' = durable
    /\ acked' = safe
    /\ UNCHANGED <<safe, kept, cuts>>

(* Another program damages the file, or a newer version writes it.         *)
Damage ==
    /\ damages < MaxDamages
    /\ damages' = damages + 1
    /\ \E content \in Damaged : disk' = [disk EXCEPT !.file = content]
    /\ durable' = disk'
    /\ Unprotected
    /\ UNCHANGED <<pc, process, runs, crashes, litter>>

Next ==
    \/ Configure \/ LoadState \/ LoadFails \/ LoadCorrupt \/ Quarantine \/ GiveUp
    \/ Record \/ Edit \/ Create \/ Encode \/ Sync \/ Rename \/ Remove
    \/ Flush \/ Crash \/ PowerFailure \/ Damage

Spec == Init /\ [][Next]_vars

-----------------------------------------------------------------------------
(* Properties *)

\* Every variable has its type, and a living process has a temporary file only
\* during a save.
TypeOK ==
    /\ pc \in {"down", "load", "quarantine", "idle", "create", "encode", "sync",
               "rename", "remove"}
    /\ limit \in Limit
    /\ memory \in Seq(Nat)
    /\ try \in 0..Tries
    /\ temp \in TempFile
    /\ temp # NoTemp => pc \in {"encode", "sync", "rename", "remove"}
    /\ disk \in Directory
    /\ durable \in Directory
    /\ runs \in Nat
    /\ damages \in Nat
    /\ crashes \in Nat
    /\ litter \in BOOLEAN
    /\ acked \subseteq Nat
    /\ safe \subseteq Nat
    /\ kept \subseteq Nat
    /\ cuts \subseteq Limit \cup {LoadLimit}

\* Neither a death of the process nor a power failure at any step of a save leaves a
\* half-written state file (Sync before Rename).
NothingTorn == disk.file.form # "torn" /\ durable.file.form # "torn"

\* A damaged file that was quarantined stays, whatever is quarantined after it, until
\* a power failure has put it back in its place, where a later Load that cannot move
\* it again gives it up.
Holds(d, i) ==
    d.file.id = i \/ \E name \in BackupName : d.backups[name].id = i

DamagedFilesAreKept == \A i \in kept : Holds(disk, i) /\ Holds(durable, i)

(* A run may be missing when a limit that has dropped runs is filled with     *)
(* later ones.                                                              *)
KeptWith(limits, history, run) ==
    \/ run \in Runs(history)
    \/ \E n \in limits : Len(history) >= n /\ run < history[Len(history) - n + 1]

IsKept(history, run) == KeptWith(cuts, history, run)

\* A run whose save succeeded is in the file, through failed saves, reconfigurations
\* with other limits and deaths of the process, until as many later runs have taken
\* its place as the smallest limit that has cut the history since allows; the same of
\* a power failure, for the runs the device had.  Only another program, or a file that
\* cannot be read, takes them away.
SavedRunsSurvive ==
    /\ \A run \in acked : IsKept(disk.file.history, run)
    /\ \A run \in safe : IsKept(durable.file.history, run)

\* Memory and file list runs in the order they ended, none twice, and never more than
\* the limit in force allows.
Increasing(history) == \A i, j \in 1..Len(history) : i < j => history[i] < history[j]

HistoryIsOrdered ==
    /\ \A history \in {memory, disk.file.history, durable.file.history} :
          Increasing(history) /\ Runs(history) \subseteq 1..runs
    /\ pc \notin {"down", "load", "quarantine"} => Len(memory) <= limit
=============================================================================
