--------------------------- MODULE StateFileProofs ---------------------------
(***************************************************************************)
(* The state file: no half-written file, no damaged file lost, no saved run *)
(* lost, for any limits, any clock and any number of runs and failures.    *)
(***************************************************************************)
EXTENDS StateFile, TLAPS

(* The file holds a history only if it holds a state, and the rename comes  *)
(* after the sync.                                                         *)
Forms ==
    /\ \A d \in {disk, durable} : d.file.form # "state" => d.file.history = <<>>
    /\ pc = "quarantine" => disk.file.form # "state"
    /\ pc = "rename" => temp.synced

(* Damaged files are numbered from one, other files have no number; a file   *)
(* that a save replaces, or that is moved away, is not the only evidence.  *)
IsDamaged(file) == file.form \in {"corrupt", "newer"}

Numbers ==
    /\ kept \subseteq 1..damages
    /\ \A d \in {disk, durable} :
          /\ IsDamaged(d.file) => d.file.id \in 1..damages
          /\ ~IsDamaged(d.file) => d.file.id = 0
    /\ IsDamaged(disk.file) => Holds(durable, disk.file.id)
    /\ pc = "quarantine" => IsDamaged(disk.file)
    /\ pc \notin {"down", "load", "quarantine"} => disk.file.id \notin kept

(* Once the state is loaded, memory has what the file must keep.           *)
Remembered ==
    pc \notin {"down", "load", "quarantine"} =>
        \A run \in acked : IsKept(memory, run)

Inv == TypeOK /\ Forms /\ Numbers /\ Remembered /\ NothingTorn /\ DamagedFilesAreKept
       /\ SavedRunsSurvive /\ HistoryIsOrdered

-----------------------------------------------------------------------------
(* Histories *)

(* Cut keeps the end of a history.                                         *)
LEMMA CutTail ==
    ASSUME NEW s \in Seq(Nat), NEW n \in Nat \ {0}
    PROVE  /\ Cut(s, n) \in Seq(Nat)
           /\ Len(Cut(s, n)) = IF Len(s) > n THEN n ELSE Len(s)
           /\ \A i \in 1..Len(Cut(s, n)) : Cut(s, n)[i] = s[Len(s) - Len(Cut(s, n)) + i]
<1>1. CASE Len(s) > n
  <2>1. /\ Len(s) - n + 1 \in 1..Len(s) /\ Len(s) \in 1..Len(s)
        /\ Len(s) - (Len(s) - n + 1) + 1 = n
    BY <1>1
  <2>2. Cut(s, n) = SubSeq(s, Len(s) - n + 1, Len(s))
    BY <1>1 DEF Cut
  <2> QED
    BY <1>1, <2>1, <2>2
<1>2. CASE ~(Len(s) > n)
  BY <1>2 DEF Cut
<1> QED
  BY <1>1, <1>2

LEMMA CutOrder ==
    ASSUME NEW s \in Seq(Nat), NEW n \in Nat \ {0}, Increasing(s)
    PROVE  /\ Increasing(Cut(s, n))
           /\ Runs(Cut(s, n)) \subseteq Runs(s)
<1> DEFINE c == Cut(s, n)
           d == Len(s) - Len(c)
<1>1. /\ c \in Seq(Nat) /\ Len(c) \in Nat /\ Len(s) \in Nat /\ d \in Nat
      /\ \A i \in 1..Len(c) : c[i] = s[d + i] /\ d + i \in 1..Len(s)
  BY CutTail
<1> HIDE DEF c, d
<1>2. Increasing(c)
  BY <1>1 DEF Increasing
<1>3. Runs(c) \subseteq Runs(s)
  BY <1>1 DEF Runs
<1> QED
  BY <1>2, <1>3 DEF c

(* What is kept stays kept by a cut, if the cut counts, and by a longer list. *)
LEMMA MoreCuts ==
    ASSUME NEW C, NEW D, C \subseteq D, NEW s, NEW run, KeptWith(C, s, run)
    PROVE  KeptWith(D, s, run)
  BY DEF KeptWith

LEMMA CutKeeps ==
    ASSUME NEW s \in Seq(Nat), Increasing(s), NEW n \in Nat \ {0},
           NEW C \in SUBSET (Nat \ {0}), NEW run \in Nat, KeptWith(C, s, run)
    PROVE  KeptWith(C \cup Dropping(s, n), Cut(s, n), run)
<1> DEFINE c == Cut(s, n)
           d == Len(s) - Len(c)
           D == C \cup Dropping(s, n)
<1>1. n \in Nat \ {0} /\ \A m \in C : m \in Nat \ {0} /\ m \in D
  OBVIOUS
<1>2. /\ c \in Seq(Nat) /\ Len(c) \in Nat /\ Len(s) \in Nat /\ d \in Nat
      /\ Len(c) = IF Len(s) > n THEN n ELSE Len(s)
      /\ \A i \in 1..Len(c) : c[i] = s[d + i]
      /\ \A i \in 1..Len(s) : s[i] \in Nat
  BY <1>1, CutTail
<1>3. Len(s) > n => n \in D
  BY DEF Dropping
<1> HIDE DEF c, D
<1>4. ASSUME NEW m \in D, Len(c) >= m, run < c[Len(c) - m + 1]
      PROVE  KeptWith(D, c, run)
  BY <1>4 DEF KeptWith
<1>5. ASSUME Len(s) <= n PROVE KeptWith(D, c, run)
  <2>1. c = s
    BY <1>1, <1>2, <1>5 DEF c, Cut
  <2> QED
    BY <1>1, <2>1 DEF KeptWith
<1>6. ASSUME Len(s) > n PROVE KeptWith(D, c, run)
  <2>1. Len(c) = n /\ d = Len(s) - n /\ c[1] = s[d + 1] /\ d + 1 \in 1..Len(s)
    BY <1>1, <1>2, <1>6
  <2> HIDE DEF d
  <2>2. ASSUME NEW i \in 1..Len(s), i <= d, run <= s[i] PROVE KeptWith(D, c, run)
    <3>1. s[i] < s[d + 1]
      <4>1. i < d + 1
        BY <1>2, <2>2
      <4> QED
        BY <2>1, <4>1 DEF Increasing
    <3>2. run < c[Len(c) - n + 1] /\ Len(c) >= n
      BY <1>1, <1>2, <2>1, <2>2, <3>1
    <3> QED
      BY <1>3, <1>4, <1>6, <3>2
  <2>3. CASE run \in Runs(s)
    <3>1. PICK i \in 1..Len(s) : run = s[i]
      BY <2>3 DEF Runs
    <3>2. CASE i > d
      <4>1. i - d \in 1..Len(c) /\ d + (i - d) = i
        BY <1>1, <1>2, <2>1, <3>1, <3>2
      <4>2. c[i - d] = run
        BY <1>2, <3>1, <4>1
      <4> QED
        BY <4>1, <4>2 DEF KeptWith, Runs
    <3>3. CASE i <= d
      BY <2>2, <3>1, <3>3
    <3> QED
      BY <1>2, <3>2, <3>3
  <2>4. ASSUME NEW m \in C, Len(s) >= m, run < s[Len(s) - m + 1]
        PROVE  KeptWith(D, c, run)
    <3>1. CASE m <= n
      <4>1. /\ n - m + 1 \in 1..Len(c) /\ d + (n - m + 1) = Len(s) - m + 1
            /\ Len(c) >= m
        BY <1>1, <1>2, <2>1, <3>1
      <4>2. c[n - m + 1] = s[Len(s) - m + 1]
        <5>1. c[n - m + 1] = s[d + (n - m + 1)]
          BY <1>2, <4>1
        <5> QED
          BY <4>1, <5>1
      <4>3. run < c[Len(c) - m + 1]
        BY <2>1, <2>4, <4>2
      <4> QED
        BY <1>1, <1>4, <2>4, <4>1, <4>3
    <3>2. CASE m > n
      <4>1. Len(s) - m + 1 \in 1..Len(s) /\ Len(s) - m + 1 <= d
        BY <1>1, <1>2, <2>1, <2>4, <3>2
      <4>2. run <= s[Len(s) - m + 1]
        BY <1>2, <2>4, <4>1
      <4> QED
        BY <2>2, <4>1, <4>2
    <3> QED
      BY <1>1, <3>1, <3>2
  <2> QED
    BY <2>3, <2>4 DEF KeptWith
<1>7. KeptWith(D, c, run)
  BY <1>1, <1>2, <1>5, <1>6
<1> QED
  BY <1>7 DEF c, D

LEMMA AppendOrder ==
    ASSUME NEW s \in Seq(Nat), Increasing(s), NEW r \in Nat, Runs(s) \subseteq 1..r
    PROVE  /\ Append(s, r + 1) \in Seq(Nat)
           /\ Increasing(Append(s, r + 1))
           /\ Runs(Append(s, r + 1)) \subseteq 1..(r + 1)
<1> DEFINE a == Append(s, r + 1)
<1>1. /\ a \in Seq(Nat) /\ Len(s) \in Nat /\ Len(a) = Len(s) + 1
      /\ a[Len(s) + 1] = r + 1
      /\ \A i \in 1..Len(s) : a[i] = s[i]
  OBVIOUS
<1>2. \A i \in 1..Len(s) : s[i] \in 1..r
  BY DEF Runs
<1> HIDE DEF a
<1>3. Increasing(a)
  <2>1. ASSUME NEW i \in 1..Len(a), NEW j \in 1..Len(a), i < j PROVE a[i] < a[j]
    <3>1. i \in 1..Len(s) /\ a[i] = s[i] /\ s[i] \in 1..r
      BY <1>1, <1>2, <2>1
    <3>2. CASE j = Len(s) + 1
      BY <1>1, <3>1, <3>2
    <3>3. CASE j \in 1..Len(s)
      BY <1>1, <2>1, <3>1, <3>3 DEF Increasing
    <3> QED
      BY <1>1, <3>2, <3>3
  <2> QED
    BY <2>1 DEF Increasing
<1>4. Runs(a) \subseteq 1..(r + 1)
  BY <1>1, <1>2 DEF Runs
<1> QED
  BY <1>1, <1>3, <1>4 DEF a

LEMMA AppendKeeps ==
    ASSUME NEW s \in Seq(Nat), Increasing(s), NEW r \in Nat, Runs(s) \subseteq 1..r,
           NEW C \in SUBSET (Nat \ {0}), NEW run \in Nat, KeptWith(C, s, run)
    PROVE  KeptWith(C, Append(s, r + 1), run)
<1> DEFINE a == Append(s, r + 1)
<1>1. /\ a \in Seq(Nat) /\ Len(s) \in Nat /\ Len(a) = Len(s) + 1
      /\ a[Len(s) + 1] = r + 1
      /\ \A i \in 1..Len(s) : a[i] = s[i]
  OBVIOUS
<1>2. \A m \in C : m \in Nat \ {0}
  OBVIOUS
<1>3. Increasing(a) /\ \A i \in 1..Len(a) : a[i] \in Nat
  BY <1>1, AppendOrder
<1> HIDE DEF a
<1>4. ASSUME run \in Runs(s) PROVE KeptWith(C, a, run)
  <2>1. PICK i \in 1..Len(s) : run = s[i]
    BY <1>4 DEF Runs
  <2>2. i \in 1..Len(a) /\ run = a[i]
    BY <1>1, <2>1
  <2> QED
    BY <2>2 DEF KeptWith, Runs
<1>5. ASSUME NEW m \in C, Len(s) >= m, run < s[Len(s) - m + 1]
      PROVE  KeptWith(C, a, run)
  <2>1. /\ Len(s) - m + 1 \in 1..Len(s) /\ Len(s) - m + 1 \in 1..Len(a)
        /\ Len(a) - m + 1 \in 1..Len(a) /\ Len(a) >= m
        /\ Len(s) - m + 1 < Len(a) - m + 1
    BY <1>1, <1>2, <1>5
  <2>2. run < a[Len(s) - m + 1]
    BY <1>1, <1>5, <2>1
  <2>3. a[Len(s) - m + 1] < a[Len(a) - m + 1]
    BY <1>3, <2>1 DEF Increasing
  <2>4. a[Len(s) - m + 1] \in Nat /\ a[Len(a) - m + 1] \in Nat
    BY <1>3, <2>1
  <2>5. run < a[Len(a) - m + 1]
    BY <2>2, <2>3, <2>4
  <2>6. \E k \in C : Len(a) >= k /\ run < a[Len(a) - k + 1]
    BY <2>1, <2>5
  <2> QED
    BY <2>6 DEF KeptWith
<1> QED
  BY <1>4, <1>5 DEF KeptWith, a

(* An empty history keeps nothing.                                         *)
LEMMA EmptyHistory ==
    /\ <<>> \in Seq(Nat) /\ Len(<<>>) = 0
    /\ Increasing(<<>>) /\ Runs(<<>>) = {}
    /\ \A C \in SUBSET (Nat \ {0}) : \A run : ~KeptWith(C, <<>>, run)
<1>1. \A C \in SUBSET (Nat \ {0}) : \A m \in C : m \in Nat \ {0}
  OBVIOUS
<1> QED
  BY <1>1 DEF Increasing, Runs, KeptWith

-----------------------------------------------------------------------------
(* Types *)

LEMMA Contents ==
    /\ Absent \in FileType /\ Torn \in FileType
    /\ Absent.form = "absent" /\ Absent.history = <<>> /\ Absent.id = 0
    /\ Torn.form = "torn"
    /\ \A h \in Seq(Nat) : /\ State(h) \in FileType
                           /\ State(h).form = "state"
                           /\ State(h).history = h
                           /\ State(h).id = 0
  BY EmptyHistory DEF Absent, Torn, State, File, FileType

LEMMA SnapshotType ==
    ASSUME TypeOK
    PROVE  /\ limit \in Nat \ {0} /\ LoadLimit \in Nat \ {0}
           /\ cuts \in SUBSET (Nat \ {0})
           /\ \A s : /\ Dropping(s, limit) \subseteq Limit
                    /\ Dropping(s, LoadLimit) \subseteq {LoadLimit}
           /\ Cut(memory, limit) \in Seq(Nat)
           /\ Snapshot = State(Cut(memory, limit)) /\ Snapshot \in FileType
  BY StateFileAssumption, CutTail, Contents DEF TypeOK, Dropping, Snapshot

LEMMA DamagedTypes ==
    ASSUME TypeOK, NEW content \in Damaged
    PROVE  /\ content \in FileType
           /\ content.form \in {"corrupt", "newer"}
           /\ content.history = <<>>
<1>1. PICK form \in {"corrupt", "newer"} : content = File(form, <<>>, damages + 1)
  BY DEF Damaged
<1>2. damages + 1 \in Nat
  BY DEF TypeOK
<1> QED
  BY <1>1, <1>2, EmptyHistory DEF File, FileType

LEMMA DirectoryUpdate ==
    ASSUME NEW d \in Directory, NEW f \in FileType
    PROVE  /\ [d EXCEPT !.file = f] \in Directory
           /\ [d EXCEPT !.file = f].file = f
           /\ [d EXCEPT !.file = f].backups = d.backups
  BY DEF Directory

LEMMA BackupUpdate ==
    ASSUME NEW d \in Directory, NEW name \in BackupName
    PROVE  LET moved == [d EXCEPT !.file = Absent, !.backups[name] = d.file]
           IN  /\ moved \in Directory
               /\ moved.file = Absent
               /\ moved.backups = [d.backups EXCEPT ![name] = d.file]
  BY Contents DEF Directory

LEMMA RenameTypes ==
    ASSUME TypeOK, Rename
    PROVE  disk' \in Directory /\ durable' \in Directory /\ acked' \subseteq Nat
           /\ safe' \subseteq Nat /\ cuts' \subseteq Limit \cup {LoadLimit}
<1>1. Snapshot \in FileType /\ Cut(memory, limit) \in Seq(Nat)
      /\ Snapshot.history = Cut(memory, limit)
  BY SnapshotType, Contents
<1>2. Runs(Snapshot.history) \subseteq Nat
  BY <1>1 DEF Runs
<1>3. \A content \in OnDisk : content \in FileType
  BY <1>1, Contents DEF OnDisk
<1>4. [disk EXCEPT !.file = Snapshot] \in Directory
  BY <1>1, DirectoryUpdate DEF TypeOK
<1>5. \A content \in OnDisk : [disk EXCEPT !.file = content] \in Directory
  BY <1>3, DirectoryUpdate DEF TypeOK
<1>6. cuts' \subseteq Limit \cup {LoadLimit}
  BY SnapshotType DEF Rename, TypeOK
<1> QED
  BY <1>2, <1>4, <1>5, <1>6 DEF TypeOK, Rename

LEMMA TempTypes ==
    /\ NoTemp \in TempFile
    /\ [content |-> "empty", synced |-> FALSE] \in TempFile
    /\ [content |-> "state", synced |-> FALSE] \in TempFile
    /\ \A t \in TempFile : [t EXCEPT !.synced = TRUE] \in TempFile
                         /\ [t EXCEPT !.synced = TRUE].synced
  BY DEF NoTemp, TempFile

LEMMA TypeStep ==
    ASSUME TypeOK, [Next]_vars
    PROVE  TypeOK'
<1> USE DEF TypeOK, At, GoTo
<1>0. <<>> \in Seq(Nat) /\ 0 \in Nat
  BY EmptyHistory
<1>1. CASE Configure
  BY <1>1 DEF Configure, counters, found
<1>2. CASE LoadState
  <2>1. disk.file.history \in Seq(Nat)
    BY DEF Directory, FileType
  <2>2. memory' \in Seq(Nat)
    BY <1>2, <2>1, SnapshotType, CutTail DEF LoadState
  <2>3. cuts' \subseteq Limit \cup {LoadLimit}
    BY <1>2, SnapshotType DEF LoadState
  <2> QED
    BY <1>2, <2>2, <2>3 DEF LoadState, counters
<1>3. CASE LoadFails
  BY <1>0, <1>3 DEF LoadFails, Unprotected, counters
<1>4. CASE LoadCorrupt
  BY <1>4, StateFileAssumption DEF LoadCorrupt, counters, found
<1>5. CASE Quarantine
  <2>1. disk.file.id \in Nat
    BY DEF Directory, FileType
  <2>2. PICK now \in Time :
            NextTry \/ (IsUnused(<<now, try>>) /\ MoveAway(<<now, try>>))
    BY <1>5 DEF Quarantine
  <2>3. <<now, try>> \in BackupName
    BY DEF BackupName
  <2>4. CASE NextTry
    BY <1>5, <2>4, StateFileAssumption DEF NextTry, Quarantine, counters
  <2>5. CASE MoveAway(<<now, try>>)
    <3>1. disk' \in Directory
      BY <2>3, <2>5, BackupUpdate DEF MoveAway
    <3> QED
      BY <1>0, <1>5, <2>1, <2>5, <3>1 DEF MoveAway, Quarantine, counters
  <2> QED
    BY <2>2, <2>4, <2>5
<1>6. CASE GiveUp
  BY <1>0, <1>6 DEF GiveUp, Unprotected, counters
<1>7. CASE Record
  <2>1. Append(memory, runs + 1) \in Seq(Nat)
    OBVIOUS
  <2>2. memory' \in Seq(Nat)
    BY <1>7, <2>1, SnapshotType, CutTail DEF Record, AppendHistory
  <2>3. cuts' \subseteq Limit \cup {LoadLimit}
    BY <1>7, SnapshotType DEF Record
  <2> QED
    BY <1>7, <2>2, <2>3 DEF Record
<1>8. CASE Edit
  BY <1>8 DEF Edit, process, counters, found
<1>9. CASE Create
  BY <1>9, TempTypes DEF Create, counters, found
<1>10. CASE Encode
  BY <1>10, TempTypes DEF Encode, counters, found
<1>11. CASE Sync
  BY <1>11, TempTypes DEF Sync, SyncNow, counters, found
<1>12. CASE Rename
  BY <1>12, RenameTypes, TempTypes DEF Rename, counters
<1>13. CASE Remove
  BY <1>13, TempTypes DEF Remove, counters, found
<1>14. CASE Flush
  BY <1>14 DEF Flush, process, counters
<1>15. CASE Crash
  BY <1>0, <1>15, StateFileAssumption, TempTypes DEF Crash, Die, found
<1>16. CASE PowerFailure
  BY <1>0, <1>16, StateFileAssumption, TempTypes DEF PowerFailure, Die
<1>17. CASE Damage
  <2>1. PICK content \in Damaged : disk' = [disk EXCEPT !.file = content]
    BY <1>17 DEF Damage
  <2>2. disk' \in Directory /\ durable' \in Directory
    BY <1>17, <2>1, DamagedTypes, DirectoryUpdate DEF Damage
  <2> QED
    BY <1>17, <2>2 DEF Damage, Unprotected, process
<1>18. CASE UNCHANGED vars
  BY <1>18 DEF vars
<1> QED
  BY <1>1, <1>2, <1>3, <1>4, <1>5, <1>6, <1>7, <1>8, <1>9, <1>10, <1>11, <1>12,
     <1>13, <1>14, <1>15, <1>16, <1>17, <1>18 DEF Next

-----------------------------------------------------------------------------
(* Half-written files *)

LEMMA RenamedFiles ==
    ASSUME TypeOK, Forms, Rename
    PROVE  /\ disk'.file \in {disk.file, Snapshot}
           /\ durable'.file \in {durable.file, Snapshot}
<1>1. Snapshot \in FileType
  BY SnapshotType
<1>2. OnDisk = {Snapshot}
  BY DEF Rename, Forms, OnDisk, At
<1> DEFINE replaced == [disk EXCEPT !.file = Snapshot]
<1>3. replaced.file = Snapshot
  BY <1>1, DirectoryUpdate DEF TypeOK
<1>4. disk' \in {disk, replaced} /\ durable' \in {durable, replaced}
  BY <1>2 DEF Rename
<1> HIDE DEF replaced
<1> QED
  BY <1>3, <1>4

LEMMA FormsStep ==
    ASSUME TypeOK, Forms, NothingTorn, [Next]_vars
    PROVE  Forms' /\ NothingTorn'
<1> USE DEF At, GoTo
<1>1. ASSUME UNCHANGED <<disk, durable>>, pc' \notin {"quarantine", "rename"}
      PROVE  Forms' /\ NothingTorn'
  BY <1>1 DEF Forms, NothingTorn
<1>2. CASE Configure \/ LoadState \/ LoadFails \/ GiveUp \/ Record \/ Edit \/ Create
           \/ Encode \/ Remove
  BY <1>1, <1>2 DEF Configure, LoadState, LoadFails, GiveUp, Record, Edit, Create,
                    Encode, Remove
<1>3. CASE LoadCorrupt
  BY <1>3 DEF LoadCorrupt, Forms, NothingTorn
<1>4. CASE Quarantine
  <2>1. PICK now \in Time :
            NextTry \/ (IsUnused(<<now, try>>) /\ MoveAway(<<now, try>>))
    BY <1>4 DEF Quarantine
  <2>2. CASE NextTry
    BY <1>4, <2>2 DEF NextTry, Quarantine, Forms, NothingTorn
  <2>3. CASE MoveAway(<<now, try>>)
    <3>1. disk'.file = Absent
      BY <1>4, <2>3, BackupUpdate DEF MoveAway, Quarantine, TypeOK, BackupName
    <3>2. pc' = "idle" /\ durable' = durable
      BY <1>4, <2>3 DEF MoveAway, Quarantine
    <3> QED
      BY <3>1, <3>2, Contents DEF Forms, NothingTorn
  <2> QED
    BY <2>1, <2>2, <2>3
<1>5. CASE Sync
  <2>1. pc' = "rename" => temp'.synced
    BY <1>5, TempTypes DEF Sync, SyncNow, TypeOK
  <2> QED
    BY <1>5, <2>1 DEF Sync, Forms, NothingTorn
<1>6. CASE Rename
  <2>1. Snapshot \in FileType /\ Snapshot.form = "state"
    BY SnapshotType, Contents
  <2>3. disk'.file \in {disk.file, Snapshot} /\ durable'.file \in {durable.file, Snapshot}
    BY <1>6, RenamedFiles
  <2>4. pc' = "remove"
    BY <1>6 DEF Rename
  <2> QED
    BY <2>1, <2>3, <2>4 DEF Forms, NothingTorn
<1>7. CASE Flush
  BY <1>7 DEF Flush, process, Forms, NothingTorn
<1>8. CASE Crash \/ PowerFailure
  BY <1>8 DEF Crash, PowerFailure, Die, Forms, NothingTorn
<1>9. CASE Damage
  <2>1. PICK content \in Damaged : disk' = [disk EXCEPT !.file = content]
    BY <1>9 DEF Damage
  <2>2. disk'.file = content /\ durable'.file = content
    BY <1>9, <2>1, DamagedTypes, DirectoryUpdate DEF Damage, TypeOK
  <2> QED
    BY <1>9, <2>2, DamagedTypes DEF Damage, process, Forms, NothingTorn
<1>10. CASE UNCHANGED vars
  BY <1>10 DEF vars, Forms, NothingTorn
<1> QED
  BY <1>2, <1>3, <1>4, <1>5, <1>6, <1>7, <1>8, <1>9, <1>10 DEF Next

-----------------------------------------------------------------------------
(* Damaged files *)

LEMMA NumbersOfContents ==
    /\ ~IsDamaged(Absent) /\ Absent.id = 0
    /\ \A h \in Seq(Nat) : ~IsDamaged(State(h)) /\ State(h).id = 0
    /\ \A content \in Damaged : IsDamaged(content) /\ content.id = damages + 1
  BY DEF IsDamaged, Absent, State, Damaged, File

(* A file that is replaced was not the only one of its number that counts.  *)
LEMMA Replaced ==
    ASSUME NEW d \in Directory, NEW f \in FileType, NEW i, Holds(d, i), d.file.id # i
    PROVE  Holds([d EXCEPT !.file = f], i)
  BY DirectoryUpdate DEF Holds

LEMMA KeptStep ==
    ASSUME Inv, [Next]_vars
    PROVE  Numbers' /\ DamagedFilesAreKept'
<1> USE DEF At, GoTo
<1> TypeOK /\ Numbers /\ DamagedFilesAreKept
  BY DEF Inv
<1>1. ASSUME UNCHANGED <<disk, durable, damages>>, kept' \subseteq kept,
             pc' = "quarantine" => pc = "quarantine",
             pc' \in {"down", "load"}
                 \/ pc \notin {"down", "load", "quarantine"}
                 \/ disk.file.id \notin kept'
      PROVE  Numbers' /\ DamagedFilesAreKept'
  BY <1>1 DEF Numbers, DamagedFilesAreKept, Holds, IsDamaged
<1>2. CASE Configure \/ Record \/ Edit \/ Create \/ Encode \/ Sync \/ Remove
  <2>1. UNCHANGED <<disk, durable, damages, kept>>
    BY <1>2 DEF Configure, Record, Edit, Create, Encode, Sync, Remove, counters, found
  <2>2. pc' # "quarantine"
        /\ (pc' = "load" \/ pc \notin {"down", "load", "quarantine"})
    BY <1>2 DEF Configure, Record, Edit, Create, Encode, Sync, Remove
  <2> QED
    BY <1>1, <2>1, <2>2
<1>3. CASE LoadState
  <2>1. disk.file.id \notin kept
    BY <1>3 DEF LoadState, Numbers, IsDamaged
  <2> QED
    BY <1>1, <1>3, <2>1 DEF LoadState, counters, found
<1>4. CASE LoadFails \/ GiveUp
  BY <1>1, <1>4 DEF LoadFails, GiveUp, Unprotected, counters
<1>5. CASE LoadCorrupt
  <2>1. IsDamaged(disk.file)
    BY <1>5 DEF Inv, LoadCorrupt, NothingTorn, IsDamaged
  <2> QED
    BY <1>5, <2>1 DEF LoadCorrupt, counters, found, Numbers, DamagedFilesAreKept,
                      Holds, IsDamaged
<1>6. CASE Quarantine
  <2>1. PICK now \in Time :
            NextTry \/ (IsUnused(<<now, try>>) /\ MoveAway(<<now, try>>))
    BY <1>6 DEF Quarantine
  <2>2. CASE NextTry
    BY <1>1, <1>6, <2>2 DEF NextTry, Quarantine, counters, Numbers,
                            DamagedFilesAreKept, Holds, IsDamaged
  <2>3. CASE IsUnused(<<now, try>>) /\ MoveAway(<<now, try>>)
    <3> DEFINE name == <<now, try>>
    <3>1. name \in BackupName
      BY <1>6 DEF Quarantine, BackupName, TypeOK
    <3> HIDE DEF name
    <3>2. /\ disk'.file = Absent
          /\ disk'.backups = [disk.backups EXCEPT ![name] = disk.file]
          /\ disk.backups[name] = Absent
          /\ disk.backups \in [BackupName -> FileType]
      BY <2>3, <3>1, BackupUpdate DEF MoveAway, IsUnused, name, TypeOK, Directory
    <3>3. /\ kept' = kept \cup {disk.file.id} /\ pc' = "idle"
          /\ UNCHANGED <<durable, damages>>
      BY <1>6, <2>3 DEF MoveAway, Quarantine, counters
    <3>4. disk.file.id \in 1..damages /\ Holds(durable, disk.file.id)
      BY <1>6 DEF Quarantine, Numbers
    <3>5. ASSUME NEW i \in kept'
          PROVE  i \in 1..damages /\ Holds(disk', i) /\ Holds(durable', i)
      <4>1. CASE i = disk.file.id
        BY <3>1, <3>2, <3>3, <3>4, <4>1 DEF Holds
      <4>2. CASE i # disk.file.id
        <5>1. i \in kept /\ i \in 1..damages
          BY <3>3, <4>2 DEF Numbers
        <5>2. PICK n \in BackupName : disk.backups[n].id = i
          BY <4>2, <5>1 DEF DamagedFilesAreKept, Holds
        <5>3. n # name
          BY <3>2, <5>1, <5>2, Contents
        <5> QED
          BY <3>2, <3>3, <5>1, <5>2, <5>3 DEF DamagedFilesAreKept, Holds
      <4> QED
        BY <4>1, <4>2
    <3>6. disk'.file.id = 0 /\ ~IsDamaged(disk'.file)
      BY <3>2, NumbersOfContents
    <3>7. 0 \notin kept' /\ kept' \subseteq 1..damages'
      <4>1. \A i \in kept' : i \in 1..damages
        BY <3>5
      <4>2. damages' = damages /\ 0 \notin 1..damages
        BY <3>3
      <4> QED
        BY <4>1, <4>2
    <3>8. /\ IsDamaged(durable.file) => durable.file.id \in 1..damages
          /\ ~IsDamaged(durable.file) => durable.file.id = 0
      BY DEF Numbers
    <3>9. Numbers'
      BY <3>3, <3>6, <3>7, <3>8 DEF Numbers
    <3> QED
      BY <3>5, <3>9 DEF DamagedFilesAreKept
  <2> QED
    BY <2>1, <2>2, <2>3
<1>7. CASE Rename
  <2>1. Snapshot \in FileType /\ Snapshot.id = 0 /\ ~IsDamaged(Snapshot)
    BY SnapshotType, NumbersOfContents
  <2>2. OnDisk = {Snapshot}
    BY <1>7 DEF Inv, Rename, Forms, OnDisk
  <2>3. disk.file.id \notin kept
    BY <1>7 DEF Rename, Numbers
  <2>4. UNCHANGED <<kept, damages>> /\ pc' = "remove"
    BY <1>7 DEF Rename, counters
  <2>5. CASE UNCHANGED <<disk, durable>>
    BY <1>1, <1>7, <2>4, <2>5 DEF Rename
  <2>6. CASE disk' = [disk EXCEPT !.file = Snapshot] /\ durable' \in {durable, disk'}
    <3>1. disk'.file = Snapshot /\ durable'.file \in {durable.file, Snapshot}
      BY <2>1, <2>6, DirectoryUpdate DEF TypeOK
    <3>2. \A i \in kept : Holds(disk', i) /\ Holds(durable', i)
      BY <2>1, <2>3, <2>6, Replaced DEF DamagedFilesAreKept, TypeOK
    <3>3. 0 \notin kept
      BY DEF Numbers, TypeOK
    <3> QED
      BY <2>1, <2>4, <3>1, <3>2, <3>3 DEF Numbers, DamagedFilesAreKept
  <2> QED
    BY <1>7, <2>2, <2>5, <2>6 DEF Rename
<1>8. CASE Flush
  BY <1>8 DEF Flush, process, counters, Numbers, DamagedFilesAreKept, Holds
<1>9. CASE Crash
  BY <1>1, <1>9 DEF Crash, Die, found
<1>10. CASE PowerFailure
  BY <1>10 DEF PowerFailure, Die, Numbers, DamagedFilesAreKept, Holds
<1>11. CASE Damage
  <2>1. PICK content \in Damaged : disk' = [disk EXCEPT !.file = content]
    BY <1>11 DEF Damage
  <2>2. /\ disk'.file = content /\ durable' = disk'
        /\ IsDamaged(content) /\ content.id = damages + 1 /\ damages' = damages + 1
    BY <1>11, <2>1, DamagedTypes, NumbersOfContents, DirectoryUpdate DEF Damage, TypeOK
  <2>3. kept' = kept \ {disk.file.id} /\ pc' = pc /\ damages \in Nat
    BY <1>11 DEF Damage, Unprotected, TypeOK
  <2>4. \A i \in kept' : Holds(disk', i)
    BY <2>1, <2>3, DamagedTypes, Replaced DEF DamagedFilesAreKept, TypeOK
  <2>5. kept' \subseteq 1..damages' /\ disk'.file.id \notin kept'
    <3>1. kept \subseteq 1..damages
      BY DEF Numbers
    <3>2. \A i \in kept' : i \in Nat /\ i >= 1 /\ i <= damages
      BY <2>3, <3>1
    <3>3. \A i \in kept' : i \in 1..(damages + 1) /\ i # damages + 1
      BY <2>3, <3>2
    <3> QED
      BY <2>2, <3>3
  <2>6. Holds(durable', disk'.file.id) /\ disk'.file.id \in 1..damages'
    BY <2>2, <2>3 DEF Holds
  <2> QED
    BY <2>2, <2>3, <2>4, <2>5, <2>6 DEF Numbers, DamagedFilesAreKept
<1>12. CASE UNCHANGED vars
  BY <1>12 DEF vars, Numbers, DamagedFilesAreKept, Holds
<1> QED
  BY <1>2, <1>3, <1>4, <1>5, <1>6, <1>7, <1>8, <1>9, <1>10, <1>11, <1>12 DEF Next

-----------------------------------------------------------------------------
(* Order and length of the histories *)

IsOrdered(history, last) == Increasing(history) /\ Runs(history) \subseteq 1..last

LEMMA OrderMeaning ==
    HistoryIsOrdered <=>
        /\ IsOrdered(memory, runs)
        /\ IsOrdered(disk.file.history, runs)
        /\ IsOrdered(durable.file.history, runs)
        /\ pc \notin {"down", "load", "quarantine"} => Len(memory) <= limit
  BY DEF HistoryIsOrdered, IsOrdered

LEMMA OrderedCut ==
    ASSUME NEW s \in Seq(Nat), NEW n \in Nat \ {0}, NEW r, IsOrdered(s, r)
    PROVE  IsOrdered(Cut(s, n), r) /\ Len(Cut(s, n)) <= n /\ Cut(s, n) \in Seq(Nat)
  BY CutOrder, CutTail DEF IsOrdered

LEMMA OrderedEmpty == \A r : IsOrdered(<<>>, r)
  BY EmptyHistory DEF IsOrdered

LEMMA OrderStep ==
    ASSUME Inv, [Next]_vars
    PROVE  HistoryIsOrdered'
<1> USE DEF At, GoTo
<1>0. /\ TypeOK
      /\ IsOrdered(memory, runs)
      /\ IsOrdered(disk.file.history, runs)
      /\ IsOrdered(durable.file.history, runs)
      /\ pc \notin {"down", "load", "quarantine"} => Len(memory) <= limit
  BY OrderMeaning DEF Inv
<1>1. ASSUME UNCHANGED <<disk, durable, runs>>, IsOrdered(memory', runs),
             pc' \notin {"down", "load", "quarantine"} => Len(memory') <= limit'
      PROVE  HistoryIsOrdered'
  BY <1>0, <1>1 DEF HistoryIsOrdered, IsOrdered
<1>2. \A n \in Limit : 0 <= n
  BY StateFileAssumption
<1>3. CASE Configure \/ LoadCorrupt
  BY <1>0, <1>1, <1>3 DEF Configure, LoadCorrupt, counters
<1>4. CASE LoadState
  <2>1. disk.file.history \in Seq(Nat)
    BY <1>0 DEF TypeOK, Directory, FileType
  <2>2. IsOrdered(memory', runs) /\ Len(memory') <= limit
    BY <1>0, <1>4, <2>1, SnapshotType, OrderedCut DEF LoadState
  <2> QED
    BY <1>1, <1>4, <2>2 DEF LoadState, counters
<1>5. CASE LoadFails \/ GiveUp
  BY <1>0, <1>1, <1>2, <1>5, EmptyHistory, OrderedEmpty
     DEF LoadFails, GiveUp, counters, TypeOK
<1>6. CASE Quarantine
  <2>1. PICK now \in Time :
            NextTry \/ (IsUnused(<<now, try>>) /\ MoveAway(<<now, try>>))
    BY <1>6 DEF Quarantine
  <2>2. CASE NextTry
    BY <1>0, <1>1, <1>6, <2>2 DEF NextTry, Quarantine, counters
  <2>3. CASE MoveAway(<<now, try>>)
    <3>1. disk'.file = Absent
      BY <1>0, <1>6, <2>3, BackupUpdate DEF MoveAway, Quarantine, TypeOK, BackupName
    <3>2. memory' = <<>> /\ UNCHANGED <<durable, runs, limit>>
      BY <1>6, <2>3 DEF MoveAway, Quarantine, counters
    <3>3. limit \in Limit
      BY <1>0 DEF TypeOK
    <3>4. disk'.file.history = <<>>
      BY <3>1, Contents
    <3>5. Len(memory') <= limit'
      BY <1>2, <3>2, <3>3, EmptyHistory
    <3>6. IsOrdered(memory', runs') /\ IsOrdered(disk'.file.history, runs')
          /\ IsOrdered(durable'.file.history, runs')
      BY <1>0, <3>2, <3>4, OrderedEmpty
    <3> QED
      BY <3>5, <3>6 DEF HistoryIsOrdered, IsOrdered
  <2> QED
    BY <2>1, <2>2, <2>3
<1>7. CASE Record
  <2>1. memory \in Seq(Nat) /\ runs \in Nat
    BY <1>0 DEF TypeOK
  <2>2. Append(memory, runs + 1) \in Seq(Nat) /\ IsOrdered(Append(memory, runs + 1), runs + 1)
    BY <1>0, <2>1, AppendOrder DEF IsOrdered
  <2>3. IsOrdered(memory', runs + 1) /\ Len(memory') <= limit
    BY <1>0, <1>7, <2>2, SnapshotType, OrderedCut DEF Record, AppendHistory
  <2>4. \A h : IsOrdered(h, runs) => IsOrdered(h, runs + 1)
    BY <2>1 DEF IsOrdered
  <2>5. runs' = runs + 1 /\ UNCHANGED <<disk, durable, limit>>
    BY <1>7 DEF Record
  <2> QED
    BY <1>0, <2>3, <2>4, <2>5 DEF HistoryIsOrdered, IsOrdered
<1>8. CASE Edit \/ Create \/ Encode \/ Sync \/ Remove
  BY <1>0, <1>1, <1>8 DEF Edit, Create, Encode, Sync, Remove, process, counters
<1>9. CASE Rename
  <2>1. Snapshot \in FileType /\ IsOrdered(Snapshot.history, runs)
    BY <1>0, SnapshotType, OrderedCut, Contents DEF TypeOK
  <2>3. disk'.file \in {disk.file, Snapshot} /\ durable'.file \in {durable.file, Snapshot}
    BY <1>9, RenamedFiles DEF Inv
  <2>4. IsOrdered(disk'.file.history, runs) /\ IsOrdered(durable'.file.history, runs)
    BY <1>0, <2>1, <2>3
  <2>5. UNCHANGED <<memory, runs, limit>> /\ pc = "rename"
    BY <1>9 DEF Rename, counters
  <2> QED
    BY <1>0, <2>4, <2>5 DEF HistoryIsOrdered, IsOrdered
<1>10. CASE Flush
  BY <1>0, <1>10 DEF Flush, process, counters, HistoryIsOrdered, IsOrdered
<1>11. CASE Crash \/ PowerFailure
  BY <1>0, <1>11, OrderedEmpty DEF Crash, PowerFailure, Die, HistoryIsOrdered, IsOrdered
<1>12. CASE Damage
  <2>1. PICK content \in Damaged : disk' = [disk EXCEPT !.file = content]
    BY <1>12 DEF Damage
  <2>2. disk'.file.history = <<>> /\ durable' = disk'
    BY <1>0, <1>12, <2>1, DamagedTypes, DirectoryUpdate DEF Damage, TypeOK
  <2>3. UNCHANGED <<pc, memory, runs, limit>>
    BY <1>12 DEF Damage, process
  <2> QED
    BY <1>0, <2>2, <2>3, OrderedEmpty DEF HistoryIsOrdered, IsOrdered
<1>13. CASE UNCHANGED vars
  BY <1>0, <1>13 DEF vars, HistoryIsOrdered, IsOrdered
<1> QED
  BY <1>3, <1>4, <1>5, <1>6, <1>7, <1>8, <1>9, <1>10, <1>11, <1>12, <1>13 DEF Next

-----------------------------------------------------------------------------
(* Saved runs *)

AllKept(C, acknowledged, history) ==
    \A run \in acknowledged : KeptWith(C, history, run)

LEMMA NothingToKeep ==
    ASSUME NEW C \in SUBSET (Nat \ {0}), NEW acknowledged, AllKept(C, acknowledged, <<>>)
    PROVE  acknowledged = {}
  BY EmptyHistory DEF AllKept

LEMMA AllKeptCut ==
    ASSUME NEW s \in Seq(Nat), NEW r, IsOrdered(s, r), NEW n \in Nat \ {0},
           NEW C \in SUBSET (Nat \ {0}), NEW acknowledged \in SUBSET Nat,
           AllKept(C, acknowledged, s)
    PROVE  AllKept(C \cup Dropping(s, n), acknowledged, Cut(s, n))
  BY CutKeeps DEF AllKept, IsOrdered

LEMMA AllKeptStill ==
    ASSUME NEW C, NEW D, C \subseteq D, NEW acknowledged, NEW s,
           AllKept(C, acknowledged, s)
    PROVE  AllKept(D, acknowledged, s)
  BY MoreCuts DEF AllKept

LEMMA SavedStep ==
    ASSUME Inv, [Next]_vars
    PROVE  SavedRunsSurvive' /\ Remembered'
<1> USE DEF At, GoTo
<1>0. /\ TypeOK
      /\ IsOrdered(memory, runs) /\ IsOrdered(disk.file.history, runs)
      /\ AllKept(cuts, acked, disk.file.history)
      /\ AllKept(cuts, safe, durable.file.history)
      /\ pc \notin {"down", "load", "quarantine"} => AllKept(cuts, acked, memory)
  BY OrderMeaning DEF Inv, SavedRunsSurvive, Remembered, AllKept, IsKept
<1>1. SUFFICES /\ AllKept(cuts', acked', disk'.file.history)
               /\ AllKept(cuts', safe', durable'.file.history)
               /\ pc' \notin {"down", "load", "quarantine"} => AllKept(cuts', acked', memory')
  BY DEF SavedRunsSurvive, Remembered, AllKept, IsKept
<1>2. \A C, history : AllKept(C, {}, history)
  BY DEF AllKept
<1>3. CASE Configure \/ LoadCorrupt \/ Edit \/ Create \/ Encode \/ Sync \/ Remove
  BY <1>0, <1>3 DEF Configure, LoadCorrupt, Edit, Create, Encode, Sync, Remove,
                    process, found
<1>4. CASE LoadState
  <2>1. disk.file.history \in Seq(Nat) /\ acked \in SUBSET Nat
    BY <1>0 DEF TypeOK, Directory, FileType
  <2> DEFINE loaded == Cut(disk.file.history, LoadLimit)
             C == cuts \cup Dropping(disk.file.history, LoadLimit)
  <2>2. /\ loaded \in Seq(Nat) /\ IsOrdered(loaded, runs) /\ AllKept(C, acked, loaded)
        /\ C \in SUBSET (Nat \ {0})
    BY <1>0, <2>1, SnapshotType, OrderedCut, AllKeptCut
  <2>3. /\ memory' = Cut(loaded, limit)
        /\ cuts' = C \cup Dropping(loaded, limit)
        /\ UNCHANGED <<acked, safe, disk, durable>>
    BY <1>4 DEF LoadState
  <2>4. cuts \subseteq cuts'
    BY <2>3
  <2> HIDE DEF loaded, C
  <2>5. AllKept(cuts', acked, memory')
    BY <1>0, <2>1, <2>2, <2>3, SnapshotType, AllKeptCut
  <2>6. AllKept(cuts', acked, disk.file.history) /\ AllKept(cuts', safe, durable.file.history)
    BY <1>0, <2>4, AllKeptStill
  <2> QED
    BY <2>3, <2>5, <2>6
<1>5. CASE LoadFails \/ GiveUp \/ Damage
  <2>1. acked' = {} /\ safe' = {}
    BY <1>5 DEF LoadFails, GiveUp, Damage, Unprotected
  <2> QED
    BY <1>2, <2>1
<1>6. CASE Quarantine
  <2>1. disk.file.history = <<>> /\ acked = {}
    BY <1>0, <1>6, NothingToKeep, SnapshotType DEF Inv, Forms, Quarantine
  <2> QED
    BY <1>0, <1>2, <1>6, <2>1 DEF Quarantine
<1>7. CASE Record
  <2>1. memory \in Seq(Nat) /\ runs \in Nat /\ acked \in SUBSET Nat
    BY <1>0 DEF TypeOK
  <2> DEFINE longer == Append(memory, runs + 1)
  <2>2. longer \in Seq(Nat) /\ IsOrdered(longer, runs + 1)
    BY <1>0, <2>1, AppendOrder DEF IsOrdered
  <2>3. AllKept(cuts, acked, longer)
    BY <1>0, <1>7, <2>1, SnapshotType, AppendKeeps DEF AllKept, IsOrdered, Record
  <2>4. /\ memory' = Cut(longer, limit)
        /\ cuts' = cuts \cup Dropping(longer, limit)
        /\ UNCHANGED <<acked, safe, disk, durable>>
    BY <1>7 DEF Record, AppendHistory
  <2>5. cuts \subseteq cuts'
    BY <2>4
  <2> HIDE DEF longer
  <2>6. AllKept(cuts', acked, memory')
    BY <1>0, <2>1, <2>2, <2>3, <2>4, SnapshotType, AllKeptCut
  <2> QED
    BY <1>0, <2>4, <2>5, <2>6, AllKeptStill
<1>8. CASE Rename
  <2>1. /\ Snapshot \in FileType /\ Snapshot.history = Cut(memory, limit)
        /\ memory \in Seq(Nat) /\ acked \in SUBSET Nat
    BY <1>0, SnapshotType, Contents DEF TypeOK
  <2>2. OnDisk = {Snapshot}
    BY <1>8 DEF Inv, Rename, Forms, OnDisk
  <2> DEFINE D == cuts \cup Dropping(memory, limit)
  <2>3. AllKept(cuts, acked, memory) /\ AllKept(D, acked, Cut(memory, limit))
    BY <1>0, <1>8, <2>1, SnapshotType, AllKeptCut DEF Rename
  <2>4. CASE UNCHANGED <<disk, durable, acked, safe, cuts>>
    BY <1>0, <1>8, <2>3, <2>4 DEF Rename
  <2>5. CASE /\ acked' = acked \cup Runs(Snapshot.history)
             /\ cuts' = D
             /\ disk' = [disk EXCEPT !.file = Snapshot]
             /\ UNCHANGED <<durable, safe>> \/ (durable' = disk' /\ safe' = acked')
    <3>1. disk'.file = Snapshot /\ memory' = memory
      BY <1>0, <1>8, <2>1, <2>5, DirectoryUpdate DEF Rename, TypeOK
    <3>2. AllKept(cuts', acked', disk'.file.history)
      BY <2>1, <2>3, <2>5, <3>1 DEF AllKept, KeptWith
    <3>3. Runs(Cut(memory, limit)) \subseteq Runs(memory)
      BY <1>0, <2>1, SnapshotType, CutOrder DEF IsOrdered
    <3>4. AllKept(cuts', acked, memory)
      BY <2>3, <2>5, AllKeptStill
    <3>5. AllKept(cuts', acked', memory)
      BY <2>1, <2>5, <3>3, <3>4 DEF AllKept, KeptWith
    <3>6. AllKept(cuts', safe, durable.file.history)
      BY <1>0, <2>5, AllKeptStill
    <3> QED
      BY <2>5, <3>1, <3>2, <3>5, <3>6
  <2>6. \/ UNCHANGED <<disk, durable, acked, safe, cuts>>
        \/ /\ acked' = acked \cup Runs(Snapshot.history)
           /\ cuts' = D
           /\ disk' = [disk EXCEPT !.file = Snapshot]
           /\ UNCHANGED <<durable, safe>> \/ (durable' = disk' /\ safe' = acked')
    BY <1>8, <2>2 DEF Rename
  <2> QED
    BY <2>4, <2>5, <2>6
<1>9. CASE Flush
  BY <1>0, <1>9 DEF Flush, process
<1>10. CASE Crash \/ PowerFailure
  BY <1>0, <1>10 DEF Crash, PowerFailure, Die, found
<1>11. CASE UNCHANGED vars
  BY <1>0, <1>11 DEF vars
<1> QED
  BY <1>3, <1>4, <1>5, <1>6, <1>7, <1>8, <1>9, <1>10, <1>11 DEF Next

-----------------------------------------------------------------------------
(* The invariant *)

LEMMA InitInv == Init => Inv
<1> SUFFICES ASSUME Init PROVE Inv
  OBVIOUS
<1>1. /\ disk.file = Absent /\ durable = disk /\ memory = <<>> /\ pc = "down"
      /\ acked = {} /\ safe = {} /\ kept = {} /\ cuts = {} /\ damages = 0
      /\ disk.backups = [name \in BackupName |-> Absent]
  BY DEF Init
<1>2. disk \in Directory
  BY Contents DEF Init, Directory
<1>3. TypeOK
  <2>1. litter = FALSE /\ runs = 0 /\ crashes = 0 /\ limit \in Limit /\ try = 0 /\ temp = NoTemp
    BY DEF Init
  <2>2. try \in 0..Tries
    BY <2>1, StateFileAssumption
  <2> QED
    BY <1>1, <1>2, <2>1, <2>2, EmptyHistory, TempTypes DEF TypeOK
<1>4. Forms /\ Numbers /\ NothingTorn
  BY <1>1, Contents, NumbersOfContents DEF Forms, Numbers, NothingTorn
<1>5. Remembered /\ SavedRunsSurvive /\ DamagedFilesAreKept
  BY <1>1 DEF Remembered, SavedRunsSurvive, DamagedFilesAreKept
<1>6. HistoryIsOrdered
  BY <1>1, Contents, OrderedEmpty, OrderMeaning
<1> QED
  BY <1>3, <1>4, <1>5, <1>6 DEF Inv

LEMMA InvHolds == Spec => []Inv
<1>1. Inv /\ [Next]_vars => Inv'
  BY TypeStep, FormsStep, KeptStep, OrderStep, SavedStep DEF Inv
<1> QED
  BY InitInv, <1>1, PTL DEF Spec

-----------------------------------------------------------------------------

(* Every reachable state of the directory and the plugin is well typed.    *)
THEOREM StateFileTypes == Spec => []TypeOK
  BY InvHolds, PTL DEF Inv

(* Sync before Rename: no crash or power failure leaves half a state file.  *)
THEOREM SavesAreAtomic == Spec => []NothingTorn
  BY InvHolds, PTL DEF Inv

(* quarantine never overwrites a file it moved away before, for any clock.  *)
THEOREM QuarantineKeepsFiles == Spec => []DamagedFilesAreKept
  BY InvHolds, PTL DEF Inv

(* No failed save, reconfiguration, crash or power failure takes back a run  *)
(* that was saved, for any limits, also changing ones.                     *)
THEOREM SavesLast == Spec => []SavedRunsSurvive
  BY InvHolds, PTL DEF Inv

(* The history is a list of runs in their order within its limit.          *)
THEOREM HistoryIsInOrder == Spec => []HistoryIsOrdered
  BY InvHolds, PTL DEF Inv
=============================================================================
