----------------------------- MODULE LocalProofs -----------------------------
(***************************************************************************)
(* The safety of the files under the wallet's root: for any number of      *)
(* commands, kills and I/O errors, wallets, contacts and paths.  Each      *)
(* family of files has an inductive invariant of its own, which only its   *)
(* own steps can disturb.                                                  *)
(***************************************************************************)
EXTENDS MCLocal, FiniteSetTheorems, SequenceTheorems, WellFoundedInduction, TLAPS

-----------------------------------------------------------------------------
(* The exports and their log. *)

ExportPcs ==
    {"start", "paying", "fill", "release", "record", "exported", "refused", "left", "unlogged",
     "aside", "listed", "killed"}
Contents == {NoFile, Foreign} \cup (Commands \X {"torn", "whole"})
Logs == [schema : {"none", "newer", "broken", "ours"}, records : Seq(Commands)]
ExportDisks ==
    [kind : {"exports"}, files : [ExportPaths -> Contents], log : Logs, aside : SUBSET Logs,
     dropped : SUBSET Commands, given : [files : [ExportPaths -> Contents], log : Logs]]
ExportTasks ==
    [Commands -> [op : {"backup", "artifact", "pay", "records"}, path : ExportPaths \cup {"none"},
                  pc : ExportPcs]]

\* What is in the file of a command, by the place it is at.
Holding(c) ==
    /\ task[c].op = "records" <=> task[c].path \notin ExportPaths
    /\ task[c].pc \in {"paying", "fill", "release", "record", "exported", "unlogged"} =>
           task[c].op # "records"
    /\ task[c].pc \in {"paying", "fill", "release"} => disk.files[task[c].path] = <<c, "torn">>
    /\ task[c].pc = "record" => task[c].op = "backup"
    /\ task[c].pc = "aside" => task[c].op = "records"
    /\ task[c].pc \in {"record", "exported"} => disk.files[task[c].path] = <<c, "whole">>
    /\ task[c].pc \in {"start", "refused"} /\ task[c].op # "records" =>
           disk.files[task[c].path] \notin Mine(c)

\* An export is logged when it is done, and not before.
InLog(c) == c \in Logged \cup disk.dropped <=> task[c].op = "backup" /\ task[c].pc = "exported"

NothingLost ==
    /\ \A p \in ExportPaths : disk.given.files[p] = Foreign => disk.files[p] = Foreign
    /\ disk.given.log.schema # "none" => disk.given.log \in disk.aside \cup {disk.log}
    /\ disk.given.log.schema # "ours"

ExportsInv ==
    /\ disk \in ExportDisks
    /\ task \in ExportTasks
    /\ \A c \in Commands : Holding(c) /\ InLog(c)
    /\ NothingLost

\* A log set aside is still a log, and nothing else changes.
LEMMA AsideKeeps ==
    ASSUME NEW d \in ExportDisks
    PROVE  LET e == WithLogAside(d) IN
           /\ d.log.schema = "none" => e = d
           /\ d.log.schema # "none" => e.aside = d.aside \cup {d.log} /\ e.log = Log("none", <<>>)
           /\ e \in ExportDisks
           /\ e.files = d.files /\ e.given = d.given /\ e.dropped = d.dropped
<1>1. CASE d.log.schema = "none"
  BY <1>1 DEF WithLogAside
<1>2. CASE d.log.schema # "none"
  <2>1. WithLogAside(d) = [d EXCEPT !.aside = @ \cup {d.log}, !.log = Log("none", <<>>)]
    BY <1>2 DEF WithLogAside
  <2>2. Log("none", <<>>) \in Logs /\ d.log \in Logs
    BY DEF Log, Logs, ExportDisks
  <2>3. d.aside \cup {d.log} \in SUBSET Logs
    BY <2>2 DEF ExportDisks
  <2> QED
    BY <1>2, <2>1, <2>2, <2>3 DEF ExportDisks
<1> QED
  BY <1>1, <1>2

\* A record that is added is the only one that is, and what the limit cuts off is counted.
LEMMA RecordKeeps ==
    ASSUME NEW d \in ExportDisks, NEW c \in Commands
    PROVE  LET e == WithRecord(d, c) IN
           /\ e \in ExportDisks /\ e.files = d.files /\ e.given = d.given
           /\ ToSet(e.log.records) \cup e.dropped
                = (IF d.log.schema = "newer" THEN {} ELSE ToSet(d.log.records)) \cup d.dropped \cup {c}
           /\ e.aside = IF d.log.schema = "newer" THEN d.aside \cup {d.log} ELSE d.aside
           /\ e.log.schema = "ours"
<1> DEFINE before == IF d.log.schema = "newer" THEN WithLogAside(d) ELSE d
           all == <<c>> \o before.log.records
           kept == SubSeq(all, 1, IF Len(all) > RecordLimit THEN RecordLimit ELSE Len(all))
<1>1. /\ before \in ExportDisks /\ before.files = d.files /\ before.given = d.given
      /\ before.dropped = d.dropped
      /\ before.log.records = IF d.log.schema = "newer" THEN <<>> ELSE d.log.records
      /\ before.aside = IF d.log.schema = "newer" THEN d.aside \cup {d.log} ELSE d.aside
  <2>1. CASE d.log.schema = "newer"
    <3>1. WithLogAside(d).log.records = <<>>
      BY <2>1, AsideKeeps DEF Log
    <3> QED
      BY <2>1, <3>1, AsideKeeps
  <2>2. CASE d.log.schema # "newer"
    BY <2>2
  <2> QED
    BY <2>1, <2>2
<1>2. before.log.records \in Seq(Commands)
  BY <1>1 DEF ExportDisks, Logs
<1>3. all \in Seq(Commands) /\ Len(all) = 1 + Len(before.log.records)
  BY <1>2
<1>4. ToSet(all) = {c} \cup ToSet(before.log.records)
  <2>1. all[1] = c /\ \A i \in 1 .. Len(before.log.records) : all[i + 1] = before.log.records[i]
    BY <1>2
  <2>2. \A i \in 2 .. Len(all) : all[i] = before.log.records[i - 1] /\ i - 1 \in 1 .. Len(before.log.records)
    BY <1>2, <1>3
  <2> HIDE DEF all, before
  <2>3. DOMAIN all = 1 .. Len(all) /\ DOMAIN before.log.records = 1 .. Len(before.log.records)
    BY <1>2, <1>3
  <2>4. Len(before.log.records) \in Nat
    BY <1>2
  <2>5. ToSet(all) \subseteq {c} \cup ToSet(before.log.records)
    <3> SUFFICES ASSUME NEW i \in 1 .. Len(all), i # 1 PROVE all[i] \in ToSet(before.log.records)
      BY <2>1, <2>3 DEF ToSet
    <3>1. i \in 2 .. Len(all)
      BY <1>3
    <3> QED
      BY <2>2, <2>3, <3>1 DEF ToSet
  <2>6. {c} \cup ToSet(before.log.records) \subseteq ToSet(all)
    <3>1. c \in ToSet(all)
      BY <2>1, <2>3, <2>4, <1>3 DEF ToSet
    <3>2. ASSUME NEW i \in DOMAIN before.log.records PROVE before.log.records[i] \in ToSet(all)
      <4>1. i + 1 \in DOMAIN all /\ all[i + 1] = before.log.records[i]
        BY <2>1, <2>3, <2>4, <1>3
      <4> QED
        BY <4>1 DEF ToSet
    <3> QED
      BY <3>1, <3>2 DEF ToSet
  <2> QED
    BY <2>5, <2>6
<1>5. kept \in Seq(Commands) /\ ToSet(kept) \subseteq ToSet(all)
  <2> DEFINE m == IF Len(all) > RecordLimit THEN RecordLimit ELSE Len(all)
  <2>1. m \in 0 .. Len(all)
    BY <1>3, ExportsAssumption
  <2> HIDE DEF all, m
  <2>2. kept = SubSeq(all, 1, m)
    BY DEF m, all
  <2> HIDE DEF kept
  <2>3. kept \in Seq(Commands) /\ Len(kept) = m /\ \A i \in 1 .. m : kept[i] = all[i]
    BY <1>3, <2>1, <2>2
  <2>4. DOMAIN kept = 1 .. m /\ DOMAIN all = 1 .. Len(all) /\ 1 .. m \subseteq 1 .. Len(all)
    BY <1>3, <2>1, <2>3
  <2> QED
    BY <2>3, <2>4 DEF ToSet
<1> DEFINE e == WithRecord(d, c)
<1>6. e = [before EXCEPT !.log = Log("ours", kept), !.dropped = @ \cup (ToSet(all) \ ToSet(kept))]
  BY DEF WithRecord
<1>7. ToSet(all) \subseteq Commands
  BY <1>3 DEF ToSet
<1> HIDE DEF kept, all, before, e
<1>8. /\ e \in ExportDisks /\ e.files = before.files /\ e.given = before.given
      /\ e.aside = before.aside /\ e.log = [schema |-> "ours", records |-> kept]
      /\ e.dropped = before.dropped \cup (ToSet(all) \ ToSet(kept))
  BY <1>1, <1>5, <1>6, <1>7 DEF ExportDisks, Logs, Log
<1>9. ToSet(e.log.records) \cup e.dropped
        = (IF d.log.schema = "newer" THEN {} ELSE ToSet(d.log.records)) \cup d.dropped \cup {c}
  <2>1. ToSet(<<>>) = {}
    BY DEF ToSet
  <2> QED
    BY <1>1, <1>4, <1>5, <1>8, <2>1
<1> QED
  BY <1>1, <1>8, <1>9 DEF e


LEMMA ExportsStart == ExportsInit => ExportsInv
<1> SUFFICES ASSUME ExportsInit PROVE ExportsInv
  OBVIOUS
<1>1. PICK schema \in {"none", "newer", "broken"}, files \in [ExportPaths -> {NoFile, Foreign}] :
        disk = [kind |-> "exports", files |-> files, log |-> Log(schema, <<>>), aside |-> {},
                dropped |-> {}, given |-> [files |-> files, log |-> Log(schema, <<>>)]]
  BY DEF ExportsInit
<1>2. Log(schema, <<>>) \in Logs /\ files \in [ExportPaths -> Contents]
  BY DEF Log, Logs, Contents
<1>3. task \in [Commands -> Exporting \cup Listing]
  BY DEF ExportsInit
<1>4. task \in ExportTasks
  BY <1>3 DEF ExportTasks, Exporting, Listing, ExportPcs
<1>5. disk \in ExportDisks
  BY <1>1, <1>2 DEF ExportDisks
<1>6. Logged \cup disk.dropped = {}
  BY <1>1 DEF Logged, Log, ToSet
<1>7. ASSUME NEW c \in Commands PROVE Holding(c) /\ InLog(c)
  <2>1. task[c] \in Exporting \cup Listing
    BY <1>3
  <2>2. task[c].path \in ExportPaths => disk.files[task[c].path] \notin Mine(c)
    BY <1>1, LocalAssumption DEF Mine, NoFile, Foreign
  <2> QED
    BY <1>6, <2>1, <2>2, ExportsAssumption DEF Holding, InLog, Exporting, Listing
<1>8. NothingLost
  BY <1>1 DEF NothingLost, Log
<1> QED
  BY <1>4, <1>5, <1>7, <1>8 DEF ExportsInv

\* A step of one command leaves the others' files alone, and what is logged stays logged.
LEMMA ExportStepKeeps ==
    ASSUME ExportsInv, NEW c \in Commands, NEW pc \in ExportPcs, Step(c, pc),
           disk' \in ExportDisks, disk'.given = disk.given,
           \A p \in ExportPaths : disk'.files[p] = disk.files[p]
               \/ (p = Path(c) /\ disk.files[p] \in {NoFile} \cup Mine(c)
                               /\ disk'.files[p] \in {NoFile} \cup Mine(c)),
           Holding(c)', InLog(c)',
           (Logged \cup disk.dropped)' \ {c} = (Logged \cup disk.dropped) \ {c},
           disk.aside \cup {disk.log} \subseteq disk'.aside \cup {disk'.log}
               \/ (disk.log.schema \in {"none", "ours"} /\ disk.aside \subseteq disk'.aside)
    PROVE  ExportsInv'
<1>1. task' \in ExportTasks /\ \A d \in Commands \ {c} : task'[d] = task[d]
  BY DEF ExportsInv, ExportTasks, Step
<1>2. ASSUME NEW d \in Commands \ {c} PROVE Holding(d)'
  <2>1. \A x \in {NoFile} \cup Mine(c) : x \notin Mine(d)
    BY LocalAssumption DEF Mine, NoFile
  <2>2. Holding(d) /\ task[d].path \in ExportPaths \cup {"none"} /\ task[d] = task'[d]
    BY <1>1 DEF ExportsInv, ExportTasks
  <2>3. CASE task[d].op = "records"
    BY <2>2, <2>3 DEF Holding
  <2>4. CASE task[d].op # "records"
    <3>1. task[d].path \in ExportPaths
      BY <2>2, <2>4 DEF Holding
    <3>2. CASE disk'.files[task[d].path] = disk.files[task[d].path]
      BY <2>2, <3>1, <3>2 DEF Holding, Mine
    <3>3. CASE disk.files[task[d].path] \notin Mine(d) /\ disk'.files[task[d].path] \notin Mine(d)
      BY <2>2, <2>4, <3>1, <3>3 DEF Holding, Mine
    <3> QED
      BY <2>1, <3>1, <3>2, <3>3
  <2> QED
    BY <2>3, <2>4
<1>3. ASSUME NEW d \in Commands \ {c} PROVE InLog(d)'
  BY <1>1 DEF ExportsInv, InLog
<1>4. NothingLost'
  <2>1. \A p \in ExportPaths : disk.files[p] = Foreign => disk'.files[p] = Foreign
    BY LocalAssumption DEF Mine, NoFile, Foreign
  <2>2. disk.given.log.schema # "none" => disk'.given.log \in disk'.aside \cup {disk'.log}
    BY DEF ExportsInv, NothingLost
  <2> QED
    BY <2>1, <2>2 DEF ExportsInv, NothingLost
<1> QED
  BY <1>1, <1>2, <1>3, <1>4 DEF ExportsInv


\* Setting the log aside, or not, changes nothing else: nothing is logged by it.
LEMMA ExportAsideKeeps ==
    ASSUME ExportsInv, NEW c \in Commands, NEW pc \in ExportPcs, Step(c, pc), task[c].pc \in {"record", "aside"},
           pc \in {"unlogged", "refused", "listed"}, pc = "unlogged" <=> task[c].pc = "record",
           disk' = WithLogAside(disk)
    PROVE  ExportsInv'
<1>1. disk \in ExportDisks /\ task \in ExportTasks /\ Holding(c) /\ InLog(c)
  BY DEF ExportsInv
<1>2. task'[c].pc = pc /\ task'[c].op = task[c].op /\ task'[c].path = task[c].path
  BY <1>1 DEF Step, ExportTasks
<1>3. disk' \in ExportDisks /\ disk'.files = disk.files /\ disk'.given = disk.given
      /\ disk'.dropped = disk.dropped
  BY <1>1, AsideKeeps
<1>4. Logged' = Logged /\ disk.aside \cup {disk.log} \subseteq disk'.aside \cup {disk'.log}
  <2>1. CASE disk.log.schema = "none"
    BY <1>1, <2>1, AsideKeeps DEF Logged
  <2>2. CASE disk.log.schema # "none"
    <3>1. disk'.aside = disk.aside \cup {disk.log} /\ disk'.log.records = <<>>
      BY <1>1, <2>2, AsideKeeps DEF Log
    <3>2. ToSet(<<>>) = {}
      BY DEF ToSet
    <3>3. UNION {ToSet(log.records) : log \in disk'.aside \cup {disk'.log}}
             = UNION {ToSet(log.records) : log \in disk.aside \cup {disk.log}}
      BY <3>1, <3>2
    <3> QED
      BY <3>1, <3>3 DEF Logged
  <2> QED
    BY <2>1, <2>2
<1>5. Holding(c)' /\ InLog(c)'
  BY <1>1, <1>2, <1>3, <1>4 DEF Holding, InLog, Mine
<1> QED
  BY <1>3, <1>4, <1>5, ExportStepKeeps

LEMMA ExportsKeeps == ExportsInv /\ ExportsNext => ExportsInv'
<1> SUFFICES ASSUME ExportsInv, NEW c \in Commands, ExportsCommand(c) PROVE ExportsInv'
  BY DEF ExportsNext
<1>d. disk \in ExportDisks /\ task \in ExportTasks /\ Holding(c) /\ InLog(c)
  BY DEF ExportsInv
<1>t. ASSUME NEW pc, Step(c, pc)
      PROVE  task'[c].pc = pc /\ task'[c].op = task[c].op /\ task'[c].path = task[c].path
  BY <1>d, <1>t DEF Step, ExportTasks
<1>u. disk' = disk => Logged' = Logged
  BY DEF Logged
\* Nothing on disk changes.
<1>a. ASSUME NEW pc \in ExportPcs, Step(c, pc), disk' = disk, Holding(c)', InLog(c)'
      PROVE  ExportsInv'
  BY <1>a, <1>d, ExportStepKeeps DEF Logged
\* The command's own file changes.
<1>b. ASSUME NEW pc \in ExportPcs, Step(c, pc), NEW content \in {NoFile} \cup Mine(c), Put(c, content),
             Path(c) \in ExportPaths, disk.files[Path(c)] \in {NoFile} \cup Mine(c), Holding(c)', InLog(c)'
      PROVE  ExportsInv'
  <2>1. content \in Contents
    BY DEF Contents, Mine
  <2>2. disk' = [disk EXCEPT !.files = [disk.files EXCEPT ![Path(c)] = content]]
    BY <1>b DEF Put
  <2>3. [disk.files EXCEPT ![Path(c)] = content] \in [ExportPaths -> Contents]
    BY <1>d, <2>1 DEF ExportDisks
  <2>4. /\ disk' \in ExportDisks /\ disk'.files = [disk.files EXCEPT ![Path(c)] = content]
        /\ disk'.given = disk.given /\ disk'.log = disk.log /\ disk'.aside = disk.aside
        /\ disk'.dropped = disk.dropped
    BY <1>d, <2>2, <2>3 DEF ExportDisks
  <2>5. \A p \in ExportPaths : disk'.files[p] = disk.files[p]
               \/ (p = Path(c) /\ disk.files[p] \in {NoFile} \cup Mine(c)
                               /\ disk'.files[p] \in {NoFile} \cup Mine(c))
    BY <1>b, <1>d, <2>4 DEF ExportDisks
  <2>6. Logged' = Logged
    BY <2>4 DEF Logged
  <2> QED
    BY <1>b, <2>4, <2>5, <2>6, ExportStepKeeps
<1>1. CASE ExportRefused(c)
  <2>1. Holding(c)' /\ InLog(c)'
    BY <1>1, <1>d, <1>t, <1>u DEF ExportRefused, At, Holding, InLog, Mine
  <2> QED
    BY <1>1, <1>a, <2>1 DEF ExportRefused, ExportPcs
<1>2. CASE ExportPay(c)
  <2>1. Holding(c)' /\ InLog(c)'
    BY <1>2, <1>d, <1>t, <1>u DEF ExportPay, At, Holding, InLog, Mine
  <2> QED
    BY <1>2, <1>a, <2>1 DEF ExportPay, ExportPcs
<1>3. CASE ExportFillFails(c) \/ ExportReleaseFails(c) \/ ExportKill(c)
  <2>1. Holding(c)' /\ InLog(c)'
    BY <1>3, <1>d, <1>t, <1>u DEF ExportFillFails, ExportReleaseFails, ExportKill, At, Holding, InLog, Mine
  <2> QED
    BY <1>3, <1>a, <2>1 DEF ExportFillFails, ExportReleaseFails, ExportKill, ExportPcs
<1>4. CASE RecordsRead(c)
  <2>1. Holding(c)' /\ InLog(c)'
    BY <1>4, <1>d, <1>t, <1>u DEF RecordsRead, At, Holding, InLog, Mine
  <2> QED
    BY <1>4, <1>a, <2>1 DEF RecordsRead, ExportPcs
<1>p. task[c].op # "records" => Path(c) \in ExportPaths
  BY <1>d DEF Path, Holding, ExportTasks
<1>f. ASSUME NEW content, Put(c, content), Path(c) \in ExportPaths
      PROVE  disk'.files[Path(c)] = content /\ Logged' = Logged /\ disk'.dropped = disk.dropped
  BY <1>d, <1>f DEF Put, ExportDisks, Logged
<1>5. CASE ExportOpen(c)
  <2>1. Path(c) \in ExportPaths /\ disk'.files[Path(c)] = <<c, "torn">> /\ Logged' = Logged
        /\ disk'.dropped = disk.dropped
    BY <1>5, <1>p, <1>f DEF ExportOpen
  <2>2. Holding(c)' /\ InLog(c)'
    BY <1>5, <1>d, <1>t, <2>1 DEF ExportOpen, At, Path, Holding, InLog, Mine
  <2> QED
    BY <1>5, <1>b, <2>1, <2>2 DEF ExportOpen, ExportPcs, Mine
<1>6. CASE ExportFill(c)
  <2>1. Path(c) \in ExportPaths /\ disk'.files[Path(c)] = <<c, "whole">> /\ Logged' = Logged
        /\ disk'.dropped = disk.dropped
    BY <1>6, <1>d, <1>p, <1>f DEF ExportFill, At, Holding
  <2>2. CASE task[c].op = "backup"
    <3>1. Holding(c)' /\ InLog(c)'
      BY <1>6, <1>d, <1>t, <2>1, <2>2 DEF ExportFill, At, Path, Holding, InLog, Mine
    <3> QED
      BY <1>6, <1>b, <1>d, <2>1, <2>2, <3>1 DEF ExportFill, ExportPcs, Mine, At, Path, Holding
  <2>3. CASE task[c].op # "backup"
    <3>1. Holding(c)' /\ InLog(c)'
      BY <1>6, <1>d, <1>t, <2>1, <2>3 DEF ExportFill, At, Path, Holding, InLog, Mine
    <3> QED
      BY <1>6, <1>b, <1>d, <2>1, <2>3, <3>1 DEF ExportFill, ExportPcs, Mine, At, Path, Holding
  <2> QED
    BY <2>2, <2>3
<1>7. CASE ExportRelease(c)
  <2>1. Path(c) \in ExportPaths /\ disk'.files[Path(c)] = NoFile /\ Logged' = Logged
        /\ disk'.dropped = disk.dropped
    BY <1>7, <1>d, <1>p, <1>f DEF ExportRelease, Released, At, Holding
  <2>2. Holding(c)' /\ InLog(c)'
    BY <1>7, <1>d, <1>t, <2>1, LocalAssumption DEF ExportRelease, At, Path, Holding, InLog, Mine, NoFile
  <2> QED
    BY <1>7, <1>b, <1>d, <2>1, <2>2 DEF ExportRelease, Released, ExportPcs, Mine, At, Path, Holding
<1>8. CASE ExportRecord(c)
  <2>1. /\ disk' \in ExportDisks /\ disk'.files = disk.files /\ disk'.given = disk.given
        /\ ToSet(disk'.log.records) \cup disk'.dropped
             = (IF disk.log.schema = "newer" THEN {} ELSE ToSet(disk.log.records)) \cup disk.dropped \cup {c}
        /\ disk'.aside = IF disk.log.schema = "newer" THEN disk.aside \cup {disk.log} ELSE disk.aside
    BY <1>8, <1>d, RecordKeeps DEF ExportRecord
  <2>2. (Logged \cup disk.dropped)' = (Logged \cup disk.dropped) \cup {c}
    <3>1. Logged = (UNION {ToSet(log.records) : log \in disk.aside}) \cup ToSet(disk.log.records)
      BY DEF Logged
    <3>2. Logged' = (UNION {ToSet(log.records) : log \in disk'.aside}) \cup ToSet(disk'.log.records)
      BY DEF Logged
    <3>3. CASE disk.log.schema = "newer"
      <4>1. UNION {ToSet(log.records) : log \in disk'.aside}
              = (UNION {ToSet(log.records) : log \in disk.aside}) \cup ToSet(disk.log.records)
        BY <2>1, <3>3
      <4> QED
        BY <2>1, <3>1, <3>2, <3>3, <4>1
    <3>4. CASE disk.log.schema # "newer"
      BY <2>1, <3>1, <3>2, <3>4
    <3> QED
      BY <3>3, <3>4
  <2>3. Holding(c)' /\ InLog(c)'
    BY <1>8, <1>d, <1>t, <2>1, <2>2 DEF ExportRecord, At, Holding, InLog, Mine
  <2>4. disk.aside \cup {disk.log} \subseteq disk'.aside \cup {disk'.log}
               \/ (disk.log.schema \in {"none", "ours"} /\ disk.aside \subseteq disk'.aside)
    BY <1>8, <1>d, <2>1 DEF ExportRecord, ExportDisks, Logs
  <2> QED
    BY <1>8, <2>1, <2>2, <2>3, <2>4, ExportStepKeeps DEF ExportRecord, ExportPcs
<1>9. CASE ExportNotRecorded(c)
  <2>1. Step(c, "unlogged") /\ task[c].pc = "record"
    BY <1>9 DEF ExportNotRecorded, At
  <2>2. CASE disk' = disk
    <3>1. Holding(c)' /\ InLog(c)'
      BY <1>d, <1>t, <1>u, <2>1, <2>2 DEF Holding, InLog, Mine
    <3> QED
      BY <1>a, <2>1, <2>2, <3>1 DEF ExportPcs
  <2>3. CASE disk' = WithLogAside(disk)
    BY <2>1, <2>3, ExportAsideKeeps DEF ExportPcs
  <2> QED
    BY <1>9, <2>2, <2>3 DEF ExportNotRecorded
<1>10. CASE RecordsSetAside(c)
  BY <1>10, ExportAsideKeeps DEF RecordsSetAside, At, ExportPcs
<1> QED
  BY <1>1, <1>2, <1>3, <1>4, <1>5, <1>6, <1>7, <1>8, <1>9, <1>10 DEF ExportsCommand


-----------------------------------------------------------------------------
(* The schema migration. *)

MigrationPcs ==
    {"plan", "consent", "lock", "commit", "displace", "publish", "rollback", "flush", "release",
     "command", "end", "dead"}
Versions == {"none", "old", "new", "fresh"}
EntrySet == [path : Paths, value : {"old", "new"}]
MigrationDisks ==
    [kind : {"schema"}, was : [FileSet -> Versions], at : [Paths -> Versions],
     bak : [Commands -> [Paths -> Versions]], lock : [FileSet -> Commands \cup {0}]]
MigrationTask ==
    [pc : MigrationPcs, stale : Seq(FileSet), batch : Seq(EntrySet), i : Nat,
     before : [FileSet -> Versions], safe : BOOLEAN,
     said : {"nothing", "cancelled", "failed", "manual", "upgraded", "uncertain"}]
MigrationTasks == [Commands -> MigrationTask]

IsDoc(e) == e.path[1] = "doc"

\* A batch has a copy and then the document, once for each of its files.
Shape(b) ==
    /\ \A j, k \in 1 .. Len(b) : b[j].path = b[k].path => j = k
    /\ \A k \in 1 .. Len(b) :
        IF IsDoc(b[k])
        THEN k > 1 /\ b[k].value = "new" /\ b[k - 1].path = Copy(b[k].path[2])
        ELSE k < Len(b) /\ b[k].value = "old" /\ b[k + 1].path = Doc(b[k].path[2])

HasDoc(b, f) == \E k \in 1 .. Len(b) : b[k].path = Doc(f)

LEMMA Joined ==
    ASSUME NEW a, NEW b, NEW c, NEW d
    PROVE  /\ <<a, b>> \o <<c, d>> = <<a, b, c, d>>
           /\ <<a, b>> \o <<>> = <<a, b>>
           /\ <<>> \o <<c, d>> = <<c, d>>
           /\ <<>> \o <<>> = <<>>
<1>1. <<a, b>> \in Seq({a, b}) /\ <<c, d>> \in Seq({c, d}) /\ <<>> \in Seq({a})
  OBVIOUS
<1>2. <<a, b>> \o <<>> = <<a, b>> /\ <<>> \o <<c, d>> = <<c, d>> /\ <<>> \o <<>> = <<>>
  BY <1>1, ConcatEmptySeq
<1>3. <<a, b>> \o <<c, d>> = <<a, b, c, d>>
  <2> DEFINE x == <<a, b>> \o <<c, d>>
             y == <<a, b, c, d>>
  <2>1. <<a, b>> \in Seq({a, b, c, d}) /\ <<c, d>> \in Seq({a, b, c, d})
    OBVIOUS
  <2>2. x \in Seq({a, b, c, d}) /\ Len(x) = 4
    BY <2>1
  <2>3. y \in Seq({a, b, c, d}) /\ Len(y) = 4
    OBVIOUS
  <2>4. x[1] = y[1] /\ x[2] = y[2] /\ x[3] = y[3] /\ x[4] = y[4]
    BY <2>1
  <2> HIDE DEF x, y
  <2>5. \A i \in 1 .. 4 : i = 1 \/ i = 2 \/ i = 3 \/ i = 4
    OBVIOUS
  <2>6. x = y
    BY <2>2, <2>3, <2>4, <2>5, SeqEqual
  <2> QED
    BY <2>6 DEF x, y
<1> QED
  BY <1>2, <1>3

CopyEntry(f) == [path |-> Copy(f), value |-> "old"]
DocEntry(f) == [path |-> Doc(f), value |-> "new"]

LEMMA EntryFacts ==
    ASSUME NEW f \in FileSet
    PROVE  /\ CopyEntry(f) \in EntrySet /\ CopyEntry(f).path = <<"copy", f>> /\ CopyEntry(f).value = "old"
           /\ DocEntry(f) \in EntrySet /\ DocEntry(f).path = <<"doc", f>> /\ DocEntry(f).value = "new"
BY DEF CopyEntry, DocEntry, EntrySet, Paths, Copy, Doc

\* What commit has to write is of this shape, for just the files that are still old.
LEMMA BatchShape ==
    ASSUME disk \in MigrationDisks, NEW stale \in Seq(FileSet)
    PROVE  /\ Batch(stale) \in Seq(EntrySet)
           /\ Shape(Batch(stale))
           /\ \A k \in 1 .. Len(Batch(stale)) : Batch(stale)[k].path[2] \in ToSet(stale)
           /\ \A f \in FileSet :
                HasDoc(Batch(stale), f) <=> f \in ToSet(stale) /\ disk.at[Doc(f)] = "old"
<1> DEFINE goes(f) == f \in ToSet(stale) /\ disk.at[Doc(f)] = "old"
           two(f) == IF goes(f) THEN <<CopyEntry(f), DocEntry(f)>> ELSE <<>>
           b == Batch(stale)
<1>1. b = two("wallets") \o two("tokens")
  BY DEF Batch, InOrder, FileSet, Entries, CopyEntry, DocEntry
<1>2. "wallets" \in FileSet /\ "tokens" \in FileSet /\ FileSet = {"wallets", "tokens"}
  BY DEF FileSet
<1> HIDE DEF b
<1>3. CASE goes("wallets") /\ goes("tokens")
  <2>1. b = <<CopyEntry("wallets"), DocEntry("wallets"), CopyEntry("tokens"), DocEntry("tokens")>>
    BY <1>1, <1>3, Joined
  <2>2. /\ b \in Seq(EntrySet) /\ Len(b) = 4
        /\ b[1] = CopyEntry("wallets") /\ b[2] = DocEntry("wallets")
        /\ b[3] = CopyEntry("tokens") /\ b[4] = DocEntry("tokens")
    BY <2>1, <1>2, EntryFacts
  <2>3. \A k \in 1 .. Len(b) : k = 1 \/ k = 2 \/ k = 3 \/ k = 4
    BY <2>2
  <2> HIDE DEF goes
  <2> QED
    BY <1>2, <1>3, <2>2, <2>3, EntryFacts DEF Shape, HasDoc, IsDoc, Doc, Copy, goes, b
<1>4. CASE goes("wallets") /\ ~goes("tokens")
  <2>1. b = <<CopyEntry("wallets"), DocEntry("wallets")>>
    BY <1>1, <1>4, Joined
  <2>2. /\ b \in Seq(EntrySet) /\ Len(b) = 2
        /\ b[1] = CopyEntry("wallets") /\ b[2] = DocEntry("wallets")
    BY <2>1, <1>2, EntryFacts
  <2>3. \A k \in 1 .. Len(b) : k = 1 \/ k = 2
    BY <2>2
  <2> HIDE DEF goes
  <2> QED
    BY <1>2, <1>4, <2>2, <2>3, EntryFacts DEF Shape, HasDoc, IsDoc, Doc, Copy, goes, b
<1>5. CASE ~goes("wallets") /\ goes("tokens")
  <2>1. b = <<CopyEntry("tokens"), DocEntry("tokens")>>
    BY <1>1, <1>5, Joined
  <2>2. /\ b \in Seq(EntrySet) /\ Len(b) = 2
        /\ b[1] = CopyEntry("tokens") /\ b[2] = DocEntry("tokens")
    BY <2>1, <1>2, EntryFacts
  <2>3. \A k \in 1 .. Len(b) : k = 1 \/ k = 2
    BY <2>2
  <2> HIDE DEF goes
  <2> QED
    BY <1>2, <1>5, <2>2, <2>3, EntryFacts DEF Shape, HasDoc, IsDoc, Doc, Copy, goes, b
<1>6. CASE ~goes("wallets") /\ ~goes("tokens")
  <2>1. b = <<>> /\ b \in Seq(EntrySet) /\ Len(b) = 0
    BY <1>1, <1>6, Joined
  <2> HIDE DEF goes
  <2> QED
    BY <1>2, <1>6, <2>1 DEF Shape, HasDoc, Doc, goes, b
<1> QED
  BY <1>3, <1>4, <1>5, <1>6


\* The locks that a command took are its own until it releases them.
Owner(c) ==
    \/ task[c].pc \in {"commit", "displace", "publish", "rollback", "flush"}
    \/ task[c].pc = "release" /\ (task[c].batch # <<>> \/ task[c].said \in {"upgraded", "uncertain"})
OwnLocks(c) ==
    /\ task[c].pc = "consent" => task[c].stale # <<>>
    /\ task[c].pc = "lock" =>
           /\ task[c].i \in 1 .. Len(task[c].stale)
           /\ \A k \in 1 .. task[c].i - 1 : disk.lock[task[c].stale[k]] = c
    /\ Owner(c) => \A f \in ToSet(task[c].stale) : disk.lock[f] = c

\* What a command has moved away is of its batch, which it has only after its plan.
InScope(c) ==
    /\ task[c].pc \in {"plan", "consent", "lock", "commit", "command"} => task[c].batch = <<>>
    /\ Shape(task[c].batch)
    /\ \A k \in 1 .. Len(task[c].batch) : task[c].batch[k].path[2] \in ToSet(task[c].stale)
    /\ \A p \in Paths : disk.bak[c][p] # "none" => \E k \in 1 .. Len(task[c].batch) : task[c].batch[k].path = p

\* How far each entry of a batch has come.
Installed(c, e) == disk.at[e.path] = e.value /\ (IsDoc(e) => disk.bak[c][e.path] = "old")
Untouched(c, e) == disk.bak[c][e.path] = "none" /\ (IsDoc(e) => disk.at[e.path] = "old")
MovedAway(c, e) == disk.at[e.path] = "none" /\ (IsDoc(e) => disk.bak[c][e.path] = "old")
Undone(c, e) ==
    IsDoc(e) => disk.at[e.path] = "old" \/ (~task[c].safe /\ disk.bak[c][e.path] = "old")

Batched(c) ==
    LET b == task[c].batch
        i == task[c].i
        pc == task[c].pc
    IN  /\ pc \in {"displace", "publish", "rollback"} => i \in 1 .. Len(b)
        /\ pc = "displace" => \A k \in 1 .. Len(b) : IF k < i THEN Installed(c, b[k]) ELSE Untouched(c, b[k])
        /\ pc = "publish" =>
               /\ MovedAway(c, b[i])
               /\ \A k \in 1 .. Len(b) :
                    (k < i => Installed(c, b[k])) /\ (k > i => Untouched(c, b[k]))
        /\ pc = "rollback" =>
               /\ IsDoc(b[i]) => disk.bak[c][b[i].path] = "old"
               /\ \A k \in 1 .. Len(b) : (k < i => Installed(c, b[k])) /\ (k > i => Undone(c, b[k]))
        /\ pc = "flush" => b # <<>> /\ \A k \in 1 .. Len(b) : Installed(c, b[k])
        /\ pc = "release" /\ b # <<>> =>
               \A k \in 1 .. Len(b) : IsDoc(b[k]) =>
                   /\ task[c].said = "failed" => disk.at[b[k].path] = "old"
                   /\ task[c].said \in {"upgraded", "uncertain"} => disk.at[b[k].path] = "new"

\* What the command found under its locks: old, and to be written, or left alone.
Found(c) ==
    /\ task[c].pc \in {"displace", "publish", "rollback", "flush", "release"} /\ task[c].batch # <<>> =>
           \A f \in ToSet(task[c].stale) :
               IF HasDoc(task[c].batch, f) THEN task[c].before[f] = "old"
               ELSE task[c].before[f] # "old" /\ disk.at[Doc(f)] = task[c].before[f]
    /\ task[c].pc = "release" /\ task[c].batch = <<>> /\ task[c].said \in {"upgraded", "uncertain"} =>
           \A f \in ToSet(task[c].stale) : disk.at[Doc(f)] # "old"

MigrationCmd(c) == OwnLocks(c) /\ InScope(c) /\ Batched(c) /\ Found(c)

\* A document of the older schema is somewhere.
Kept(f) ==
    \/ disk.at[Doc(f)] = "old" \/ disk.at[Copy(f)] = "old"
    \/ \E c \in Commands, p \in Paths : p[2] = f /\ disk.bak[c][p] = "old"

MigrationInv ==
    /\ disk \in MigrationDisks
    /\ task \in MigrationTasks
    /\ \A c \in Commands : MigrationCmd(c)
    /\ \A f \in FileSet : disk.was[f] = "old" => Kept(f)


LEMMA MigrationStart == MigrationInit => MigrationInv
<1> SUFFICES ASSUME MigrationInit PROVE MigrationInv
  OBVIOUS
<1>1. PICK at \in [FileSet -> {"none", "old", "new"}] :
        disk = [kind |-> "schema", was |-> at,
                at |-> [p \in Paths |-> IF p[1] = "doc" THEN at[p[2]] ELSE "none"],
                bak |-> [c \in Commands |-> [p \in Paths |-> "none"]],
                lock |-> [f \in FileSet |-> 0]]
  BY DEF MigrationInit
<1>2. \A c \in Commands : task[c] = Start0
  BY DEF MigrationInit
<1>3. \A p \in Paths : p[2] \in FileSet
  BY DEF Paths
<1>4. disk \in MigrationDisks
  <2>1. [p \in Paths |-> IF p[1] = "doc" THEN at[p[2]] ELSE "none"] \in [Paths -> Versions]
    BY <1>3 DEF Versions
  <2> QED
    BY <1>1, <2>1 DEF MigrationDisks, Versions
<1>5. task \in MigrationTasks
  <2>1. <<>> \in Seq(FileSet) /\ <<>> \in Seq(EntrySet) /\ [f \in FileSet |-> "none"] \in [FileSet -> Versions]
    BY DEF Versions
  <2> QED
    BY <1>2, <2>1 DEF MigrationInit, MigrationTasks, MigrationTask, MigrationPcs, Start0
<1>6. ASSUME NEW c \in Commands PROVE MigrationCmd(c)
  <2>1. task[c].pc = "plan" /\ task[c].batch = <<>> /\ \A p \in Paths : disk.bak[c][p] = "none"
    BY <1>1, <1>2, <1>6 DEF Start0
  <2>2. OwnLocks(c) /\ Batched(c) /\ Found(c)
    BY <2>1 DEF OwnLocks, Owner, Batched, Found
  <2>3. InScope(c)
    BY <2>1 DEF InScope, Shape
  <2> QED
    BY <2>2, <2>3 DEF MigrationCmd
<1>7. ASSUME NEW f \in FileSet, disk.was[f] = "old" PROVE Kept(f)
  <2>1. Doc(f) \in Paths /\ Doc(f)[1] = "doc" /\ Doc(f)[2] = f
    BY DEF Doc, Paths
  <2> QED
    BY <1>1, <1>7, <2>1 DEF Kept
<1> QED
  BY <1>4, <1>5, <1>6, <1>7 DEF MigrationInv

LEMMA EntryPlace ==
    ASSUME task \in MigrationTasks, NEW c \in Commands, NEW k \in 1 .. Len(task[c].batch)
    PROVE  LET p == task[c].batch[k].path IN
           /\ p \in Paths /\ p[2] \in FileSet
           /\ p = Doc(p[2]) \/ p = Copy(p[2])
           /\ p[1] = "doc" <=> p = Doc(p[2])
           /\ task[c].batch[k] \in EntrySet
<1>1. task[c].batch \in Seq(EntrySet)
  BY DEF MigrationTasks, MigrationTask
<1>2. task[c].batch[k] \in EntrySet
  BY <1>1
<1> QED
  BY <1>2 DEF EntrySet, Paths, Doc, Copy

\* What other commands do leaves a command where it was, unless it is dead.
LEMMA OthersKept ==
    ASSUME MigrationInv, NEW c \in Commands, task'[c] = task[c], disk'.bak[c] = disk.bak[c],
           Dead(c) \/ \A f \in FileSet : disk.lock[f] = c =>
               /\ disk'.lock[f] = c
               /\ disk'.at[Doc(f)] = disk.at[Doc(f)]
               /\ disk'.at[Copy(f)] = disk.at[Copy(f)]
    PROVE  MigrationCmd(c)'
<1>1. task \in MigrationTasks /\ MigrationCmd(c)
  BY DEF MigrationInv
<1>2. InScope(c)'
  BY <1>1 DEF MigrationCmd, InScope
<1>3. CASE Dead(c)
  BY <1>1, <1>2, <1>3 DEF Dead, At, MigrationCmd, OwnLocks, Owner, Batched, Found
<1>4. CASE ~Dead(c)
  <2>1. \A f \in ToSet(task[c].stale) : f \in FileSet
    BY <1>1 DEF MigrationTasks, MigrationTask, ToSet
  <2>2. Owner(c) => \A f \in ToSet(task[c].stale) :
           disk.lock[f] = c /\ disk'.lock[f] = c /\ disk'.at[Doc(f)] = disk.at[Doc(f)]
    BY <1>1, <1>4, <2>1 DEF MigrationCmd, OwnLocks
  <2>3. Owner(c) => \A k \in 1 .. Len(task[c].batch) :
           disk'.at[task[c].batch[k].path] = disk.at[task[c].batch[k].path]
    <3> SUFFICES ASSUME Owner(c), NEW k \in 1 .. Len(task[c].batch)
                 PROVE  disk'.at[task[c].batch[k].path] = disk.at[task[c].batch[k].path]
      OBVIOUS
    <3>1. task[c].batch[k].path[2] \in ToSet(task[c].stale)
      BY <1>1 DEF MigrationCmd, InScope
    <3>2. disk.lock[task[c].batch[k].path[2]] = c
      BY <2>2, <3>1
    <3> QED
      BY <1>1, <1>4, <3>2, EntryPlace
  <2>4. OwnLocks(c)'
    <3>1. task[c].pc = "lock" => \A k \in 1 .. task[c].i - 1 :
             disk.lock[task[c].stale[k]] = c /\ task[c].stale[k] \in FileSet
      <4>1. task[c].stale \in Seq(FileSet)
        BY <1>1 DEF MigrationTasks, MigrationTask
      <4> QED
        BY <1>1, <4>1 DEF MigrationCmd, OwnLocks
    <3> QED
      BY <1>1, <1>4, <2>2, <3>1 DEF MigrationCmd, OwnLocks, Owner
  <2>5. Batched(c)'
    <3>1. ASSUME NEW k \in 1 .. Len(task[c].batch), Owner(c)
          PROVE  /\ Installed(c, task[c].batch[k])' <=> Installed(c, task[c].batch[k])
                 /\ Untouched(c, task[c].batch[k])' <=> Untouched(c, task[c].batch[k])
                 /\ MovedAway(c, task[c].batch[k])' <=> MovedAway(c, task[c].batch[k])
                 /\ Undone(c, task[c].batch[k])' <=> Undone(c, task[c].batch[k])
      BY <2>3, <3>1 DEF Installed, Untouched, MovedAway, Undone, IsDoc
    <3> USE <1>1 DEF MigrationCmd, Batched, Owner
    <3>2. CASE task[c].pc = "displace"
      BY <3>1, <3>2
    <3>3. CASE task[c].pc = "publish"
      BY <3>1, <3>3
    <3>4. CASE task[c].pc = "rollback"
      BY <3>1, <3>4
    <3>5. CASE task[c].pc = "flush"
      BY <3>1, <3>5
    <3>6. CASE task[c].pc = "release"
      BY <2>3, <3>6 DEF IsDoc
    <3>7. CASE task[c].pc \notin {"displace", "publish", "rollback", "flush", "release"}
      BY <3>7
    <3> QED
      BY <3>2, <3>3, <3>4, <3>5, <3>6, <3>7
  <2>6. Found(c)'
    <3>1. \A f \in FileSet : HasDoc(task'[c].batch, f) <=> HasDoc(task[c].batch, f)
      OBVIOUS
    <3> QED
      BY <1>1, <2>1, <2>2, <3>1 DEF MigrationCmd, Found, Owner
  <2> QED
    BY <1>2, <2>4, <2>5, <2>6 DEF MigrationCmd
<1> QED
  BY <1>3, <1>4

\* A step of one command keeps what holds of the others.
LEMMA MigrationStepKeeps ==
    ASSUME MigrationInv, NEW c \in Commands, disk' \in MigrationDisks, task' \in MigrationTasks,
           \A d \in Commands \ {c} : task'[d] = task[d] /\ disk'.bak[d] = disk.bak[d],
           \A d \in Commands \ {c}, f \in FileSet : disk.lock[f] = d /\ ~Dead(d) =>
               /\ disk'.lock[f] = d
               /\ disk'.at[Doc(f)] = disk.at[Doc(f)]
               /\ disk'.at[Copy(f)] = disk.at[Copy(f)],
           disk'.was = disk.was, \A f \in FileSet : Kept(f) => Kept(f)',
           MigrationCmd(c)'
    PROVE  MigrationInv'
<1>1. ASSUME NEW d \in Commands \ {c} PROVE MigrationCmd(d)'
  BY OthersKept
<1> QED
  BY <1>1 DEF MigrationInv


\* A command's next step.
LEMMA MigrationTaskNext ==
    ASSUME task \in MigrationTasks, NEW c \in Commands, NEW r \in MigrationTask, task' = [task EXCEPT ![c] = r]
    PROVE  task' \in MigrationTasks /\ task'[c] = r /\ \A d \in Commands \ {c} : task'[d] = task[d]
BY DEF MigrationTasks

\* Steps that leave the files alone.
LEMMA MigrationTaskKeeps ==
    ASSUME MigrationInv, NEW c \in Commands, disk' = disk, task' \in MigrationTasks,
           \A d \in Commands \ {c} : task'[d] = task[d], MigrationCmd(c)'
    PROVE  MigrationInv'
<1>1. disk' \in MigrationDisks
  BY DEF MigrationInv
<1>2. \A f \in FileSet : Kept(f) => Kept(f)'
  BY DEF Kept
<1> QED
  BY <1>1, <1>2, MigrationStepKeeps

\* Steps before the batch is written, and the end of a command.
LEMMA MigrationEarlyKeeps ==
    ASSUME MigrationInv, NEW c \in Commands,
           \/ MigrationPlan(c) \/ MigrationConsent(c) \/ MigrationLockTimeout(c)
           \/ MigrationNotStaged(c) \/ MigrationKill(c)
    PROVE  MigrationInv'
<1>d. disk \in MigrationDisks /\ task \in MigrationTasks /\ MigrationCmd(c) /\ disk' = disk
  BY DEF MigrationInv, MigrationPlan, MigrationConsent, MigrationLockTimeout, MigrationNotStaged, MigrationKill
<1> USE DEF At, Step, EndAs
<1>1. CASE MigrationPlan(c)
  <2>1. Stale \in Seq(FileSet)
    <3>1. \A f \in FileSet : (IF disk.at[Doc(f)] = "old" THEN <<f>> ELSE <<>>) \in Seq(FileSet)
      OBVIOUS
    <3> QED
      BY <3>1 DEF Stale, InOrder, FileSet
  <2> DEFINE r == IF Stale = <<>> THEN [task[c] EXCEPT !.pc = "command"]
                  ELSE [task[c] EXCEPT !.pc = "consent", !.stale = Stale]
  <2>a. task' = [task EXCEPT ![c] = r]
    BY <1>1, <1>d DEF MigrationPlan, MigrationTasks
  <2>b. r \in MigrationTask
    BY <1>d, <2>1 DEF MigrationTasks, MigrationTask, MigrationPcs
  <2>2. task' \in MigrationTasks /\ task'[c] = r /\ \A d \in Commands \ {c} : task'[d] = task[d]
    BY <1>d, <2>a, <2>b, MigrationTaskNext
  <2>3. /\ task'[c].pc = IF Stale = <<>> THEN "command" ELSE "consent"
        /\ Stale # <<>> => task'[c].stale = Stale
        /\ task[c].batch = <<>> /\ task'[c].batch = <<>>
    BY <1>1, <1>d, <2>2 DEF MigrationPlan, MigrationTasks, MigrationTask, MigrationCmd, InScope
  <2>4. MigrationCmd(c)'
    BY <1>d, <2>3 DEF MigrationCmd, OwnLocks, Owner, InScope, Shape, Batched, Found
  <2> QED
    BY <1>d, <2>2, <2>4, MigrationTaskKeeps
<1>2. CASE MigrationConsent(c)
  <2>a. PICK r \in {[task[c] EXCEPT !.pc = "lock", !.i = 1], [task[c] EXCEPT !.pc = "end", !.said = "cancelled"]} :
           task' = [task EXCEPT ![c] = r]
    BY <1>2, <1>d DEF MigrationConsent, MigrationTasks
  <2>b. r \in MigrationTask
    <3>1. task[c] \in MigrationTask
      BY <1>d DEF MigrationTasks
    <3>2. [task[c] EXCEPT !.pc = "lock", !.i = 1] \in MigrationTask
      BY <3>1 DEF MigrationTask, MigrationPcs
    <3>3. [task[c] EXCEPT !.pc = "end", !.said = "cancelled"] \in MigrationTask
      BY <3>1 DEF MigrationTask, MigrationPcs
    <3> QED
      BY <3>2, <3>3
  <2>1. task' \in MigrationTasks /\ task'[c] = r /\ \A d \in Commands \ {c} : task'[d] = task[d]
    BY <1>d, <2>a, <2>b, MigrationTaskNext
  <2>2. /\ task'[c].pc \in {"lock", "end"}
        /\ task'[c].pc = "lock" => task'[c].i = 1
        /\ task'[c].stale = task[c].stale /\ task'[c].batch = task[c].batch
        /\ task[c].batch = <<>> /\ task[c].stale # <<>>
    BY <1>2, <1>d, <2>1 DEF MigrationConsent, MigrationTasks, MigrationTask, MigrationCmd, InScope, OwnLocks
  <2>3. Len(task[c].stale) \in Nat /\ Len(task[c].stale) # 0
    BY <1>d, <2>2 DEF MigrationTasks, MigrationTask
  <2>4. MigrationCmd(c)'
    BY <1>d, <2>2, <2>3 DEF MigrationCmd, OwnLocks, Owner, InScope, Shape, Batched, Found
  <2> QED
    BY <1>d, <2>1, <2>4, MigrationTaskKeeps
<1>3. CASE MigrationLockTimeout(c) \/ MigrationNotStaged(c)
  <2> DEFINE r == [task[c] EXCEPT !.pc = "release", !.said = "failed"]
  <2>a. task' = [task EXCEPT ![c] = r]
    BY <1>3, <1>d DEF MigrationLockTimeout, MigrationNotStaged, MigrationTasks
  <2>b. r \in MigrationTask
    BY <1>d DEF MigrationTasks, MigrationTask, MigrationPcs
  <2>1. task' \in MigrationTasks /\ task'[c] = r /\ \A d \in Commands \ {c} : task'[d] = task[d]
    BY <1>d, <2>a, <2>b, MigrationTaskNext
  <2>2. /\ task'[c].pc = "release" /\ task'[c].said = "failed"
        /\ task'[c].stale = task[c].stale /\ task'[c].batch = task[c].batch
        /\ task[c].batch = <<>>
    <3>1. task[c].batch = <<>>
      BY <1>3, <1>d DEF MigrationLockTimeout, MigrationNotStaged, MigrationCmd, InScope, At
    <3> QED
      BY <1>d, <2>1, <3>1 DEF MigrationTask
  <2>3. MigrationCmd(c)'
    BY <1>d, <2>2 DEF MigrationCmd, OwnLocks, Owner, InScope, Shape, Batched, Found
  <2> QED
    BY <1>d, <2>1, <2>3, MigrationTaskKeeps
<1>4. CASE MigrationKill(c)
  <2> DEFINE r == [task[c] EXCEPT !.pc = "dead"]
  <2>a. task' = [task EXCEPT ![c] = r]
    BY <1>4, <1>d DEF MigrationKill, MigrationTasks
  <2>b. r \in MigrationTask
    BY <1>d DEF MigrationTasks, MigrationTask, MigrationPcs
  <2>1. task' \in MigrationTasks /\ task'[c] = r /\ \A d \in Commands \ {c} : task'[d] = task[d]
    BY <1>d, <2>a, <2>b, MigrationTaskNext
  <2>2. task'[c].pc = "dead" /\ task'[c].stale = task[c].stale /\ task'[c].batch = task[c].batch
    BY <1>d, <2>1 DEF MigrationTasks, MigrationTask
  <2>3. MigrationCmd(c)'
    <3>1. OwnLocks(c)' /\ Batched(c)' /\ Found(c)'
      BY <2>2 DEF OwnLocks, Owner, Batched, Found
    <3>2. InScope(c)'
      BY <1>d, <2>2 DEF MigrationCmd, InScope, Shape
    <3> QED
      BY <3>1, <3>2 DEF MigrationCmd
  <2> QED
    BY <1>d, <2>1, <2>3, MigrationTaskKeeps
<1> QED
  BY <1>1, <1>2, <1>3, <1>4

\* Reading the files again under the locks.
LEMMA MigrationCommitKeeps ==
    ASSUME MigrationInv, NEW c \in Commands, MigrationCommit(c)
    PROVE  MigrationInv'
<1>d. disk \in MigrationDisks /\ task \in MigrationTasks /\ MigrationCmd(c) /\ disk' = disk
  BY DEF MigrationInv, MigrationCommit
<1> PICK b : b = Batch(task[c].stale)
  OBVIOUS
<1>1. task[c].stale \in Seq(FileSet) /\ \A f \in ToSet(task[c].stale) : f \in FileSet
  BY <1>d DEF MigrationTasks, MigrationTask, ToSet
<1>2. /\ b \in Seq(EntrySet) /\ Shape(b)
      /\ \A k \in 1 .. Len(b) : b[k].path[2] \in ToSet(task[c].stale)
      /\ \A f \in FileSet : HasDoc(b, f) <=> f \in ToSet(task[c].stale) /\ disk.at[Doc(f)] = "old"
  BY <1>d, <1>1, BatchShape
<1>3. task' = [task EXCEPT ![c].batch = b, ![c].i = 1,
                             ![c].before = [f \in FileSet |-> disk.at[Doc(f)]],
                             ![c].pc = IF b = <<>> THEN "release" ELSE "displace",
                             ![c].said = IF b = <<>> THEN "upgraded" ELSE @]
  BY DEF MigrationCommit
<1>4. [f \in FileSet |-> disk.at[Doc(f)]] \in [FileSet -> Versions]
  BY <1>d DEF MigrationDisks, Doc, Paths
<1> DEFINE r == [task[c] EXCEPT !.batch = b, !.i = 1, !.before = [f \in FileSet |-> disk.at[Doc(f)]],
                                 !.pc = IF b = <<>> THEN "release" ELSE "displace",
                                 !.said = IF b = <<>> THEN "upgraded" ELSE @]
<1>a. task' = [task EXCEPT ![c] = r]
  BY <1>3, <1>d DEF MigrationTasks
<1>b. r \in MigrationTask
  <2>1. task[c] \in MigrationTask /\ 1 \in Nat /\ b \in Seq(EntrySet)
    BY <1>d, <1>2 DEF MigrationTasks
  <2> PICK before : before = [f \in FileSet |-> disk.at[Doc(f)]]
    OBVIOUS
  <2>2. r = [task[c] EXCEPT !.batch = b, !.i = 1, !.before = before, !.pc = r.pc, !.said = r.said]
    BY <2>1 DEF MigrationTask
  <2>3. r.pc \in {"release", "displace"} /\ r.said \in {"upgraded", task[c].said}
    BY <2>1 DEF MigrationTask
  <2>4. before \in [FileSet -> Versions]
    BY <1>4
  <2> HIDE DEF r
  <2> QED
    BY <2>1, <2>2, <2>3, <2>4 DEF MigrationTask, MigrationPcs
<1>5. task' \in MigrationTasks /\ task'[c] = r /\ \A d \in Commands \ {c} : task'[d] = task[d]
  BY <1>d, <1>a, <1>b, MigrationTaskNext
<1>6. /\ task'[c].pc = IF b = <<>> THEN "release" ELSE "displace"
      /\ task'[c].batch = b /\ task'[c].i = 1 /\ task'[c].stale = task[c].stale
      /\ \A f \in FileSet : task'[c].before[f] = disk.at[Doc(f)]
  BY <1>d, <1>5 DEF MigrationTasks, MigrationTask
<1>7. task[c].pc = "commit" /\ task[c].batch = <<>>
  BY <1>d DEF MigrationCommit, At, MigrationCmd, InScope
<1>8. \A p \in Paths : disk.bak[c][p] = "none"
  BY <1>d, <1>7 DEF MigrationCmd, InScope
<1>9. OwnLocks(c)' /\ InScope(c)'
  <2>1. \A f \in ToSet(task[c].stale) : disk.lock[f] = c
    BY <1>d, <1>7 DEF MigrationCmd, OwnLocks, Owner
  <2> QED
    BY <1>d, <1>2, <1>6, <1>8, <2>1 DEF OwnLocks, InScope
<1>10. Batched(c)'
  <2>1. ASSUME NEW k \in 1 .. Len(b) PROVE Untouched(c, b[k])
    <3>a. b[k] \in EntrySet
      BY <1>2
    <3>1. b[k] \in EntrySet /\ b[k].path \in Paths /\ b[k].path[2] \in FileSet
      BY <3>a DEF EntrySet, Paths
    <3>2. IsDoc(b[k]) => b[k].path = Doc(b[k].path[2])
      BY <3>1 DEF IsDoc, Paths, Doc
    <3> QED
      BY <1>2, <1>8, <3>1, <3>2 DEF Untouched, HasDoc
  <2>2. b # <<>> => Len(b) \in Nat /\ Len(b) > 0
    BY <1>2
  <2>3. \A k \in 1 .. Len(b) : Untouched(c, b[k])'
    BY <1>d, <2>1 DEF Untouched
  <2> QED
    BY <1>6, <2>2, <2>3 DEF Batched
<1>11. Found(c)'
  <2>1. b = <<>> => \A f \in FileSet : ~HasDoc(b, f)
    BY DEF HasDoc
  <2> QED
    BY <1>d, <1>1, <1>2, <1>6, <2>1 DEF Found
<1> QED
  BY <1>d, <1>5, <1>9, <1>10, <1>11, MigrationTaskKeeps DEF MigrationCmd


\* A lock is taken from nobody who lives.
LEMMA MigrationLockKeeps ==
    ASSUME MigrationInv, NEW c \in Commands, MigrationLock(c)
    PROVE  MigrationInv'
<1>d. disk \in MigrationDisks /\ task \in MigrationTasks /\ MigrationCmd(c) /\ task[c] \in MigrationTask
  BY DEF MigrationInv, MigrationTasks
<1>1. task[c].pc = "lock" /\ task[c].batch = <<>> /\ task[c].i \in 1 .. Len(task[c].stale)
      /\ \A k \in 1 .. task[c].i - 1 : disk.lock[task[c].stale[k]] = c
  BY <1>d DEF MigrationLock, At, MigrationCmd, InScope, OwnLocks
<1>2. task[c].stale \in Seq(FileSet) /\ task[c].i \in Nat
  BY <1>d DEF MigrationTask
<1> DEFINE f == task[c].stale[task[c].i]
<1>3. f \in FileSet
  BY <1>1, <1>2
<1>4. /\ disk' = [disk EXCEPT !.lock[f] = c]
      /\ disk.lock[f] = 0 \/ Dead(disk.lock[f])
  BY DEF MigrationLock
<1> HIDE DEF f
<1>5. /\ disk' \in MigrationDisks /\ disk'.lock = [disk.lock EXCEPT ![f] = c]
      /\ disk'.at = disk.at /\ disk'.bak = disk.bak /\ disk'.was = disk.was
  BY <1>d, <1>3, <1>4 DEF MigrationDisks
<1> DEFINE r == [task[c] EXCEPT !.i = @ + 1,
                      !.pc = IF task[c].i = Len(task[c].stale) THEN "commit" ELSE "lock"]
<1>6. task' = [task EXCEPT ![c] = r]
  BY <1>d DEF MigrationLock, MigrationTasks
<1>7. r \in MigrationTask
  <2>1. task[c].i + 1 \in Nat
    BY <1>2
  <2> QED
    BY <1>d, <2>1 DEF MigrationTask, MigrationPcs
<1>8. task' \in MigrationTasks /\ task'[c] = r /\ \A d \in Commands \ {c} : task'[d] = task[d]
  BY <1>d, <1>6, <1>7, MigrationTaskNext
<1>9. /\ task'[c].i = task[c].i + 1 /\ task'[c].stale = task[c].stale /\ task'[c].batch = task[c].batch
      /\ task'[c].pc = IF task[c].i = Len(task[c].stale) THEN "commit" ELSE "lock"
  BY <1>d, <1>8 DEF MigrationTask
<1>10. \A k \in 1 .. task[c].i : disk'.lock[task[c].stale[k]] = c
  <2> SUFFICES ASSUME NEW k \in 1 .. task[c].i PROVE disk'.lock[task[c].stale[k]] = c
    OBVIOUS
  <2>1. task[c].stale[k] \in FileSet
    BY <1>1, <1>2
  <2>2. CASE k = task[c].i
    BY <1>d, <1>3, <1>5, <2>2 DEF f, MigrationDisks
  <2>3. CASE k # task[c].i
    <3>1. disk.lock[task[c].stale[k]] = c
      BY <1>1, <1>2, <2>3
    <3> QED
      BY <1>d, <1>5, <2>1, <3>1 DEF MigrationDisks
  <2> QED
    BY <2>2, <2>3
<1>11. OwnLocks(c)'
  <2>1. CASE task[c].i = Len(task[c].stale)
    <3>1. \A g \in ToSet(task[c].stale) : disk'.lock[g] = c
      BY <1>2, <1>10, <2>1 DEF ToSet
    <3> QED
      BY <1>9, <2>1, <3>1 DEF OwnLocks, Owner
  <2>2. CASE task[c].i # Len(task[c].stale)
    <3>1. task'[c].i \in 1 .. Len(task[c].stale)
      BY <1>1, <1>2, <1>9, <2>2
    <3>2. \A k \in 1 .. task'[c].i - 1 : disk'.lock[task[c].stale[k]] = c
      BY <1>1, <1>2, <1>9, <1>10
    <3> QED
      BY <1>9, <2>2, <3>1, <3>2 DEF OwnLocks, Owner
  <2> QED
    BY <2>1, <2>2
<1>12. InScope(c)' /\ Batched(c)' /\ Found(c)'
  BY <1>d, <1>1, <1>5, <1>9 DEF MigrationCmd, InScope, Batched, Found
<1>13. \A d \in Commands \ {c}, g \in FileSet : disk.lock[g] = d /\ ~Dead(d) => disk'.lock[g] = d
  BY <1>d, <1>3, <1>4, <1>5, LocalAssumption DEF MigrationDisks
<1>14. \A g \in FileSet : Kept(g) => Kept(g)'
  BY <1>5 DEF Kept
<1> QED
  BY <1>5, <1>8, <1>11, <1>12, <1>13, <1>14, MigrationStepKeeps DEF MigrationCmd

\* The locks of a command that is done are free again.
LEMMA MigrationReleaseKeeps ==
    ASSUME MigrationInv, NEW c \in Commands, MigrationRelease(c)
    PROVE  MigrationInv'
<1>d. disk \in MigrationDisks /\ task \in MigrationTasks /\ MigrationCmd(c) /\ task[c] \in MigrationTask
  BY DEF MigrationInv, MigrationTasks
<1>1. Unlocked(c) \in [FileSet -> Commands \cup {0}]
  BY <1>d DEF Unlocked, MigrationDisks
<1>2. /\ disk' \in MigrationDisks /\ disk'.lock = Unlocked(c)
      /\ disk'.at = disk.at /\ disk'.bak = disk.bak /\ disk'.was = disk.was
  BY <1>d, <1>1 DEF MigrationRelease, MigrationDisks
<1> DEFINE r == [task[c] EXCEPT !.pc = "end"]
<1>3. task' = [task EXCEPT ![c] = r]
  BY <1>d DEF MigrationRelease, Step, MigrationTasks
<1>4. r \in MigrationTask
  BY <1>d DEF MigrationTask, MigrationPcs
<1>5. task' \in MigrationTasks /\ task'[c] = r /\ \A d \in Commands \ {c} : task'[d] = task[d]
  BY <1>d, <1>3, <1>4, MigrationTaskNext
<1>6. task'[c].pc = "end" /\ task'[c].stale = task[c].stale /\ task'[c].batch = task[c].batch
  BY <1>d, <1>5 DEF MigrationTask
<1>7. MigrationCmd(c)'
  <2>1. OwnLocks(c)' /\ Batched(c)' /\ Found(c)'
    BY <1>6 DEF OwnLocks, Owner, Batched, Found
  <2>2. InScope(c)'
    BY <1>d, <1>2, <1>6 DEF MigrationCmd, InScope
  <2> QED
    BY <2>1, <2>2 DEF MigrationCmd
<1>8. \A d \in Commands \ {c}, g \in FileSet : disk.lock[g] = d => disk'.lock[g] = d
  BY <1>2 DEF Unlocked
<1>9. \A g \in FileSet : Kept(g) => Kept(g)'
  BY <1>2 DEF Kept
<1> QED
  BY <1>2, <1>5, <1>7, <1>8, <1>9, MigrationStepKeeps

\* A first document is written where there was none and nobody holds the lock.
LEMMA MigrationCommandKeeps ==
    ASSUME MigrationInv, NEW c \in Commands, MigrationCommand(c)
    PROVE  MigrationInv'
<1>d. disk \in MigrationDisks /\ task \in MigrationTasks /\ MigrationCmd(c) /\ task[c] \in MigrationTask
  BY DEF MigrationInv, MigrationTasks
<1> DEFINE r == [task[c] EXCEPT !.pc = "end"]
<1>3. task' = [task EXCEPT ![c] = r] /\ task[c].pc = "command"
  BY <1>d DEF MigrationCommand, Step, At, MigrationTasks
<1>4. r \in MigrationTask
  BY <1>d DEF MigrationTask, MigrationPcs
<1>5. task' \in MigrationTasks /\ task'[c] = r /\ \A d \in Commands \ {c} : task'[d] = task[d]
  BY <1>d, <1>3, <1>4, MigrationTaskNext
<1>6. task'[c].pc = "end" /\ task'[c].stale = task[c].stale /\ task'[c].batch = task[c].batch
  BY <1>d, <1>5 DEF MigrationTask
<1>7. disk'.bak = disk.bak => MigrationCmd(c)'
  <2>1. Batched(c)' /\ Found(c)'
    BY <1>6 DEF Batched, Found
  <2>2. OwnLocks(c)'
    BY <1>d, <1>6 DEF MigrationCmd, OwnLocks, Owner
  <2>3. disk'.bak = disk.bak => InScope(c)'
    BY <1>d, <1>6 DEF MigrationCmd, InScope
  <2> QED
    BY <2>1, <2>2, <2>3 DEF MigrationCmd
<1>8. CASE disk' = disk
  BY <1>d, <1>5, <1>7, <1>8, MigrationTaskKeeps
<1>9. ASSUME NEW f \in FileSet, disk.at[Doc(f)] = "none", disk.lock[f] = 0 \/ Dead(disk.lock[f]),
             disk' = [disk EXCEPT !.at[Doc(f)] = "fresh"]
      PROVE  MigrationInv'
  <2>1. Doc(f) \in Paths /\ \A g \in FileSet : Copy(g) # Doc(f) /\ (Doc(g) = Doc(f) => g = f)
    BY DEF Doc, Copy, Paths
  <2>2. [disk.at EXCEPT ![Doc(f)] = "fresh"] \in [Paths -> Versions]
    BY <1>d DEF MigrationDisks, Versions
  <2>3. /\ disk' \in MigrationDisks /\ disk'.at = [disk.at EXCEPT ![Doc(f)] = "fresh"]
        /\ disk'.lock = disk.lock /\ disk'.bak = disk.bak /\ disk'.was = disk.was
    BY <1>d, <1>9, <2>2 DEF MigrationDisks
  <2>4. \A g \in FileSet : Copy(g) \in Paths /\ Doc(g) \in Paths
    BY DEF Doc, Copy, Paths
  <2>5. \A g \in FileSet : disk'.at[Copy(g)] = disk.at[Copy(g)] /\ (g # f => disk'.at[Doc(g)] = disk.at[Doc(g)])
    BY <1>d, <2>1, <2>3, <2>4 DEF MigrationDisks
  <2>6. \A d \in Commands \ {c}, g \in FileSet : disk.lock[g] = d /\ ~Dead(d) => g # f
    BY <1>9, LocalAssumption
  <2>7. \A g \in FileSet : Kept(g) => Kept(g)'
    BY <1>9, <2>3, <2>5 DEF Kept
  <2> QED
    BY <1>5, <1>7, <2>3, <2>5, <2>6, <2>7, MigrationStepKeeps
<1> QED
  BY <1>8, <1>9 DEF MigrationCommand


\* A batch that has an entry is not empty.
LEMMA SomeEntry == \A b, i : i \in 1 .. Len(b) => b # <<>>
OBVIOUS

\* The entry that a command is at is of a file that it has locked, and the only one of its path.
LEMMA EntryLocked ==
    ASSUME MigrationInv, NEW c \in Commands, task[c].pc \in {"displace", "publish", "rollback"}
    PROVE  LET e == Entry(c) IN
           /\ task[c].i \in 1 .. Len(task[c].batch) /\ e = task[c].batch[task[c].i]
           /\ e \in EntrySet /\ e.path \in Paths /\ e.path[2] \in FileSet
           /\ e.path = Doc(e.path[2]) \/ e.path = Copy(e.path[2])
           /\ IsDoc(e) <=> e.path = Doc(e.path[2])
           /\ e.path[2] \in ToSet(task[c].stale) /\ disk.lock[e.path[2]] = c
           /\ \A k \in 1 .. Len(task[c].batch) : k # task[c].i => task[c].batch[k].path # e.path
           /\ IsDoc(e) => HasDoc(task[c].batch, e.path[2])
<1>1. task \in MigrationTasks /\ MigrationCmd(c)
  BY DEF MigrationInv
<1>2. task[c].i \in 1 .. Len(task[c].batch)
  BY <1>1 DEF MigrationCmd, Batched
<1>3. Entry(c).path[2] \in ToSet(task[c].stale) /\ disk.lock[Entry(c).path[2]] = c
  BY <1>1, <1>2 DEF Entry, MigrationCmd, InScope, OwnLocks, Owner
<1>4. \A k \in 1 .. Len(task[c].batch) : k # task[c].i => task[c].batch[k].path # Entry(c).path
  BY <1>1, <1>2 DEF Entry, MigrationCmd, InScope, Shape
<1> QED
  BY <1>1, <1>2, <1>3, <1>4, EntryPlace DEF Entry, IsDoc, HasDoc

\* A step of writeJsonAll: one path changes, and the command's rollback copies.
LEMMA BatchStepKeeps ==
    ASSUME MigrationInv, NEW c \in Commands, task[c].pc \in {"displace", "publish", "rollback"},
           disk' \in MigrationDisks, NEW r \in MigrationTask, task' = [task EXCEPT ![c] = r],
           disk'.was = disk.was, disk'.lock = disk.lock,
           \A d \in Commands \ {c} : disk'.bak[d] = disk.bak[d],
           \A p \in Paths : p # Entry(c).path => disk'.at[p] = disk.at[p],
           NEW f \in FileSet, f = Entry(c).path[2], Kept(f) => Kept(f)',
           \A p \in Paths : p # Entry(c).path => disk'.bak[c][p] = disk.bak[c][p],
           MigrationCmd(c)'
    PROVE  MigrationInv'
<1>1. task' \in MigrationTasks /\ \A d \in Commands \ {c} : task'[d] = task[d]
  BY MigrationTaskNext DEF MigrationInv
<1> DEFINE e == Entry(c)
<1>2. e.path \in Paths /\ e.path[2] \in FileSet /\ disk.lock[e.path[2]] = c
  BY EntryLocked
<1> HIDE DEF e
<1>3. \A g \in FileSet : Doc(g) \in Paths /\ Copy(g) \in Paths /\ Doc(g)[2] = g /\ Copy(g)[2] = g
  BY DEF Doc, Copy, Paths
<1>4. \A g \in FileSet : g # e.path[2] => disk'.at[Doc(g)] = disk.at[Doc(g)] /\ disk'.at[Copy(g)] = disk.at[Copy(g)]
  BY <1>3 DEF e
<1>5. \A d \in Commands \ {c}, g \in FileSet : disk.lock[g] = d => g # e.path[2]
  BY <1>2
<1>6. ASSUME NEW g \in FileSet, Kept(g), g # e.path[2] PROVE Kept(g)'
  <2>1. \A d \in Commands, p \in Paths : p[2] = g => disk'.bak[d][p] = disk.bak[d][p]
    BY <1>6 DEF e
  <2> QED
    BY <1>4, <1>6, <2>1 DEF Kept
<1>7. \A g \in FileSet : Kept(g) => Kept(g)'
  BY <1>6 DEF e
<1>8. \A d \in Commands \ {c}, g \in FileSet : disk.lock[g] = d /\ ~Dead(d) =>
               /\ disk'.lock[g] = d
               /\ disk'.at[Doc(g)] = disk.at[Doc(g)]
               /\ disk'.at[Copy(g)] = disk.at[Copy(g)]
  BY <1>4, <1>5
<1> QED
  BY <1>1, <1>7, <1>8, MigrationStepKeeps

\* The file at one path, and the rollback copy of it.
Moves(c, p, at, bak) ==
    /\ disk' = [disk EXCEPT !.at = disk'.at, !.bak = disk'.bak]
    /\ disk'.at = [disk.at EXCEPT ![p] = at]
    /\ disk'.bak = [disk.bak EXCEPT ![c] = [disk.bak[c] EXCEPT ![p] = bak]]
OnlyMoved(c, p, at, bak) ==
    /\ disk' \in MigrationDisks /\ disk'.was = disk.was /\ disk'.lock = disk.lock
    /\ \A d \in Commands \ {c} : disk'.bak[d] = disk.bak[d]
    /\ \A q \in Paths : q # p => disk'.at[q] = disk.at[q] /\ disk'.bak[c][q] = disk.bak[c][q]
    /\ disk'.at[p] = at /\ disk'.bak[c][p] = bak

LEMMA Moved ==
    ASSUME disk \in MigrationDisks, NEW c \in Commands, NEW p \in Paths, NEW at \in Versions, NEW bak \in Versions,
           Moves(c, p, at, bak)
    PROVE  OnlyMoved(c, p, at, bak)
<1>0. /\ disk' = [disk EXCEPT !.at = disk'.at, !.bak = disk'.bak]
      /\ disk'.at = [disk.at EXCEPT ![p] = at]
      /\ disk'.bak = [disk.bak EXCEPT ![c] = [disk.bak[c] EXCEPT ![p] = bak]]
  BY DEF Moves
<1>1. disk.at \in [Paths -> Versions] /\ disk.bak \in [Commands -> [Paths -> Versions]] /\ disk.bak[c] \in [Paths -> Versions]
  BY DEF MigrationDisks
<1>2. disk'.was = disk.was /\ disk'.lock = disk.lock /\ disk'.kind = disk.kind
  BY <1>0, <1>1 DEF MigrationDisks
<1>3. [disk.at EXCEPT ![p] = at] \in [Paths -> Versions] /\ [disk.bak[c] EXCEPT ![p] = bak] \in [Paths -> Versions]
  BY <1>1
<1>4. [disk.bak EXCEPT ![c] = [disk.bak[c] EXCEPT ![p] = bak]] \in [Commands -> [Paths -> Versions]]
  BY <1>1, <1>3
<1>5. disk' \in MigrationDisks
  <2>1. disk'.at \in [Paths -> Versions] /\ disk'.bak \in [Commands -> [Paths -> Versions]]
    BY <1>0, <1>3, <1>4
  <2> QED
    BY <1>0, <1>2, <2>1 DEF MigrationDisks
<1>6. /\ \A d \in Commands \ {c} : disk'.bak[d] = disk.bak[d]
      /\ disk'.bak[c] = [disk.bak[c] EXCEPT ![p] = bak]
  BY <1>0, <1>1
<1>7. \A q \in Paths : q # p => disk'.at[q] = disk.at[q] /\ disk'.bak[c][q] = disk.bak[c][q]
  BY <1>0, <1>1, <1>6
<1>8. disk'.at[p] = at /\ disk'.bak[c][p] = bak
  BY <1>0, <1>1, <1>6
<1> QED
  BY <1>2, <1>5, <1>6, <1>7, <1>8 DEF OnlyMoved


\* What a command found stays true of the documents it does not write.
LEMMA FoundKept ==
    ASSUME MigrationInv, NEW c \in Commands, task[c].pc \in {"displace", "publish", "rollback", "flush"},
           task[c].batch # <<>>, task'[c].batch = task[c].batch, task'[c].stale = task[c].stale,
           task'[c].before = task[c].before,
           \A f \in FileSet : disk'.at[Doc(f)] = disk.at[Doc(f)] \/ HasDoc(task[c].batch, f)
    PROVE  Found(c)'
<1>1. task[c].stale \in Seq(FileSet) /\ Found(c)
  BY DEF MigrationInv, MigrationTasks, MigrationTask, MigrationCmd
<1>2. \A f \in ToSet(task[c].stale) : f \in FileSet
  BY <1>1 DEF ToSet
<1>3. \A f \in FileSet : HasDoc(task'[c].batch, f) <=> HasDoc(task[c].batch, f)
  OBVIOUS
<1> QED
  BY <1>1, <1>2, <1>3 DEF Found

LEMMA MigrationDisplaceKeeps ==
    ASSUME MigrationInv, NEW c \in Commands, MigrationDisplace(c)
    PROVE  MigrationInv'
<1>d. disk \in MigrationDisks /\ task \in MigrationTasks /\ MigrationCmd(c) /\ task[c] \in MigrationTask
      /\ task[c].pc = "displace"
  BY DEF MigrationInv, MigrationTasks, MigrationDisplace, At
<1> PICK b, i, p : b = task[c].batch /\ i = task[c].i /\ p = Entry(c).path
  OBVIOUS
<1>1. /\ i \in 1 .. Len(b) /\ Entry(c) = b[i] /\ p = b[i].path /\ p \in Paths /\ p[2] \in FileSet
      /\ p = Doc(p[2]) \/ p = Copy(p[2])
      /\ IsDoc(b[i]) <=> p = Doc(p[2])
      /\ \A k \in 1 .. Len(b) : k # i => b[k].path # p
      /\ IsDoc(b[i]) => HasDoc(b, p[2])
  BY <1>d, EntryLocked
<1>2. b \in Seq(EntrySet) /\ \A k \in 1 .. Len(b) : b[k].path \in Paths
  BY <1>d, EntryPlace DEF MigrationTask
<1>3. disk.at[p] \in Versions /\ "none" \in Versions
  BY <1>d, <1>1 DEF MigrationDisks, Versions
<1> PICK at, bak : at = "none" /\ bak = disk.at[p]
  OBVIOUS
<1>4. /\ at \in Versions /\ bak \in Versions
      /\ disk' = [disk EXCEPT !.at = disk'.at, !.bak = disk'.bak]
      /\ disk'.at = [disk.at EXCEPT ![p] = at]
      /\ disk'.bak = [disk.bak EXCEPT ![c] = [disk.bak[c] EXCEPT ![p] = bak]]
  BY <1>d, <1>3 DEF MigrationDisplace, MigrationDisks
<1>a. /\ disk' \in MigrationDisks /\ disk'.was = disk.was /\ disk'.lock = disk.lock
      /\ \A d \in Commands \ {c} : disk'.bak[d] = disk.bak[d]
      /\ \A q \in Paths : q # p => disk'.at[q] = disk.at[q] /\ disk'.bak[c][q] = disk.bak[c][q]
      /\ disk'.at[p] = at /\ disk'.bak[c][p] = bak
  <2>1. disk \in MigrationDisks /\ p \in Paths
    BY <1>d, <1>1
  <2>2. Moves(c, p, at, bak)
    BY <1>4 DEF Moves
  <2>3. OnlyMoved(c, p, at, bak)
    BY <2>1, <2>2, <1>4, Moved
  <2> QED
    BY <2>3 DEF OnlyMoved
<1>5. /\ disk' \in MigrationDisks /\ disk'.was = disk.was /\ disk'.lock = disk.lock
      /\ \A d \in Commands \ {c} : disk'.bak[d] = disk.bak[d]
      /\ \A q \in Paths : q # p => disk'.at[q] = disk.at[q] /\ disk'.bak[c][q] = disk.bak[c][q]
      /\ disk'.at[p] = "none" /\ disk'.bak[c][p] = disk.at[p]
  BY <1>a
<1> DEFINE r == [task[c] EXCEPT !.pc = "publish"]
<1>6. task' = [task EXCEPT ![c] = r]
  BY <1>d DEF MigrationDisplace, Step, MigrationTasks
<1>7. r \in MigrationTask
  BY <1>d DEF MigrationTask, MigrationPcs
<1>8. task'[c] = r
  BY <1>d, <1>6, <1>7, MigrationTaskNext
<1>9. /\ task'[c].pc = "publish" /\ task'[c].stale = task[c].stale /\ task'[c].batch = b
      /\ task'[c].i = i /\ task'[c].before = task[c].before
  BY <1>d, <1>8 DEF MigrationTask
<1>10. \A k \in 1 .. Len(b) : IF k < i THEN Installed(c, b[k]) ELSE Untouched(c, b[k])
  BY <1>d DEF MigrationCmd, Batched
<1>11. Untouched(c, b[i]) /\ i \in Nat
  <2>1. i \in 1 .. Len(b)
    BY <1>1
  <2>2. Len(b) \in Nat
    BY <1>2
  <2>3. i \in Nat /\ ~(i < i)
    BY <2>1, <2>2
  <2> QED
    BY <1>10, <2>1, <2>3
<1>12. ASSUME NEW k \in 1 .. Len(b), k # i
       PROVE  (Installed(c, b[k])' <=> Installed(c, b[k])) /\ (Untouched(c, b[k])' <=> Untouched(c, b[k]))
  <2>1. b[k].path \in Paths /\ b[k].path # p
    BY <1>1, <1>2, <1>12
  <2>2. disk'.at[b[k].path] = disk.at[b[k].path] /\ disk'.bak[c][b[k].path] = disk.bak[c][b[k].path]
    BY <1>5, <2>1
  <2> QED
    BY <2>2 DEF Installed, Untouched, IsDoc
<1>13. MovedAway(c, b[i])'
  BY <1>1, <1>5, <1>11 DEF MovedAway, Untouched
<1>14. Batched(c)'
  <2>1. \A k \in 1 .. Len(b) : (k < i => Installed(c, b[k])') /\ (k > i => Untouched(c, b[k])')
    BY <1>10, <1>11, <1>12
  <2> QED
    BY <1>1, <1>9, <1>13, <2>1 DEF Batched
<1>15. OwnLocks(c)' /\ InScope(c)'
  <2>1. \A q \in Paths : disk'.bak[c][q] # "none" => \E k \in 1 .. Len(b) : b[k].path = q
    <3>1. \A q \in Paths : disk.bak[c][q] # "none" => \E k \in 1 .. Len(b) : b[k].path = q
      BY <1>d DEF MigrationCmd, InScope
    <3> SUFFICES ASSUME NEW q \in Paths, disk'.bak[c][q] # "none"
                 PROVE  \E k \in 1 .. Len(b) : b[k].path = q
      OBVIOUS
    <3>2. CASE q = p
      BY <1>1, <3>2
    <3>3. CASE q # p
      BY <1>5, <3>1, <3>3
    <3> QED
      BY <3>2, <3>3
  <2>2. InScope(c)'
    BY <1>d, <1>9, <2>1 DEF MigrationCmd, InScope
  <2>3. OwnLocks(c)'
    BY <1>d, <1>5, <1>9 DEF MigrationCmd, OwnLocks, Owner
  <2> QED
    BY <2>2, <2>3
<1>16. Found(c)'
  <2>1. \A f \in FileSet : disk'.at[Doc(f)] = disk.at[Doc(f)] \/ HasDoc(b, f)
    <3> SUFFICES ASSUME NEW f \in FileSet, p = Doc(f) PROVE HasDoc(b, f)
      BY <1>5 DEF Doc, Paths
    <3>1. p[2] = f
      BY DEF Doc
    <3> QED
      BY <1>1, <3>1
  <2>2. b # <<>>
    BY <1>1, SomeEntry
  <2> QED
    BY <1>d, <1>9, <2>1, <2>2, FoundKept
<1>17. Kept(p[2]) => Kept(p[2])'
  <2>1. SUFFICES ASSUME Kept(p[2]) PROVE Kept(p[2])'
    OBVIOUS
  <2>2. CASE disk.at[p] = "old"
    BY <1>1, <1>5, <2>2 DEF Kept
  <2>3. CASE disk.at[p] # "old"
    <3>1. \A q \in Paths : disk.at[q] = "old" => disk'.at[q] = "old"
      BY <1>5, <2>3
    <3>2. \A d \in Commands, q \in Paths : disk.bak[d][q] = "old" => disk'.bak[d][q] = "old"
      <4> SUFFICES ASSUME NEW d \in Commands, NEW q \in Paths, disk.bak[d][q] = "old"
                   PROVE  disk'.bak[d][q] = "old"
        OBVIOUS
      <4>1. disk.bak[c][p] # "old"
        BY <1>1, <1>11 DEF Untouched
      <4>2. CASE d # c
        BY <1>5, <4>2
      <4>3. CASE d = c
        BY <1>5, <4>1, <4>3
      <4> QED
        BY <4>2, <4>3
    <3>3. Doc(p[2]) \in Paths /\ Copy(p[2]) \in Paths
      BY <1>1 DEF Doc, Copy, Paths
    <3> QED
      BY <2>1, <3>1, <3>2, <3>3 DEF Kept
  <2> QED
    BY <2>2, <2>3
<1> QED
  BY <1>d, <1>1, <1>5, <1>6, <1>7, <1>14, <1>15, <1>16, <1>17, BatchStepKeeps DEF MigrationCmd


\* The new file is renamed to where nothing is left.
LEMMA MigrationPublishKeeps ==
    ASSUME MigrationInv, NEW c \in Commands, MigrationPublish(c)
    PROVE  MigrationInv'
<1>d. disk \in MigrationDisks /\ task \in MigrationTasks /\ MigrationCmd(c) /\ task[c] \in MigrationTask
      /\ task[c].pc = "publish"
  BY DEF MigrationInv, MigrationTasks, MigrationPublish, At
<1> PICK b, i, p : b = task[c].batch /\ i = task[c].i /\ p = Entry(c).path
  OBVIOUS
<1>1. /\ i \in 1 .. Len(b) /\ Entry(c) = b[i] /\ p = b[i].path /\ p \in Paths /\ p[2] \in FileSet
      /\ p = Doc(p[2]) \/ p = Copy(p[2])
      /\ IsDoc(b[i]) <=> p = Doc(p[2])
      /\ \A k \in 1 .. Len(b) : k # i => b[k].path # p
      /\ IsDoc(b[i]) => HasDoc(b, p[2])
      /\ b[i] \in EntrySet
  BY <1>d, EntryLocked
<1>2. /\ b \in Seq(EntrySet) /\ \A k \in 1 .. Len(b) : b[k].path \in Paths
      /\ i \in Nat /\ Len(b) \in Nat
  BY <1>d, EntryPlace DEF MigrationTask
<1> PICK at, bak : at = b[i].value /\ bak = disk.bak[c][p]
  OBVIOUS
<1>4. /\ at \in Versions /\ bak \in Versions
      /\ disk' = [disk EXCEPT !.at = disk'.at, !.bak = disk'.bak]
      /\ disk'.at = [disk.at EXCEPT ![p] = at]
      /\ disk'.bak = [disk.bak EXCEPT ![c] = [disk.bak[c] EXCEPT ![p] = bak]]
  <2>0. disk.bak[c] \in [Paths -> Versions]
    BY <1>d DEF MigrationDisks
  <2>1. at \in Versions /\ bak \in Versions
    <3>1. at \in Versions
      BY <1>1 DEF EntrySet, Versions
    <3> QED
      BY <1>1, <2>0, <3>1
  <2>2. disk' = [disk EXCEPT !.at[p] = at]
    BY <1>1 DEF MigrationPublish
  <2>3. disk'.bak = disk.bak /\ disk'.at = [disk.at EXCEPT ![p] = at]
        /\ disk' = [disk EXCEPT !.at = disk'.at, !.bak = disk'.bak]
    BY <1>d, <2>2 DEF MigrationDisks
  <2>4. disk.bak = [disk.bak EXCEPT ![c] = [disk.bak[c] EXCEPT ![p] = bak]]
    BY <1>d DEF MigrationDisks
  <2> QED
    BY <2>1, <2>3, <2>4
<1>5. /\ disk' \in MigrationDisks /\ disk'.was = disk.was /\ disk'.lock = disk.lock
      /\ \A d \in Commands \ {c} : disk'.bak[d] = disk.bak[d]
      /\ \A q \in Paths : q # p => disk'.at[q] = disk.at[q] /\ disk'.bak[c][q] = disk.bak[c][q]
      /\ disk'.at[p] = at /\ disk'.bak[c][p] = bak
  <2>1. disk \in MigrationDisks /\ p \in Paths
    BY <1>d, <1>1
  <2>2. Moves(c, p, at, bak)
    BY <1>4 DEF Moves
  <2>3. OnlyMoved(c, p, at, bak)
    BY <2>1, <2>2, <1>4, Moved
  <2> QED
    BY <2>3 DEF OnlyMoved
<1>b. disk'.bak = disk.bak
  <2>1. disk' = [disk EXCEPT !.at[p] = at]
    BY <1>1 DEF MigrationPublish
  <2> QED
    BY <1>d, <2>1 DEF MigrationDisks
<1>m. disk.at[p] = "none" /\ (IsDoc(b[i]) => disk.bak[c][p] = "old")
      /\ \A k \in 1 .. Len(b) : (k < i => Installed(c, b[k])) /\ (k > i => Untouched(c, b[k]))
  BY <1>d, <1>1 DEF MigrationCmd, Batched, MovedAway
<1> DEFINE last == i = Len(b)
           r == IF last THEN [task[c] EXCEPT !.pc = "flush"] ELSE [task[c] EXCEPT !.pc = "displace", !.i = @ + 1]
<1>6. task' = [task EXCEPT ![c] = r]
  BY <1>d DEF MigrationPublish, Step, MigrationTasks
<1>7. r \in MigrationTask
  <2>1. task[c].i + 1 \in Nat
    BY <1>2
  <2> QED
    BY <1>d, <2>1 DEF MigrationTask, MigrationPcs
<1>8. task'[c] = r
  BY <1>d, <1>6, <1>7, MigrationTaskNext
<1>9. /\ task'[c].pc = IF last THEN "flush" ELSE "displace"
      /\ task'[c].stale = task[c].stale /\ task'[c].batch = b
      /\ ~last => task'[c].i = i + 1
      /\ task'[c].before = task[c].before
  BY <1>d, <1>8 DEF MigrationTask
<1>12. ASSUME NEW k \in 1 .. Len(b), k # i
       PROVE  (Installed(c, b[k])' <=> Installed(c, b[k])) /\ (Untouched(c, b[k])' <=> Untouched(c, b[k]))
  <2>1. b[k].path \in Paths /\ b[k].path # p
    BY <1>1, <1>2, <1>12
  <2>2. disk'.at[b[k].path] = disk.at[b[k].path] /\ disk'.bak[c][b[k].path] = disk.bak[c][b[k].path]
    BY <1>5, <2>1
  <2>3. Installed(c, b[k])' <=> Installed(c, b[k])
    BY <2>2 DEF Installed
  <2>4. Untouched(c, b[k])' <=> Untouched(c, b[k])
    BY <2>2 DEF Untouched
  <2> QED
    BY <2>3, <2>4
<1>13. Installed(c, b[i])'
  BY <1>1, <1>5, <1>m DEF Installed
<1>14. Batched(c)'
  <2>1. \A k \in 1 .. Len(b) : (k < i + 1 => Installed(c, b[k])') /\ (k > i => Untouched(c, b[k])')
    BY <1>2, <1>m, <1>12, <1>13
  <2>2. CASE last
    <3>1. b # <<>>
      BY <1>1, SomeEntry
    <3> QED
      BY <1>2, <1>9, <2>1, <2>2, <3>1 DEF Batched
  <2>3. CASE ~last
    <3>1. i + 1 \in 1 .. Len(b)
      <4> HIDE DEF last
      <4>1. i # Len(b)
        BY <2>3 DEF last
      <4>2. i \in 1 .. Len(b) /\ i \in Nat /\ Len(b) \in Nat
        BY <1>1, <1>2
      <4> QED
        BY <4>1, <4>2
    <3>2. \A k \in 1 .. Len(b) : IF k < i + 1 THEN Installed(c, b[k])' ELSE Untouched(c, b[k])'
      BY <1>2, <2>1
    <3> QED
      BY <1>9, <2>3, <3>1, <3>2 DEF Batched
  <2> QED
    BY <2>2, <2>3
<1>15. OwnLocks(c)' /\ InScope(c)'
  <2>1. InScope(c)'
    BY <1>d, <1>9, <1>b DEF MigrationCmd, InScope
  <2>2. OwnLocks(c)'
    BY <1>d, <1>5, <1>9 DEF MigrationCmd, OwnLocks, Owner
  <2> QED
    BY <2>1, <2>2
<1>16. Found(c)'
  <2>1. \A f \in FileSet : disk'.at[Doc(f)] = disk.at[Doc(f)] \/ HasDoc(b, f)
    <3> SUFFICES ASSUME NEW f \in FileSet, p = Doc(f) PROVE HasDoc(b, f)
      BY <1>5 DEF Doc, Paths
    <3>1. p[2] = f
      BY DEF Doc
    <3> QED
      BY <1>1, <3>1
  <2>2. b # <<>>
    BY <1>1, SomeEntry
  <2> QED
    BY <1>d, <1>9, <2>1, <2>2, FoundKept
<1>17. Kept(p[2]) => Kept(p[2])'
  <2>1. \A q \in Paths : disk.at[q] = "old" => disk'.at[q] = "old"
    BY <1>5, <1>m
  <2>2. Doc(p[2]) \in Paths /\ Copy(p[2]) \in Paths
    BY <1>1 DEF Doc, Copy, Paths
  <2> QED
    BY <1>b, <2>1, <2>2 DEF Kept
<1> QED
  BY <1>d, <1>1, <1>5, <1>6, <1>7, <1>14, <1>15, <1>16, <1>17, BatchStepKeeps DEF MigrationCmd

\* A file that could not be renamed: what was recorded is to be rolled back.
LEMMA MigrationRenameFailsKeeps ==
    ASSUME MigrationInv, NEW c \in Commands, MigrationRenameFails(c)
    PROVE  MigrationInv'
<1>d. disk \in MigrationDisks /\ task \in MigrationTasks /\ MigrationCmd(c) /\ task[c] \in MigrationTask
      /\ task[c].pc \in {"displace", "publish"} /\ disk' = disk
  BY DEF MigrationInv, MigrationTasks, MigrationRenameFails
<1> PICK b, i, j : b = task[c].batch /\ i = task[c].i /\ j = Recorded(c)
  OBVIOUS
<1>1. i \in 1 .. Len(b) /\ i \in Nat /\ Len(b) \in Nat /\ b # <<>>
  <2>1. i \in 1 .. Len(b) /\ b \in Seq(EntrySet)
    BY <1>d, EntryLocked DEF MigrationTask
  <2> QED
    BY <2>1
<1>b. /\ task[c].pc = "displace" =>
            \A k \in 1 .. Len(b) : IF k < i THEN Installed(c, b[k]) ELSE Untouched(c, b[k])
      /\ task[c].pc = "publish" =>
            /\ MovedAway(c, b[i])
            /\ \A k \in 1 .. Len(b) : (k < i => Installed(c, b[k])) /\ (k > i => Untouched(c, b[k]))
  BY <1>d DEF MigrationCmd, Batched
<1>2. j = (IF task[c].pc = "publish" THEN i ELSE i - 1) /\ j \in Nat /\ j <= Len(b)
  BY <1>d, <1>1 DEF Recorded, At
<1>3. \A k \in 1 .. Len(b) : k > j /\ IsDoc(b[k]) => disk.at[b[k].path] = "old"
  <2>1. \A k \in 1 .. Len(b) : k > j => Untouched(c, b[k])
    BY <1>b, <1>d, <1>1, <1>2
  <2> QED
    BY <2>1 DEF Untouched
<1>4. \A k \in 1 .. Len(b) : k < j => Installed(c, b[k])
  BY <1>b, <1>d, <1>1, <1>2
<1>5. j > 0 => j \in 1 .. Len(b) /\ (IsDoc(b[j]) => disk.bak[c][b[j].path] = "old")
  <2>1. j > 0 => j \in 1 .. Len(b) /\ (Installed(c, b[j]) \/ MovedAway(c, b[j]))
    BY <1>b, <1>d, <1>1, <1>2
  <2> QED
    BY <2>1 DEF Installed, MovedAway
<1> DEFINE r == [task[c] EXCEPT !.pc = IF j = 0 THEN "release" ELSE "rollback", !.i = j, !.said = "failed"]
<1>6. task' = [task EXCEPT ![c] = r]
  BY <1>d DEF MigrationRenameFails, MigrationTasks
<1>7. r \in MigrationTask
  BY <1>d, <1>2 DEF MigrationTask, MigrationPcs
<1>8. task'[c] = r /\ task' \in MigrationTasks /\ \A d \in Commands \ {c} : task'[d] = task[d]
  BY <1>d, <1>6, <1>7, MigrationTaskNext
<1>9. /\ task'[c].pc = IF j = 0 THEN "release" ELSE "rollback"
      /\ task'[c].stale = task[c].stale /\ task'[c].batch = b
      /\ task'[c].i = j /\ task'[c].said = "failed" /\ task'[c].before = task[c].before
  BY <1>d, <1>8 DEF MigrationTask
<1>10. Batched(c)'
  <2>1. CASE j = 0
    <3>1. \A k \in 1 .. Len(b) : k > 0
      BY <1>1
    <3> QED
      BY <1>d, <1>3, <1>9, <2>1, <3>1 DEF Batched
  <2>2. CASE j # 0
    <3>1. \A k \in 1 .. Len(b) : (k < j => Installed(c, b[k])') /\ (k > j => Undone(c, b[k])')
      BY <1>d, <1>3, <1>4 DEF Installed, Undone
    <3>2. j \in 1 .. Len(b) /\ (IsDoc(b[j]) => disk'.bak[c][b[j].path] = "old")
      <4>1. j > 0
        <5>1. j \in Nat
          BY <1>2
        <5> QED
          BY <5>1, <2>2
      <4>2. j \in 1 .. Len(b)
        BY <1>5, <4>1
      <4>3. IsDoc(b[j]) => disk.bak[c][b[j].path] = "old"
        BY <1>5, <4>1
      <4> QED
        BY <1>d, <4>2, <4>3
    <3> QED
      BY <1>9, <2>2, <3>1, <3>2 DEF Batched
  <2> QED
    BY <2>1, <2>2
<1>11. OwnLocks(c)' /\ InScope(c)'
  BY <1>d, <1>9 DEF MigrationCmd, OwnLocks, Owner, InScope
<1>12. Found(c)'
  BY <1>d, <1>1, <1>9, FoundKept
<1> QED
  BY <1>d, <1>8, <1>10, <1>11, <1>12, MigrationTaskKeeps DEF MigrationCmd


\* One entry rolled back, or given up with its old file in the rollback copy.
RollsBack(c, safe) ==
    task[c].pc = "rollback" /\ safe \in BOOLEAN /\ (safe => task[c].safe) /\ NextRollback(c, safe)
RestMoved(c, p) == \A q \in Paths : q # p => disk'.at[q] = disk.at[q] /\ disk'.bak[c][q] = disk.bak[c][q]
BackAt(c, p, safe) == p[1] = "doc" => disk'.at[p] = "old" \/ (~safe /\ disk'.bak[c][p] = "old")
OneBack(c) ==
    /\ task' \in MigrationTasks /\ \E r \in MigrationTask : task' = [task EXCEPT ![c] = r]
    /\ \A d \in Commands \ {c} : task'[d] = task[d]
    /\ task'[c].stale = task[c].stale /\ task'[c].batch = task[c].batch
    /\ task'[c].before = task[c].before /\ task'[c].pc \in {"rollback", "release"}
    /\ Batched(c)'

LEMMA RolledBack ==
    ASSUME MigrationInv, NEW c \in Commands, NEW safe, RollsBack(c, safe),
           NEW p, p = Entry(c).path, RestMoved(c, p), BackAt(c, p, safe)
    PROVE  OneBack(c)
<1>a. task[c].pc = "rollback" /\ safe \in BOOLEAN /\ (safe => task[c].safe) /\ NextRollback(c, safe)
  BY DEF RollsBack
<1>b. \A q \in Paths : q # p => disk'.at[q] = disk.at[q] /\ disk'.bak[c][q] = disk.bak[c][q]
  BY DEF RestMoved
<1>c. p[1] = "doc" => disk'.at[p] = "old" \/ (~safe /\ disk'.bak[c][p] = "old")
  BY DEF BackAt
<1>d. disk \in MigrationDisks /\ task \in MigrationTasks /\ MigrationCmd(c) /\ task[c] \in MigrationTask
  BY DEF MigrationInv, MigrationTasks
<1> PICK b, i : b = task[c].batch /\ i = task[c].i
  OBVIOUS
<1>1. i \in 1 .. Len(b) /\ p = b[i].path /\ \A k \in 1 .. Len(b) : k # i => b[k].path # p
  BY <1>a, <1>d, EntryLocked
<1>2. /\ b \in Seq(EntrySet) /\ \A k \in 1 .. Len(b) : b[k].path \in Paths
  BY <1>d, EntryPlace DEF MigrationTask
<1>3. i \in Nat /\ Len(b) \in Nat /\ i - 1 \in Nat /\ b # <<>>
  <2>1. Len(b) \in Nat
    BY <1>2
  <2> QED
    BY <1>1, <2>1
<1> DEFINE r == [task[c] EXCEPT !.i = @ - 1, !.safe = safe,
                      !.pc = IF task[c].i > 1 THEN "rollback" ELSE "release",
                      !.said = IF safe THEN "failed" ELSE "manual"]
<1>4. task' = [task EXCEPT ![c] = r]
  BY <1>a, <1>d DEF NextRollback, MigrationTasks
<1>5. r \in MigrationTask
  BY <1>a, <1>d, <1>3 DEF MigrationTask, MigrationPcs
<1>6. task'[c] = r /\ task' \in MigrationTasks /\ \A d \in Commands \ {c} : task'[d] = task[d]
  BY <1>d, <1>4, <1>5, MigrationTaskNext
<1>7. /\ task'[c].pc = IF i > 1 THEN "rollback" ELSE "release"
      /\ task'[c].i = i - 1 /\ task'[c].safe = safe /\ task'[c].said = IF safe THEN "failed" ELSE "manual"
      /\ task'[c].stale = task[c].stale /\ task'[c].batch = b /\ task'[c].before = task[c].before
  BY <1>d, <1>6 DEF MigrationTask
<1>8. \A k \in 1 .. Len(b) : (k < i => Installed(c, b[k])) /\ (k > i => Undone(c, b[k]))
  BY <1>a, <1>d DEF MigrationCmd, Batched
<1>9. ASSUME NEW k \in 1 .. Len(b), k # i
      PROVE  /\ disk'.at[b[k].path] = disk.at[b[k].path]
             /\ disk'.bak[c][b[k].path] = disk.bak[c][b[k].path]
  BY <1>b, <1>1, <1>2, <1>9
<1>10. \A k \in 1 .. Len(b) : k < i =>
         Installed(c, b[k])' /\ (IsDoc(b[k]) => disk'.bak[c][b[k].path] = "old")
  <2> SUFFICES ASSUME NEW k \in 1 .. Len(b), k < i
               PROVE  Installed(c, b[k])' /\ (IsDoc(b[k]) => disk'.bak[c][b[k].path] = "old")
    OBVIOUS
  <2>1. k # i
    BY <1>3
  <2> QED
    BY <1>8, <1>9, <2>1 DEF Installed
<1>11. \A k \in 1 .. Len(b) : k > i - 1 => Undone(c, b[k])'
  <2> SUFFICES ASSUME NEW k \in 1 .. Len(b), k > i - 1, IsDoc(b[k])
               PROVE  disk'.at[b[k].path] = "old" \/ (~safe /\ disk'.bak[c][b[k].path] = "old")
    BY <1>7 DEF Undone
  <2>1. CASE k = i
    BY <1>c, <1>1, <2>1 DEF IsDoc
  <2>2. CASE k # i
    <3>1. k > i
      BY <1>3, <2>2
    <3>2. Undone(c, b[k])
      BY <1>8, <3>1
    <3>3. disk.at[b[k].path] = "old" \/ (~task[c].safe /\ disk.bak[c][b[k].path] = "old")
      BY <3>2 DEF Undone
    <3>4. disk'.at[b[k].path] = disk.at[b[k].path] /\ disk'.bak[c][b[k].path] = disk.bak[c][b[k].path]
      BY <1>9, <2>2
    <3> QED
      BY <1>a, <3>3, <3>4
  <2> QED
    BY <2>1, <2>2
<1>12. Batched(c)'
  <2>1. CASE i > 1
    <3>1. i - 1 \in 1 .. Len(b)
      BY <1>1, <1>3, <2>1
    <3>2. IsDoc(b[i - 1]) => disk'.bak[c][b[i - 1].path] = "old"
      <4>1. i - 1 < i
        BY <1>3
      <4> QED
        BY <1>10, <3>1, <4>1
    <3>3. \A k \in 1 .. Len(b) : (k < i - 1 => Installed(c, b[k])') /\ (k > i - 1 => Undone(c, b[k])')
      BY <1>3, <1>10, <1>11
    <3> QED
      BY <1>7, <2>1, <3>1, <3>2, <3>3 DEF Batched
  <2>2. CASE ~(i > 1)
    <3>1. \A k \in 1 .. Len(b) : k > i - 1
      BY <1>1, <1>3, <2>2
    <3>2. \A k \in 1 .. Len(b) : IsDoc(b[k]) => disk'.at[b[k].path] = "old" \/ ~safe
      BY <1>7, <1>11, <3>1 DEF Undone
    <3> QED
      BY <1>7, <2>2, <3>2 DEF Batched
  <2> QED
    BY <2>1, <2>2
<1> QED
  BY <1>4, <1>5, <1>6, <1>7, <1>12 DEF OneBack


\* The old file goes back; a permanent copy that goes was of a document that is back already,
\* or whose old file is kept.
LEMMA MigrationRollbackKeeps ==
    ASSUME MigrationInv, NEW c \in Commands, MigrationRollback(c)
    PROVE  MigrationInv'
<1>d. disk \in MigrationDisks /\ task \in MigrationTasks /\ MigrationCmd(c) /\ task[c] \in MigrationTask
      /\ task[c].pc = "rollback" /\ task[c].safe \in BOOLEAN /\ NextRollback(c, task[c].safe)
  BY DEF MigrationInv, MigrationTasks, MigrationTask, MigrationRollback, At
<1> PICK b, i, p : b = task[c].batch /\ i = task[c].i /\ p = Entry(c).path
  OBVIOUS
<1>1. /\ i \in 1 .. Len(b) /\ Entry(c) = b[i] /\ p = b[i].path /\ p \in Paths /\ p[2] \in FileSet
      /\ p = Doc(p[2]) \/ p = Copy(p[2])
      /\ IsDoc(b[i]) <=> p = Doc(p[2])
      /\ IsDoc(b[i]) => HasDoc(b, p[2])
      /\ b # <<>>
  BY <1>d, EntryLocked
<1>2. b \in Seq(EntrySet) /\ i \in Nat /\ Len(b) \in Nat
  BY <1>d, <1>1 DEF MigrationTask
<1>3. /\ IsDoc(b[i]) => disk.bak[c][p] = "old"
      /\ \A k \in 1 .. Len(b) : (k < i => Installed(c, b[k])) /\ (k > i => Undone(c, b[k]))
  BY <1>d, <1>1 DEF MigrationCmd, Batched
<1> PICK at, bak : at = disk.bak[c][p] /\ bak = "none"
  OBVIOUS
<1>4. /\ at \in Versions /\ bak \in Versions
      /\ disk' = [disk EXCEPT !.at = disk'.at, !.bak = disk'.bak]
      /\ disk'.at = [disk.at EXCEPT ![p] = at]
      /\ disk'.bak = [disk.bak EXCEPT ![c] = [disk.bak[c] EXCEPT ![p] = bak]]
  <2>1. at \in Versions /\ bak \in Versions
    <3>1. disk.bak[c] \in [Paths -> Versions]
      BY <1>d DEF MigrationDisks
    <3> QED
      BY <1>1, <3>1 DEF Versions
  <2>2. disk' = [disk EXCEPT !.at[p] = at, !.bak[c][p] = bak]
    BY <1>1 DEF MigrationRollback
  <2>3. disk'.at = [disk.at EXCEPT ![p] = at] /\ disk'.bak = [disk.bak EXCEPT ![c][p] = bak]
    BY <1>d, <2>2 DEF MigrationDisks
  <2>4. disk' = [disk EXCEPT !.at = disk'.at, !.bak = disk'.bak]
    BY <1>d, <2>2, <2>3 DEF MigrationDisks
  <2> QED
    BY <2>1, <2>3, <2>4
<1>5. /\ disk' \in MigrationDisks /\ disk'.was = disk.was /\ disk'.lock = disk.lock
      /\ \A d \in Commands \ {c} : disk'.bak[d] = disk.bak[d]
      /\ \A q \in Paths : q # p => disk'.at[q] = disk.at[q] /\ disk'.bak[c][q] = disk.bak[c][q]
      /\ disk'.at[p] = at /\ disk'.bak[c][p] = bak
  <2>1. disk \in MigrationDisks /\ p \in Paths
    BY <1>d, <1>1
  <2>2. Moves(c, p, at, bak)
    BY <1>4 DEF Moves
  <2>3. OnlyMoved(c, p, at, bak)
    BY <2>1, <2>2, <1>4, Moved
  <2> QED
    BY <2>3 DEF OnlyMoved
<1>6. p[1] = "doc" => disk'.at[p] = "old"
  BY <1>1, <1>3, <1>5 DEF IsDoc
<1>7. /\ task' \in MigrationTasks /\ \E r \in MigrationTask : task' = [task EXCEPT ![c] = r]
      /\ task'[c].stale = task[c].stale /\ task'[c].batch = task[c].batch
      /\ task'[c].before = task[c].before /\ task'[c].pc \in {"rollback", "release"}
      /\ Batched(c)'
  <2>1. RollsBack(c, task[c].safe)
    BY <1>d DEF RollsBack
  <2>2. RestMoved(c, p) /\ BackAt(c, p, task[c].safe)
    BY <1>5, <1>6 DEF RestMoved, BackAt
  <2>3. OneBack(c)
    BY <2>1, <2>2, RolledBack
  <2> QED
    BY <2>3 DEF OneBack
<1>8. OwnLocks(c)' /\ InScope(c)'
  <2>1. InScope(c)'
    BY <1>d, <1>5, <1>7 DEF MigrationCmd, InScope
  <2>2. OwnLocks(c)'
    BY <1>d, <1>5, <1>7 DEF MigrationCmd, OwnLocks, Owner
  <2> QED
    BY <2>1, <2>2
<1>9. Found(c)'
  <2>1. \A f \in FileSet : disk'.at[Doc(f)] = disk.at[Doc(f)] \/ HasDoc(b, f)
    <3> SUFFICES ASSUME NEW f \in FileSet, p = Doc(f) PROVE HasDoc(b, f)
      BY <1>5 DEF Doc, Paths
    <3>1. p[2] = f
      BY DEF Doc
    <3> QED
      BY <1>1, <3>1
  <2> QED
    BY <1>d, <1>1, <1>7, <2>1, FoundKept
<1>10. Kept(p[2])'
  <2>1. CASE IsDoc(b[i])
    BY <1>1, <1>3, <1>5, <2>1 DEF Kept
  <2>2. CASE ~IsDoc(b[i])
    <3>1. i < Len(b) /\ b[i + 1].path = Doc(p[2])
      <4>1. Shape(b)
        BY <1>d DEF MigrationCmd, InScope
      <4>2. b[i].path[2] = p[2]
        BY <1>1
      <4> QED
        BY <1>1, <2>2, <4>1, <4>2 DEF Shape
    <3>2. i + 1 \in 1 .. Len(b) /\ i + 1 > i
      BY <1>2, <3>1
    <3>3. Undone(c, b[i + 1])
      BY <1>3, <3>2
    <3>4. Doc(p[2]) \in Paths /\ Doc(p[2])[2] = p[2] /\ IsDoc(b[i + 1]) /\ Doc(p[2]) # p
      <4>1. Doc(p[2]) \in Paths /\ Doc(p[2])[1] = "doc" /\ Doc(p[2])[2] = p[2]
        BY <1>1 DEF Doc, Paths
      <4>2. Doc(p[2]) # p
        BY <1>1, <2>2
      <4> QED
        BY <3>1, <4>1, <4>2 DEF IsDoc
    <3>5. disk.at[Doc(p[2])] = "old" \/ disk.bak[c][Doc(p[2])] = "old"
      BY <3>1, <3>3, <3>4 DEF Undone
    <3>6. disk'.at[Doc(p[2])] = "old" \/ disk'.bak[c][Doc(p[2])] = "old"
      BY <1>5, <3>4, <3>5
    <3> QED
      BY <3>4, <3>6 DEF Kept
  <2> QED
    BY <2>1, <2>2
<1>11. PICK r \in MigrationTask : task' = [task EXCEPT ![c] = r]
  BY <1>7
<1>12. MigrationCmd(c)'
  BY <1>7, <1>8, <1>9 DEF MigrationCmd
<1> QED
  BY <1>d, <1>1, <1>5, <1>10, <1>11, <1>12, BatchStepKeeps

\* A removal that fails does no harm; a restore that fails leaves the old file in its rollback copy.
LEMMA MigrationRollbackFailsKeeps ==
    ASSUME MigrationInv, NEW c \in Commands, MigrationRollbackFails(c)
    PROVE  MigrationInv'
<1> PICK p, safe : p = Entry(c).path /\ safe = (task[c].safe /\ disk.bak[c][p] = "none")
  OBVIOUS
<1>d. disk \in MigrationDisks /\ task \in MigrationTasks /\ MigrationCmd(c) /\ task[c] \in MigrationTask
      /\ task[c].pc = "rollback" /\ disk' = disk /\ task[c].batch # <<>>
  <2>1. task[c].pc = "rollback" /\ disk' = disk
    BY DEF MigrationRollbackFails, At
  <2>2. task[c].i \in 1 .. Len(task[c].batch)
    BY <2>1, EntryLocked
  <2>3. task[c].batch # <<>>
    BY <2>2
  <2> QED
    BY <2>1, <2>3 DEF MigrationInv, MigrationTasks
<1>1. safe \in BOOLEAN /\ (safe => task[c].safe) /\ NextRollback(c, safe)
  BY <1>d DEF MigrationRollbackFails, MigrationTask
<1>2. p[1] = "doc" => disk.bak[c][p] = "old"
  <2>1. Entry(c) = task[c].batch[task[c].i]
    BY DEF Entry
  <2> QED
    BY <1>d, <2>1 DEF MigrationCmd, Batched, IsDoc
<1>3. /\ task' \in MigrationTasks /\ \A d \in Commands \ {c} : task'[d] = task[d]
      /\ task'[c].stale = task[c].stale /\ task'[c].batch = task[c].batch
      /\ task'[c].before = task[c].before /\ task'[c].pc \in {"rollback", "release"}
      /\ Batched(c)'
  <2>1. p[1] = "doc" => disk'.at[p] = "old" \/ (~safe /\ disk'.bak[c][p] = "old")
    BY <1>d, <1>2
  <2>2. \A q \in Paths : q # p => disk'.at[q] = disk.at[q] /\ disk'.bak[c][q] = disk.bak[c][q]
    BY <1>d
  <2>3. task[c].pc = "rollback" /\ p = Entry(c).path
    BY <1>d
  <2> QED
    <3>1. RollsBack(c, safe) /\ RestMoved(c, p) /\ BackAt(c, p, safe)
      BY <1>1, <2>1, <2>2, <2>3 DEF RollsBack, RestMoved, BackAt
    <3>2. OneBack(c)
      BY <2>3, <3>1, RolledBack
    <3> QED
      BY <3>2 DEF OneBack
<1>4. OwnLocks(c)' /\ InScope(c)'
  BY <1>d, <1>3 DEF MigrationCmd, OwnLocks, Owner, InScope
<1>5. Found(c)'
  BY <1>d, <1>3, FoundKept
<1> QED
  BY <1>d, <1>3, <1>4, <1>5, MigrationTaskKeeps DEF MigrationCmd


\* Every entry is installed: the rollback copies may go, or stay.
LEMMA MigrationFlushKeeps ==
    ASSUME MigrationInv, NEW c \in Commands, MigrationFlush(c) \/ MigrationFlushFails(c)
    PROVE  MigrationInv'
<1>d. disk \in MigrationDisks /\ task \in MigrationTasks /\ MigrationCmd(c) /\ task[c] \in MigrationTask
      /\ task[c].pc = "flush"
  BY DEF MigrationInv, MigrationTasks, MigrationFlush, MigrationFlushFails, At
<1> PICK b : b = task[c].batch
  OBVIOUS
<1>1. b # <<>> /\ Shape(b) /\ \A k \in 1 .. Len(b) : Installed(c, b[k])
  BY <1>d DEF MigrationCmd, Batched, InScope
<1>2. b \in Seq(EntrySet) /\ Len(b) \in Nat
  BY <1>d DEF MigrationTask
<1>3. PICK said \in {"upgraded", "uncertain"} : EndAs(c, said)
  BY DEF MigrationFlush, MigrationFlushFails
<1> DEFINE r == [task[c] EXCEPT !.pc = "release", !.said = said]
<1>4. task' = [task EXCEPT ![c] = r]
  BY <1>d, <1>3 DEF EndAs, MigrationTasks
<1>5. r \in MigrationTask
  BY <1>d DEF MigrationTask, MigrationPcs
<1>6. task'[c] = r /\ task' \in MigrationTasks /\ \A d \in Commands \ {c} : task'[d] = task[d]
  BY <1>d, <1>4, <1>5, MigrationTaskNext
<1>7. /\ task'[c].pc = "release" /\ task'[c].said = said
      /\ task'[c].stale = task[c].stale /\ task'[c].batch = b /\ task'[c].before = task[c].before
  BY <1>d, <1>6 DEF MigrationTask
<1>8. /\ disk' \in MigrationDisks /\ disk'.at = disk.at /\ disk'.lock = disk.lock /\ disk'.was = disk.was
      /\ \A d \in Commands \ {c} : disk'.bak[d] = disk.bak[d]
      /\ \A q \in Paths : disk'.bak[c][q] \in {disk.bak[c][q], "none"}
  <2>1. CASE disk' = disk
    BY <1>d, <2>1
  <2>2. CASE disk' = [disk EXCEPT !.bak[c] = [p \in Paths |-> "none"]]
    <3>1. [p \in Paths |-> "none"] \in [Paths -> Versions]
      BY DEF Versions
    <3>2. disk' = [disk EXCEPT !.bak = [disk.bak EXCEPT ![c] = [p \in Paths |-> "none"]]]
      BY <2>2
    <3>3. [disk.bak EXCEPT ![c] = [p \in Paths |-> "none"]] \in [Commands -> [Paths -> Versions]]
      BY <1>d, <3>1 DEF MigrationDisks
    <3> QED
      BY <1>d, <3>2, <3>3 DEF MigrationDisks
  <2> QED
    BY <2>1, <2>2 DEF MigrationFlush, MigrationFlushFails
<1>9. OwnLocks(c)' /\ InScope(c)'
  <2>1. InScope(c)'
    <3>1. \A p \in Paths : disk'.bak[c][p] # "none" => \E k \in 1 .. Len(b) : b[k].path = p
      BY <1>d, <1>8 DEF MigrationCmd, InScope
    <3> QED
      BY <1>d, <1>7, <3>1 DEF MigrationCmd, InScope
  <2> QED
    BY <1>d, <1>7, <1>8, <2>1 DEF MigrationCmd, OwnLocks, Owner
<1>10. Batched(c)'
  <2>1. \A k \in 1 .. Len(b) : IsDoc(b[k]) => b[k].value = "new"
    BY <1>1 DEF Shape
  <2>2. \A k \in 1 .. Len(b) : IsDoc(b[k]) => disk'.at[b[k].path] = "new"
    BY <1>1, <1>8, <2>1 DEF Installed
  <2> QED
    BY <1>7, <2>2 DEF Batched
<1>11. Found(c)'
  BY <1>d, <1>1, <1>7, <1>8, FoundKept
<1>12. ASSUME NEW f \in FileSet, Kept(f) PROVE Kept(f)'
  <2>1. CASE disk.at[Doc(f)] = "old" \/ disk.at[Copy(f)] = "old"
    BY <1>8, <2>1 DEF Kept
  <2>2. ASSUME NEW d \in Commands \ {c}, NEW p \in Paths, p[2] = f, disk.bak[d][p] = "old" PROVE Kept(f)'
    BY <1>8, <2>2 DEF Kept
  <2>3. ASSUME NEW p \in Paths, p[2] = f, disk.bak[c][p] = "old" PROVE Kept(f)'
    <3>1. PICK k \in 1 .. Len(b) : b[k].path = p
      BY <1>d, <2>3 DEF MigrationCmd, InScope
    <3>2. \E j \in 1 .. Len(b) : b[j].path = Copy(f) /\ ~IsDoc(b[j])
      <4>1. CASE IsDoc(b[k])
        <5>1. k > 1 /\ b[k - 1].path = Copy(f)
          BY <1>1, <2>3, <3>1, <4>1 DEF Shape
        <5>2. k - 1 \in 1 .. Len(b)
          BY <1>2, <5>1
        <5> QED
          BY <5>1, <5>2 DEF IsDoc, Copy
      <4>2. CASE ~IsDoc(b[k])
        BY <2>3, <3>1, <4>2 DEF IsDoc, Paths, Copy
      <4> QED
        BY <4>1, <4>2
    <3>3. disk.at[Copy(f)] = "old"
      BY <1>1, <3>2 DEF Installed, Shape
    <3> QED
      BY <1>8, <3>3 DEF Kept
  <2> QED
    BY <1>12, <2>1, <2>2, <2>3 DEF Kept
<1> QED
  BY <1>6, <1>8, <1>9, <1>10, <1>11, <1>12, MigrationStepKeeps DEF MigrationCmd

LEMMA MigrationKeeps == MigrationInv /\ MigrationNext => MigrationInv'
<1> SUFFICES ASSUME MigrationInv, MigrationNext PROVE MigrationInv'
  OBVIOUS
<1>1. PICK c \in Commands :
        \/ MigrationPlan(c) \/ MigrationConsent(c) \/ MigrationLock(c) \/ MigrationLockTimeout(c)
        \/ MigrationCommit(c) \/ MigrationNotStaged(c)
        \/ MigrationDisplace(c) \/ MigrationPublish(c) \/ MigrationRenameFails(c)
        \/ MigrationRollback(c) \/ MigrationRollbackFails(c)
        \/ MigrationFlush(c) \/ MigrationFlushFails(c)
        \/ MigrationRelease(c) \/ MigrationCommand(c) \/ MigrationKill(c)
  BY DEF MigrationNext
<1> QED
  BY <1>1, MigrationEarlyKeeps, MigrationLockKeeps, MigrationCommitKeeps, MigrationDisplaceKeeps,
     MigrationPublishKeeps, MigrationRenameFailsKeeps, MigrationRollbackKeeps,
     MigrationRollbackFailsKeeps, MigrationFlushKeeps, MigrationReleaseKeeps, MigrationCommandKeeps

LEMMA MigrationSafe == MigrationInv => OldDocumentKept /\ MigrationAnswerTrue
<1> SUFFICES ASSUME MigrationInv PROVE OldDocumentKept /\ MigrationAnswerTrue
  OBVIOUS
<1>1. OldDocumentKept
  BY DEF MigrationInv, OldDocumentKept, Kept
<1>2. ASSUME NEW c \in Commands, At(c, "release"), NEW f \in ToSet(task[c].stale)
      PROVE  /\ task[c].said = "failed" /\ task[c].batch # <<>> => disk.at[Doc(f)] = task[c].before[f]
             /\ task[c].said \in {"upgraded", "uncertain"} => disk.at[Doc(f)] # "old"
  <2>1. task \in MigrationTasks /\ MigrationCmd(c) /\ task[c].pc = "release"
    BY <1>2 DEF MigrationInv, At
  <2>2. CASE task[c].batch = <<>>
    BY <2>1, <2>2 DEF MigrationCmd, Found
  <2>3. CASE task[c].batch # <<>>
    <3>1. CASE HasDoc(task[c].batch, f)
      <4>1. PICK k \in 1 .. Len(task[c].batch) : task[c].batch[k].path = Doc(f)
        BY <3>1 DEF HasDoc
      <4>2. IsDoc(task[c].batch[k])
        BY <4>1 DEF IsDoc, Doc
      <4>3. task[c].before[f] = "old"
        BY <2>1, <2>3, <3>1 DEF MigrationCmd, Found
      <4> QED
        BY <2>1, <2>3, <4>1, <4>2, <4>3 DEF MigrationCmd, Batched
    <3>2. CASE ~HasDoc(task[c].batch, f)
      BY <2>1, <2>3, <3>2 DEF MigrationCmd, Found
    <3> QED
      BY <3>1, <3>2
  <2> QED
    BY <2>2, <2>3
<1>3. MigrationAnswerTrue
  BY <1>2 DEF MigrationAnswerTrue
<1> QED
  BY <1>1, <1>3


-----------------------------------------------------------------------------
(* The wallet index. *)

Slots == UNION {[S -> {"current", "legacy"}] : S \in {S \in SUBSET (0 .. MaxIndex) : 0 \in S}}
WalletSet ==
    [id : Nat \ {0}, type : {"seed", "privateKey", "ledger", "watch"}, key : {"S", "K", "L"}, slots : Slots]
Refs == Nat \X (Whole .. MaxIndex)
Coherent(w) == ~\E i, j \in Indices(w) \ {0} : w.slots[i] = "legacy" /\ w.slots[j] = "current"

\* An index: its wallets differ in their ids, and are of one template each.
IsIndex(f) ==
    /\ f = [kind |-> "index", wallets |-> f.wallets, labels |-> f.labels, active |-> f.active]
    /\ f.wallets \in Seq(WalletSet)
    /\ \A j, k \in 1 .. Len(f.wallets) : f.wallets[j].id = f.wallets[k].id => j = k
    /\ \A w \in Wallets(f) : Coherent(w)
    /\ DOMAIN f.labels \subseteq Refs /\ IsFiniteSet(DOMAIN f.labels)
    /\ f.active \in Refs

\* The labels are of the accounts, one each, and an account is active if there is one.
Fits(f) ==
    /\ DOMAIN f.labels = Accounts(f)
    /\ IsInjective(f.labels)
    /\ f.active \in Accounts(f) \cup {NoAccount}

\* What a user typed at the prompt.
Typed(input) == input.by \in {"id", "label", "address"} /\ (input.by = "id" => input.ref \in Refs)

IndexInv ==
    /\ IsIndex(disk)
    /\ spent \in Nat /\ \A w \in Wallets(disk) : w.id <= spent
    /\ ~LooseRefs => Fits(disk)
    /\ task = Free \/ task.op = "derive" \/ (task.op = "delete" /\ Typed(task.input))

LEMMA SlotFacts ==
    ASSUME NEW s \in Slots
    PROVE  DOMAIN s \subseteq 0 .. MaxIndex /\ 0 \in DOMAIN s /\ s \in [DOMAIN s -> {"current", "legacy"}]
BY DEF Slots

LEMMA SlotMember ==
    ASSUME NEW D, D \subseteq 0 .. MaxIndex, 0 \in D, NEW s \in [D -> {"current", "legacy"}]
    PROVE  s \in Slots
BY DEF Slots

LEMMA WalletFacts ==
    ASSUME NEW w \in WalletSet
    PROVE  /\ Indices(w) \subseteq 0 .. MaxIndex /\ 0 \in Indices(w) /\ FirstIndex(w) = 0
           /\ \A i \in Indices(w) : RefOf(w, i) \in Refs /\ RefOf(w, i)[1] = w.id
           /\ w.id \in Nat /\ w.id # 0
<1>1. w.slots \in Slots /\ w.id \in Nat /\ w.id # 0
  BY DEF WalletSet
<1>2. Indices(w) \subseteq 0 .. MaxIndex /\ 0 \in Indices(w)
  BY <1>1, SlotFacts DEF Indices
<1>3. Min(Indices(w)) = 0
  BY <1>2, IndexAssumption DEF Min
<1>4. \A i \in Indices(w) : RefOf(w, i) \in Refs /\ RefOf(w, i)[1] = w.id
  BY <1>1, <1>2, IndexAssumption DEF RefOf, Refs, Whole
<1> QED
  BY <1>1, <1>2, <1>3, <1>4 DEF FirstIndex

LEMMA IndexFacts ==
    ASSUME NEW f, IsIndex(f)
    PROVE  /\ \A w \in Wallets(f) : w \in WalletSet /\ \E k \in 1 .. Len(f.wallets) : f.wallets[k] = w
           /\ \A k \in 1 .. Len(f.wallets) : f.wallets[k] \in Wallets(f)
           /\ \A v, w \in Wallets(f) : v.id = w.id => v = w
           /\ \A w \in Wallets(f) : WalletOf(f, w.id) = w
           /\ \A r \in Accounts(f) : \E w \in Wallets(f) : \E i \in Indices(w) : r = RefOf(w, i) /\ r[1] = w.id
           /\ \A w \in Wallets(f) : \A i \in Indices(w) : RefOf(w, i) \in Accounts(f)
           /\ Accounts(f) \subseteq Refs /\ NoAccount \notin Accounts(f)
<1>1. f.wallets \in Seq(WalletSet) /\ DOMAIN f.wallets = 1 .. Len(f.wallets)
  BY DEF IsIndex
<1>2. \A w \in Wallets(f) : w \in WalletSet /\ \E k \in 1 .. Len(f.wallets) : f.wallets[k] = w
  BY <1>1 DEF Wallets, ToSet
<1>3. \A k \in 1 .. Len(f.wallets) : f.wallets[k] \in Wallets(f)
  BY <1>1 DEF Wallets, ToSet
<1>4. \A v, w \in Wallets(f) : v.id = w.id => v = w
  BY <1>2 DEF IsIndex
<1>5. \A w \in Wallets(f) : WalletOf(f, w.id) = w
  BY <1>4 DEF WalletOf
<1>6. \A r \in Accounts(f) : \E w \in Wallets(f) : \E i \in Indices(w) : r = RefOf(w, i) /\ r[1] = w.id
  BY <1>2, WalletFacts DEF Accounts, RefsOf
<1>7. \A w \in Wallets(f) : \A i \in Indices(w) : RefOf(w, i) \in Accounts(f)
  BY DEF Accounts, RefsOf
<1>8. Accounts(f) \subseteq Refs
  BY <1>2, <1>6, WalletFacts
<1>9. NoAccount \notin Accounts(f)
  <2>1. NoAccount[1] = 0
    BY DEF NoAccount
  <2> QED
    BY <1>2, <1>6, <2>1, WalletFacts
<1> QED
  BY <1>2, <1>3, <1>4, <1>5, <1>6, <1>7, <1>8, <1>9

\* A label is given to one reference.
LEMMA LabelledKeeps ==
    ASSUME NEW f, IsIndex(f), NEW r \in Refs, NEW label
    PROVE  LET e == Labelled(f, r, label) IN
           /\ IsIndex(e) /\ e.wallets = f.wallets /\ e.active = f.active /\ Accounts(e) = Accounts(f)
           /\ DOMAIN e.labels = DOMAIN f.labels \cup {r}
           /\ IsInjective(f.labels) /\ LabelFree(f, r, label) => IsInjective(e.labels)
<1> DEFINE e == Labelled(f, r, label)
<1>1. /\ e.wallets = f.wallets /\ e.active = f.active /\ e.labels = With(f.labels, r, label)
      /\ e = [kind |-> "index", wallets |-> e.wallets, labels |-> e.labels, active |-> e.active]
  BY DEF Labelled, IsIndex
<1> HIDE DEF e
<1>2. DOMAIN e.labels = DOMAIN f.labels \cup {r}
      /\ \A q \in DOMAIN e.labels : e.labels[q] = IF q = r THEN label ELSE f.labels[q]
  BY <1>1 DEF With
<1>3. IsFiniteSet(DOMAIN e.labels) /\ DOMAIN e.labels \subseteq Refs
  BY <1>2, FS_AddElement DEF IsIndex
<1>4. Wallets(e) = Wallets(f) /\ Accounts(e) = Accounts(f)
  BY <1>1 DEF Wallets, Accounts
<1>5. IsIndex(e)
  BY <1>1, <1>3, <1>4 DEF IsIndex
<1>6. IsInjective(f.labels) /\ LabelFree(f, r, label) => IsInjective(e.labels)
  BY <1>2 DEF IsInjective, LabelFree
<1> QED
  BY <1>1, <1>2, <1>4, <1>5, <1>6 DEF e

LEMMA SelectedKeeps ==
    ASSUME NEW f, IsIndex(f), NEW r \in Refs
    PROVE  LET e == [f EXCEPT !.active = r] IN
           /\ IsIndex(e) /\ e.wallets = f.wallets /\ e.labels = f.labels /\ e.active = r
           /\ Accounts(e) = Accounts(f)
<1> DEFINE e == [f EXCEPT !.active = r]
<1>1. /\ e.wallets = f.wallets /\ e.active = r /\ e.labels = f.labels
      /\ e = [kind |-> "index", wallets |-> e.wallets, labels |-> e.labels, active |-> e.active]
  BY DEF IsIndex
<1> HIDE DEF e
<1>4. Wallets(e) = Wallets(f) /\ Accounts(e) = Accounts(f)
  BY <1>1 DEF Wallets, Accounts
<1>5. IsIndex(e)
  BY <1>1, <1>4 DEF IsIndex
<1> QED
  BY <1>1, <1>4, <1>5 DEF e


\* A wallet of one account that is new to the index.
LEMMA AddedKeeps ==
    ASSUME NEW f, IsIndex(f), NEW w \in WalletSet, w.slots = FirstSlot,
           \A v \in Wallets(f) : v.id # w.id, NEW a \in Refs
    PROVE  LET g == [f EXCEPT !.wallets = Append(@, w), !.active = a] IN
           /\ IsIndex(g) /\ Wallets(g) = Wallets(f) \cup {w} /\ g.labels = f.labels /\ g.active = a
           /\ Accounts(g) = Accounts(f) \cup {RefOf(w, 0)} /\ RefOf(w, 0) \notin Accounts(f)
<1> DEFINE g == [f EXCEPT !.wallets = Append(@, w), !.active = a]
           s == f.wallets
           t == Append(s, w)
<1>0. g = [f EXCEPT !.wallets = t, !.active = a]
  OBVIOUS
<1> HIDE DEF g, t
<1>1. /\ g.wallets = t /\ g.labels = f.labels /\ g.active = a
      /\ g = [kind |-> "index", wallets |-> g.wallets, labels |-> g.labels, active |-> g.active]
  <2>1. PICK wallets, labels, active :
           f = [kind |-> "index", wallets |-> wallets, labels |-> labels, active |-> active]
    BY DEF IsIndex
  <2>2. g = [kind |-> "index", wallets |-> t, labels |-> labels, active |-> a]
    BY <1>0, <2>1
  <2> QED
    BY <2>1, <2>2
<1>2. s \in Seq(WalletSet)
  BY DEF IsIndex
<1>3. /\ t \in Seq(WalletSet) /\ Len(t) = Len(s) + 1 /\ Len(s) \in Nat
      /\ \A k \in 1 .. Len(s) : t[k] = s[k]
      /\ t[Len(s) + 1] = w
  BY <1>2 DEF t
<1>4. Wallets(g) = Wallets(f) \cup {w}
  <2>1. DOMAIN t = 1 .. Len(t) /\ DOMAIN s = 1 .. Len(s)
    BY <1>2, <1>3
  <2> HIDE DEF s
  <2>2. \A k \in 1 .. Len(t) : k \in 1 .. Len(s) \/ k = Len(s) + 1
    BY <1>3
  <2>3. \A k \in 1 .. Len(s) : k \in 1 .. Len(t)
    BY <1>3
  <2>4. Len(s) + 1 \in 1 .. Len(t)
    BY <1>3
  <2>5. ToSet(t) \subseteq ToSet(s) \cup {w}
    BY <1>3, <2>1, <2>2 DEF ToSet
  <2>6. ToSet(s) \cup {w} \subseteq ToSet(t)
    <3>1. \A k \in 1 .. Len(s) : s[k] \in ToSet(t)
      BY <1>3, <2>1, <2>3 DEF ToSet
    <3>2. w \in ToSet(t)
      BY <1>3, <2>1, <2>4 DEF ToSet
    <3> QED
      BY <2>1, <3>1, <3>2 DEF ToSet
  <2> QED
    BY <1>1, <2>5, <2>6 DEF Wallets, s
<1>5. ASSUME NEW j \in 1 .. Len(t), NEW k \in 1 .. Len(t), t[j].id = t[k].id PROVE j = k
  <2>1. \A i \in 1 .. Len(s) : t[i] \in Wallets(f) /\ t[i] = s[i]
    BY <1>3, IndexFacts
  <2>2. \A i \in 1 .. Len(s) : t[i].id # w.id
    BY <2>1
  <2>3. CASE j \in 1 .. Len(s) /\ k \in 1 .. Len(s)
    BY <1>5, <2>1, <2>3 DEF IsIndex
  <2>4. CASE j \notin 1 .. Len(s) \/ k \notin 1 .. Len(s)
    <3>1. \A i \in 1 .. Len(t) : i \notin 1 .. Len(s) => i = Len(s) + 1
      BY <1>3
    <3> QED
      BY <1>3, <1>5, <2>2, <2>4, <3>1
  <2> QED
    BY <2>3, <2>4
<1>6. Indices(w) = {0} /\ Coherent(w)
  BY DEF Indices, FirstSlot, Coherent
<1>7. IsIndex(g)
  BY <1>1, <1>3, <1>4, <1>5, <1>6 DEF IsIndex
<1>8. RefsOf(w) = {RefOf(w, 0)}
  BY <1>6 DEF RefsOf
<1>9. Accounts(g) = Accounts(f) \cup {RefOf(w, 0)}
  BY <1>4, <1>8 DEF Accounts
<1>10. RefOf(w, 0) \notin Accounts(f)
  BY <1>6, WalletFacts, IndexFacts
<1> QED
  BY <1>1, <1>4, <1>7, <1>9, <1>10 DEF g

\* One wallet of an index has other slots.
Reslots(f, w, v, t) ==
    /\ t \in Seq(WalletSet)
    /\ \A j, k \in 1 .. Len(t) : t[j].id = t[k].id => j = k
    /\ ToSet(t) = (Wallets(f) \ {w}) \cup {v}
    /\ v \in WalletSet /\ v.id = w.id /\ v.type = w.type
    /\ UNION {RefsOf(x) : x \in ToSet(t)} = {r \in Accounts(f) : r[1] # w.id} \cup RefsOf(v)

LEMMA ReslottedKeeps ==
    ASSUME NEW f, IsIndex(f), NEW slots \in Slots, NEW w \in Wallets(f)
    PROVE  Reslots(f, w, Slotted(w, slots),
                   [k \in DOMAIN f.wallets |->
                        IF f.wallets[k].id = w.id THEN Slotted(f.wallets[k], slots) ELSE f.wallets[k]])
<1> DEFINE s == f.wallets
           t == [k \in DOMAIN f.wallets |->
                    IF f.wallets[k].id = w.id THEN Slotted(f.wallets[k], slots) ELSE f.wallets[k]]
           v == Slotted(w, slots)
<1>1. s \in Seq(WalletSet) /\ DOMAIN s = 1 .. Len(s) /\ Len(s) \in Nat
  BY DEF IsIndex
<1>2. \A k \in 1 .. Len(s) : s[k] \in WalletSet /\ s[k] \in Wallets(f)
  BY <1>1, IndexFacts
<1>3. v \in WalletSet /\ v.id = w.id /\ v.type = w.type /\ v.slots = slots
  BY IndexFacts DEF WalletSet, Slotted
<1>v. v = Slotted(w, slots)
  OBVIOUS
<1> HIDE DEF v
<1>4. \A k \in 1 .. Len(s) : t[k] = IF s[k] = w THEN v ELSE s[k]
  <2> SUFFICES ASSUME NEW k \in 1 .. Len(s) PROVE t[k] = IF s[k] = w THEN v ELSE s[k]
    OBVIOUS
  <2>1. s[k].id = w.id <=> s[k] = w
    BY <1>2, IndexFacts
  <2> QED
    BY <1>1, <1>v, <2>1
<1>5. t \in Seq(WalletSet) /\ Len(t) = Len(s) /\ DOMAIN t = 1 .. Len(s)
  <2>1. DOMAIN t = 1 .. Len(s) /\ t = [k \in 1 .. Len(s) |-> t[k]]
    BY <1>1
  <2>2. \A k \in 1 .. Len(s) : t[k] \in WalletSet
    BY <1>2, <1>3, <1>4
  <2> HIDE DEF t
  <2>3. t \in [1 .. Len(s) -> WalletSet]
    BY <2>1, <2>2
  <2>4. t \in Seq(WalletSet)
    BY <1>1, <2>3
  <2> QED
    BY <1>1, <2>1, <2>4
<1>6. \A k \in 1 .. Len(s) : t[k].id = s[k].id
  BY <1>3, <1>4
<1>7. \A j, k \in 1 .. Len(t) : t[j].id = t[k].id => j = k
  BY <1>5, <1>6 DEF IsIndex
<1>8. ToSet(t) = (Wallets(f) \ {w}) \cup {v}
  <2>1. ToSet(t) = {t[k] : k \in 1 .. Len(s)} /\ Wallets(f) = {s[k] : k \in 1 .. Len(s)}
    BY <1>1, <1>5 DEF Wallets, ToSet
  <2> HIDE DEF s, t
  <2>2. PICK i \in 1 .. Len(s) : s[i] = w
    BY <2>1
  <2>3. ASSUME NEW x \in ToSet(t) PROVE x \in (Wallets(f) \ {w}) \cup {v}
    BY <1>4, <2>1
  <2>4. ASSUME NEW x \in Wallets(f) \ {w} PROVE x \in ToSet(t)
    BY <1>4, <2>1
  <2>5. v \in ToSet(t)
    BY <1>4, <2>1, <2>2
  <2> QED
    BY <2>3, <2>4, <2>5
<1>9. UNION {RefsOf(x) : x \in ToSet(t)} = {r \in Accounts(f) : r[1] # w.id} \cup RefsOf(v)
  <2>1. UNION {RefsOf(x) : x \in ToSet(t)} = (UNION {RefsOf(x) : x \in Wallets(f) \ {w}}) \cup RefsOf(v)
    BY <1>8 DEF Accounts
  <2>2. \A x \in Wallets(f) : \A r \in RefsOf(x) : r[1] = x.id
    BY IndexFacts, WalletFacts DEF RefsOf
  <2>3. \A x \in Wallets(f) : x # w <=> x.id # w.id
    BY IndexFacts
  <2>4. UNION {RefsOf(x) : x \in Wallets(f) \ {w}} = {r \in Accounts(f) : r[1] # w.id}
    BY <2>2, <2>3 DEF Accounts
  <2> QED
    BY <2>1, <2>4
<1> QED
  BY <1>3, <1>5, <1>7, <1>8, <1>9 DEF Reslots, t, v


\* The references of one wallet are the accounts that have its id.
LEMMA OwnRefs ==
    ASSUME NEW f, IsIndex(f), NEW w \in Wallets(f)
    PROVE  RefsOf(w) = {r \in Accounts(f) : r[1] = w.id}
<1>1. \A i \in Indices(w) : RefOf(w, i) \in Accounts(f) /\ RefOf(w, i)[1] = w.id
  BY IndexFacts, WalletFacts
<1>2. \A r \in Accounts(f) : r[1] = w.id => \E i \in Indices(w) : r = RefOf(w, i)
  BY IndexFacts
<1> QED
  BY <1>1, <1>2 DEF RefsOf

\* A slot is added of the current template, where there is none of the other.
LEMMA WithSlotKeeps ==
    ASSUME NEW f, IsIndex(f), NEW w \in Wallets(f), NEW i \in (0 .. MaxIndex) \ Indices(w), Derivable(w)
    PROVE  LET e == WithSlot(f, w.id, i) IN
           /\ IsIndex(e) /\ e.labels = f.labels /\ e.active = f.active
           /\ Accounts(e) = Accounts(f) \cup {RefOf(w, i)} /\ RefOf(w, i) \in Refs
           /\ \A x \in Wallets(e) : \E y \in Wallets(f) : x.id = y.id
<1> DEFINE slots == With(w.slots, i, "current")
           v == Slotted(w, slots)
           t == [k \in DOMAIN f.wallets |->
                    IF f.wallets[k].id = w.id THEN Slotted(f.wallets[k], slots) ELSE f.wallets[k]]
           e == WithSlot(f, w.id, i)
<1>1. w \in WalletSet /\ w.slots \in Slots /\ Indices(w) = DOMAIN w.slots
  BY IndexFacts DEF WalletSet, Indices
<1>2. slots \in Slots /\ DOMAIN slots = Indices(w) \cup {i}
      /\ \A k \in DOMAIN slots : slots[k] = IF k = i THEN "current" ELSE w.slots[k]
  <2>1. DOMAIN slots = Indices(w) \cup {i}
      /\ \A k \in DOMAIN slots : slots[k] = IF k = i THEN "current" ELSE w.slots[k]
    BY <1>1 DEF With
  <2>2. slots \in [DOMAIN slots -> {"current", "legacy"}]
    BY <1>1, <2>1, SlotFacts DEF With
  <2>3. DOMAIN slots \subseteq 0 .. MaxIndex /\ 0 \in DOMAIN slots
    BY <1>1, <2>1, SlotFacts
  <2> HIDE DEF slots
  <2> QED
    BY <2>1, <2>2, <2>3, SlotMember
<1>3. e = [f EXCEPT !.wallets = t]
  <2>1. e = [f EXCEPT !.wallets = [k \in DOMAIN f.wallets |->
               IF f.wallets[k].id = w.id
               THEN Slotted(f.wallets[k], With(f.wallets[k].slots, i, "current")) ELSE f.wallets[k]]]
    BY DEF WithSlot
  <2>2. \A k \in DOMAIN f.wallets : f.wallets[k].id = w.id => f.wallets[k] = w
    <3>1. DOMAIN f.wallets = 1 .. Len(f.wallets)
      BY DEF IsIndex
    <3> QED
      BY <3>1, IndexFacts
  <2>3. [k \in DOMAIN f.wallets |->
               IF f.wallets[k].id = w.id
               THEN Slotted(f.wallets[k], With(f.wallets[k].slots, i, "current")) ELSE f.wallets[k]] = t
    <3>1. \A k \in DOMAIN f.wallets :
            (IF f.wallets[k].id = w.id
               THEN Slotted(f.wallets[k], With(f.wallets[k].slots, i, "current")) ELSE f.wallets[k])
          = (IF f.wallets[k].id = w.id THEN Slotted(f.wallets[k], slots) ELSE f.wallets[k])
      BY <2>2
    <3> QED
      BY <3>1, Zenon
  <2> QED
    BY <2>1, <2>3
<1> HIDE DEF slots, t, e
<1>4. /\ e.wallets = t /\ e.labels = f.labels /\ e.active = f.active
      /\ e = [kind |-> "index", wallets |-> e.wallets, labels |-> e.labels, active |-> e.active]
  BY <1>3 DEF IsIndex
<1> HIDE DEF v
<1>5. /\ e.wallets \in Seq(WalletSet)
      /\ \A j, k \in 1 .. Len(e.wallets) : e.wallets[j].id = e.wallets[k].id => j = k
      /\ Wallets(e) = (Wallets(f) \ {w}) \cup {v}
      /\ v \in WalletSet /\ v.id = w.id /\ v.type = w.type /\ v.slots = slots
      /\ Accounts(e) = {r \in Accounts(f) : r[1] # w.id} \cup RefsOf(v)
  <2>1. slots \in Slots
    BY <1>2
  <2>2. /\ t \in Seq(WalletSet)
        /\ \A j, k \in 1 .. Len(t) : t[j].id = t[k].id => j = k
        /\ ToSet(t) = (Wallets(f) \ {w}) \cup {v}
        /\ v \in WalletSet /\ v.id = w.id /\ v.type = w.type /\ v.slots = slots
        /\ UNION {RefsOf(x) : x \in ToSet(t)} = {q \in Accounts(f) : q[1] # w.id} \cup RefsOf(v)
    <3>1. Reslots(f, w, v, t)
      BY <2>1, ReslottedKeeps DEF t, v
    <3>2. v.slots = slots
      BY <1>1 DEF v, Slotted, WalletSet
    <3> QED
      BY <3>1, <3>2 DEF Reslots
  <2> QED
    BY <1>4, <2>2 DEF Wallets, Accounts
<1>6. RefsOf(v) = RefsOf(w) \cup {RefOf(w, i)}
  <2>1. \A k : RefOf(v, k) = RefOf(w, k)
    BY <1>5 DEF RefOf, IsHD
  <2>2. Indices(v) = Indices(w) \cup {i}
    BY <1>2, <1>5 DEF Indices
  <2> QED
    BY <2>1, <2>2 DEF RefsOf
<1>7. Accounts(e) = Accounts(f) \cup {RefOf(w, i)}
  BY <1>5, <1>6, OwnRefs
<1>8. Coherent(v)
  BY <1>1, <1>2, <1>5 DEF Coherent, Derivable, Indices
<1>9. IsIndex(e)
  BY <1>4, <1>5, <1>8 DEF IsIndex
<1>10. RefOf(w, i) \in Refs
  BY <1>1, IndexAssumption DEF RefOf, Refs, Whole, WalletSet
<1> QED
  BY <1>4, <1>5, <1>7, <1>9, <1>10 DEF e

\* An account but the first goes, with its label.
LEMMA WithoutSlotKeeps ==
    ASSUME NEW f, IsIndex(f), NEW r \in Refs, NEW w \in Wallets(f), w.id = r[1], IsHD(w), r[2] > 0
    PROVE  LET e == WithoutSlot(f, r) IN
           /\ IsIndex(e) /\ e.active = f.active
           /\ Accounts(e) = Accounts(f) \ {r} /\ DOMAIN e.labels = DOMAIN f.labels \ {r}
           /\ IsInjective(f.labels) => IsInjective(e.labels)
           /\ \A x \in Wallets(e) : \E y \in Wallets(f) : x.id = y.id
<1> DEFINE slots == Restrict(w.slots, Indices(w) \ {r[2]})
           v == Slotted(w, slots)
           t == [k \in DOMAIN f.wallets |->
                    IF f.wallets[k].id = w.id THEN Slotted(f.wallets[k], slots) ELSE f.wallets[k]]
           labels == RestrictDomain(f.labels, LAMBDA q : q # r)
           e == WithoutSlot(f, r)
<1>1. w \in WalletSet /\ w.slots \in Slots /\ Indices(w) = DOMAIN w.slots
  BY IndexFacts DEF WalletSet, Indices
<1>2. slots \in Slots /\ DOMAIN slots = Indices(w) \ {r[2]}
      /\ \A k \in DOMAIN slots : slots[k] = w.slots[k]
  <2>1. DOMAIN slots = Indices(w) \ {r[2]} /\ \A k \in DOMAIN slots : slots[k] = w.slots[k]
    BY <1>1 DEF Restrict
  <2>2. slots \in [DOMAIN slots -> {"current", "legacy"}]
    BY <1>1, <2>1, SlotFacts DEF Restrict
  <2>3. DOMAIN slots \subseteq 0 .. MaxIndex /\ 0 \in DOMAIN slots
    BY <1>1, <2>1, SlotFacts
  <2> HIDE DEF slots
  <2> QED
    BY <2>1, <2>2, <2>3, SlotMember
<1>3. e = [f EXCEPT !.wallets = t, !.labels = labels]
  <2>1. e = [f EXCEPT !.wallets = [k \in DOMAIN f.wallets |->
               IF f.wallets[k].id = r[1]
               THEN Slotted(f.wallets[k], Restrict(f.wallets[k].slots, Indices(f.wallets[k]) \ {r[2]}))
               ELSE f.wallets[k]], !.labels = labels]
    BY DEF WithoutSlot
  <2>2. \A k \in DOMAIN f.wallets : f.wallets[k].id = r[1] => f.wallets[k] = w
    <3>1. DOMAIN f.wallets = 1 .. Len(f.wallets)
      BY DEF IsIndex
    <3> QED
      BY <3>1, IndexFacts
  <2>3. [k \in DOMAIN f.wallets |->
               IF f.wallets[k].id = r[1]
               THEN Slotted(f.wallets[k], Restrict(f.wallets[k].slots, Indices(f.wallets[k]) \ {r[2]}))
               ELSE f.wallets[k]] = t
    <3>1. \A k \in DOMAIN f.wallets :
            (IF f.wallets[k].id = r[1]
               THEN Slotted(f.wallets[k], Restrict(f.wallets[k].slots, Indices(f.wallets[k]) \ {r[2]}))
               ELSE f.wallets[k])
          = (IF f.wallets[k].id = r[1] THEN Slotted(f.wallets[k], slots) ELSE f.wallets[k])
      BY <2>2
    <3> QED
      BY <3>1, Zenon
  <2> QED
    BY <2>1, <2>3
<1>l. DOMAIN labels = DOMAIN f.labels \ {r} /\ \A q \in DOMAIN labels : labels[q] = f.labels[q]
  BY DEF RestrictDomain, Restrict
<1> HIDE DEF slots, t, e, labels, v
<1>4. /\ e.wallets = t /\ e.labels = labels /\ e.active = f.active
      /\ e = [kind |-> "index", wallets |-> e.wallets, labels |-> e.labels, active |-> e.active]
  <2>1. PICK wallets, was, active :
           f = [kind |-> "index", wallets |-> wallets, labels |-> was, active |-> active]
    BY DEF IsIndex
  <2>2. e = [kind |-> "index", wallets |-> t, labels |-> labels, active |-> active]
    BY <1>3, <2>1
  <2> QED
    BY <2>1, <2>2
<1>5. /\ e.wallets \in Seq(WalletSet)
      /\ \A j, k \in 1 .. Len(e.wallets) : e.wallets[j].id = e.wallets[k].id => j = k
      /\ Wallets(e) = (Wallets(f) \ {w}) \cup {v}
      /\ v \in WalletSet /\ v.id = w.id /\ v.type = w.type /\ v.slots = slots
      /\ Accounts(e) = {q \in Accounts(f) : q[1] # r[1]} \cup RefsOf(v)
  <2>1. slots \in Slots
    BY <1>2
  <2>2. /\ t \in Seq(WalletSet)
        /\ \A j, k \in 1 .. Len(t) : t[j].id = t[k].id => j = k
        /\ ToSet(t) = (Wallets(f) \ {w}) \cup {v}
        /\ v \in WalletSet /\ v.id = w.id /\ v.type = w.type /\ v.slots = slots
        /\ UNION {RefsOf(x) : x \in ToSet(t)} = {q \in Accounts(f) : q[1] # w.id} \cup RefsOf(v)
    <3>1. Reslots(f, w, v, t)
      BY <2>1, ReslottedKeeps DEF t, v
    <3>2. v.slots = slots
      BY <1>1 DEF v, Slotted, WalletSet
    <3> QED
      BY <3>1, <3>2 DEF Reslots
  <2> QED
    BY <1>4, <2>2 DEF Wallets, Accounts
<1>6. RefsOf(v) = RefsOf(w) \ {r}
  <2>1. \A k : RefOf(v, k) = <<r[1], k>> /\ RefOf(w, k) = <<r[1], k>>
    BY <1>5 DEF RefOf, IsHD
  <2>2. Indices(v) = Indices(w) \ {r[2]}
    BY <1>2, <1>5 DEF Indices
  <2>3. r = <<r[1], r[2]>>
    BY DEF Refs
  <2> QED
    BY <2>1, <2>2, <2>3 DEF RefsOf
<1>7. Accounts(e) = Accounts(f) \ {r}
  BY <1>5, <1>6, OwnRefs
<1>8. Coherent(v)
  <2>1. Coherent(w)
    BY DEF IsIndex
  <2> QED
    BY <1>1, <1>2, <1>5, <2>1 DEF Coherent, Indices
<1>9. IsIndex(e)
  <2>1. IsFiniteSet(DOMAIN labels) /\ DOMAIN labels \subseteq Refs
    BY <1>l, FS_RemoveElement DEF IsIndex
  <2> QED
    BY <1>4, <1>5, <1>8, <2>1 DEF IsIndex
<1>10. IsInjective(f.labels) => IsInjective(labels)
  BY <1>l DEF IsInjective
<1> QED
  BY <1>4, <1>5, <1>7, <1>9, <1>10, <1>l DEF e


LEMMA RemovedFirst ==
    ASSUME NEW S, NEW s \in Seq(S), NEW p \in 1 .. Len(s), \A k \in 1 .. Len(s) : s[k] = s[p] => k = p
    PROVE  LET t == RemoveFirst(s, s[p]) IN
           /\ t \in Seq(S) /\ Len(t) = Len(s) - 1
           /\ \A k \in 1 .. Len(t) : t[k] = s[IF k < p THEN k ELSE k + 1]
<1> DEFINE t == RemoveFirst(s, s[p])
<1>1. {i \in 1 .. Len(s) : s[i] = s[p]} = {p}
  OBVIOUS
<1>2. SelectInSeq(s, LAMBDA v : v = s[p]) = p
  <2>1. Min({p}) = p
    BY DEF Min
  <2> QED
    BY <1>1, <2>1 DEF SelectInSeq
<1>3. t = SubSeq(s, 1, p - 1) \o SubSeq(s, p + 1, Len(s))
  BY <1>2 DEF RemoveFirst, RemoveAt
<1> DEFINE a == SubSeq(s, 1, p - 1)
           b == SubSeq(s, p + 1, Len(s))
<1>4. Len(s) \in Nat /\ p \in Nat
  OBVIOUS
<1>5. a \in Seq(S) /\ Len(a) = p - 1 /\ \A k \in 1 .. p - 1 : a[k] = s[k]
  BY <1>4
<1>6. b \in Seq(S) /\ Len(b) = Len(s) - p /\ \A k \in 1 .. Len(s) - p : b[k] = s[k + p]
  BY <1>4
<1> HIDE DEF a, b, t
<1>7. t = a \o b
  BY <1>3 DEF a, b
<1>8. t \in Seq(S) /\ Len(t) = Len(s) - 1
  <2>1. t \in Seq(S) /\ Len(t) = Len(a) + Len(b)
    <3>1. a \in Seq(S) /\ b \in Seq(S)
      BY <1>5, <1>6
    <3> QED
      BY <1>7, <3>1, ConcatProperties
  <2>2. (p - 1) + (Len(s) - p) = Len(s) - 1
    BY <1>4
  <2> QED
    BY <1>5, <1>6, <2>1, <2>2
<1>9. ASSUME NEW k \in 1 .. Len(t) PROVE t[k] = s[IF k < p THEN k ELSE k + 1]
  <2>1. CASE k < p
    <3>1. k \in 1 .. p - 1
      BY <1>4, <1>8, <2>1
    <3>2. t[k] = a[k]
      BY <1>4, <1>5, <1>6, <1>7, <3>1
    <3> QED
      BY <1>5, <2>1, <3>1, <3>2
  <2>2. CASE ~(k < p)
    <3>1. k - (p - 1) \in 1 .. Len(s) - p /\ k - (p - 1) + p = k + 1
      BY <1>4, <1>8, <2>2
    <3>2. t[k] = b[k - (p - 1)]
      BY <1>4, <1>5, <1>6, <1>7, <1>8, <2>2
    <3> QED
      BY <1>6, <2>2, <3>1, <3>2
  <2> QED
    BY <2>1, <2>2
<1> QED
  BY <1>8, <1>9 DEF t

\* The first account is one of the accounts.
LEMMA FirstAccountFacts ==
    ASSUME NEW f, IsIndex(f)
    PROVE  FirstAccount(f) \in Accounts(f) \cup {NoAccount}
<1>1. CASE f.wallets = <<>>
  BY <1>1 DEF FirstAccount
<1>2. CASE f.wallets # <<>>
  <2>1. f.wallets \in Seq(WalletSet)
    BY DEF IsIndex
  <2>2. 1 \in 1 .. Len(f.wallets)
    BY <1>2, <2>1
  <2>3. f.wallets[1] \in Wallets(f) /\ f.wallets[1] \in WalletSet
    BY <2>2, IndexFacts
  <2> QED
    BY <1>2, <2>3, WalletFacts, IndexFacts DEF FirstAccount
<1> QED
  BY <1>1, <1>2

\* A wallet goes, with its accounts and their labels.
LEMMA WithoutWalletKeeps ==
    ASSUME NEW f, IsIndex(f), NEW w \in Wallets(f)
    PROVE  LET e == WithoutWallet(f, w.id) IN
           /\ IsIndex(e) /\ e.active = f.active
           /\ Accounts(e) = {r \in Accounts(f) : r[1] # w.id}
           /\ DOMAIN e.labels = {r \in DOMAIN f.labels : r[1] # w.id}
           /\ IsInjective(f.labels) => IsInjective(e.labels)
           /\ \A x \in Wallets(e) : x \in Wallets(f)
<1> DEFINE s == f.wallets
           t == RemoveFirst(s, w)
           labels == RestrictDomain(f.labels, LAMBDA r : r[1] # w.id)
           e == WithoutWallet(f, w.id)
<1>1. s \in Seq(WalletSet) /\ DOMAIN s = 1 .. Len(s) /\ Len(s) \in Nat
  BY DEF IsIndex
<1>2. PICK p \in 1 .. Len(s) : s[p] = w
  BY IndexFacts
<1>3. \A k \in 1 .. Len(s) : s[k] = s[p] => k = p
  BY DEF IsIndex
<1>4. /\ t \in Seq(WalletSet) /\ Len(t) = Len(s) - 1
      /\ \A k \in 1 .. Len(t) : t[k] = s[IF k < p THEN k ELSE k + 1]
  BY <1>1, <1>2, <1>3, RemovedFirst
<1>5. e = [f EXCEPT !.wallets = t, !.labels = labels]
  <2>1. WalletOf(f, w.id) = w
    BY IndexFacts
  <2> QED
    BY <2>1 DEF WithoutWallet
<1>l. /\ DOMAIN labels = {r \in DOMAIN f.labels : r[1] # w.id}
      /\ \A q \in DOMAIN labels : labels[q] = f.labels[q]
  BY DEF RestrictDomain, Restrict
<1> HIDE DEF t, e, labels
<1>6. /\ e.wallets = t /\ e.labels = labels /\ e.active = f.active
      /\ e = [kind |-> "index", wallets |-> e.wallets, labels |-> e.labels, active |-> e.active]
  <2>1. PICK wallets, was, active :
           f = [kind |-> "index", wallets |-> wallets, labels |-> was, active |-> active]
    BY DEF IsIndex
  <2>2. e = [kind |-> "index", wallets |-> t, labels |-> labels, active |-> active]
    BY <1>5, <2>1
  <2> QED
    BY <2>1, <2>2
<1>7. \A k \in 1 .. Len(t) : (IF k < p THEN k ELSE k + 1) \in 1 .. Len(s)
  BY <1>1, <1>4
<1>8. \A j, k \in 1 .. Len(t) : t[j].id = t[k].id => j = k
  <2> SUFFICES ASSUME NEW j \in 1 .. Len(t), NEW k \in 1 .. Len(t), t[j].id = t[k].id PROVE j = k
    OBVIOUS
  <2> DEFINE at(i) == IF i < p THEN i ELSE i + 1
  <2>1. /\ at(j) \in 1 .. Len(s) /\ s[at(j)] = t[j]
        /\ at(k) \in 1 .. Len(s) /\ s[at(k)] = t[k]
    BY <1>4, <1>7
  <2>2. \A i, n \in 1 .. Len(s) : s[i].id = s[n].id => i = n
    BY DEF IsIndex
  <2>3. at(j) = at(k)
    <3> HIDE DEF at
    <3> QED
      BY <2>1, <2>2
  <2> QED
    BY <1>1, <1>4, <2>3
<1>9. ToSet(t) = Wallets(f) \ {w}
  <2>1. ToSet(t) = {t[k] : k \in 1 .. Len(t)} /\ Wallets(f) = {s[k] : k \in 1 .. Len(s)}
    BY <1>1, <1>4 DEF Wallets, ToSet
  <2>2. ASSUME NEW k \in 1 .. Len(t) PROVE t[k] \in Wallets(f) \ {w}
    <3>1. (IF k < p THEN k ELSE k + 1) # p
      BY <1>1, <1>4
    <3> QED
      BY <1>2, <1>3, <1>4, <1>7, <2>1, <3>1
  <2>3. ASSUME NEW k \in 1 .. Len(s), s[k] # w PROVE s[k] \in ToSet(t)
    <3>1. CASE k < p
      <4>1. k \in 1 .. Len(t)
        BY <1>1, <1>4, <3>1
      <4> QED
        BY <1>4, <2>1, <3>1, <4>1
    <3>2. CASE k > p
      <4>1. k - 1 \in 1 .. Len(t) /\ ~(k - 1 < p) /\ k - 1 + 1 = k
        BY <1>1, <1>4, <3>2
      <4>2. t[k - 1] = s[k]
        BY <1>4, <4>1
      <4> QED
        BY <2>1, <4>1, <4>2
    <3>3. k # p
      BY <1>2, <2>3
    <3> QED
      BY <3>1, <3>2, <3>3
  <2> QED
    BY <2>1, <2>2, <2>3
<1>10. Accounts(e) = {r \in Accounts(f) : r[1] # w.id}
  <2>1. Accounts(e) = UNION {RefsOf(x) : x \in Wallets(f) \ {w}}
    BY <1>6, <1>9 DEF Accounts, Wallets
  <2>2. \A x \in Wallets(f) : \A r \in RefsOf(x) : r[1] = x.id
    BY IndexFacts, WalletFacts DEF RefsOf
  <2>3. \A x \in Wallets(f) : x # w <=> x.id # w.id
    BY IndexFacts
  <2> QED
    BY <2>1, <2>2, <2>3 DEF Accounts
<1>11. IsIndex(e)
  <2>1. DOMAIN labels \subseteq DOMAIN f.labels
    BY <1>l
  <2>2. IsFiniteSet(DOMAIN labels) /\ DOMAIN labels \subseteq Refs
    BY <2>1, FS_Subset DEF IsIndex
  <2>3. Wallets(e) = Wallets(f) \ {w}
    BY <1>6, <1>9 DEF Wallets
  <2> QED
    BY <1>4, <1>6, <1>8, <2>2, <2>3 DEF IsIndex
<1>12. IsInjective(f.labels) => IsInjective(labels)
  BY <1>l DEF IsInjective
<1>13. Wallets(e) \subseteq Wallets(f)
  BY <1>6, <1>9 DEF Wallets
<1> QED
  BY <1>6, <1>10, <1>11, <1>12, <1>13, <1>l DEF e

LEMMA Smallest ==
    ASSUME NEW S \in SUBSET Nat, S # {}
    PROVE  \E x \in S : \A y \in S : x <= y
<1>1. IsWellFoundedOn(OpToRel(<, Nat), Nat)
  BY NatLessThanWellFounded
<1>2. PICK x \in S : \A y \in S : ~(<<y, x>> \in OpToRel(<, Nat))
  BY <1>1, WFMin, Zenon
<1>3. \A y \in S : ~ (y < x)
  BY <1>2 DEF OpToRel
<1> QED
  BY <1>3

\* Among one more candidate than there are labels, one is free.
LEMMA DefaultLabelFree ==
    ASSUME NEW f, IsIndex(f), NEW r
    PROVE  LabelFree(f, r, DefaultLabel(f))
<1> DEFINE n == Len(f.wallets)
           L == DOMAIN f.labels
           m == Cardinality(L)
           candidates == n .. (n + m)
           free == {k \in candidates : <<"wallet", k>> \notin Range(f.labels)}
<1>1. n \in Nat /\ m \in Nat /\ IsFiniteSet(L)
  BY FS_CardinalityType DEF IsIndex
<1>2. IsFiniteSet(candidates) /\ Cardinality(candidates) = m + 1
  <2> HIDE DEF n, m
  <2>1. n \in Int /\ n + m \in Int /\ ~(n > n + m) /\ (n + m) - n + 1 = m + 1
    BY <1>1
  <2> QED
    BY <2>1, FS_Interval
<1>3. free # {}
  <2> SUFFICES ASSUME free = {} PROVE FALSE
    OBVIOUS
  <2>1. \A k \in candidates : \E q \in L : f.labels[q] = <<"wallet", k>>
    BY DEF Range
  <2> DEFINE at == [k \in candidates |-> CHOOSE q \in L : f.labels[q] = <<"wallet", k>>]
  <2>2. \A k \in candidates : at[k] \in L /\ f.labels[at[k]] = <<"wallet", k>>
    BY <2>1
  <2>3. at \in [candidates -> L]
    BY <2>2
  <2> HIDE DEF at, candidates, L, m
  <2>4. m < Cardinality(candidates)
    BY <1>1, <1>2
  <2>5. \E x, y \in candidates : x # y /\ at[x] = at[y]
    BY <1>1, <1>2, <2>3, <2>4, FS_PigeonHole DEF m
  <2> QED
    BY <2>2, <2>5
<1>4. free \in SUBSET Nat
  BY <1>1
<1> HIDE DEF free
<1>5. Min(free) \in free
  BY <1>3, <1>4, Smallest DEF Min
<1>6. DefaultLabel(f) = <<"wallet", Min(free)>> /\ <<"wallet", Min(free)>> \notin Range(f.labels)
  BY <1>5 DEF DefaultLabel, free
<1> QED
  BY <1>6 DEF LabelFree, Range

\* What a reference resolves to is the account of a well-formed id.
LEMMA RefFacts ==
    ASSUME NEW f, IsIndex(f), NEW input, Typed(input), NEW r \in ToRef(f, input)
    PROVE  r \in Refs /\ (input.by # "id" => r \in Accounts(f) \cup DOMAIN f.labels)
<1>1. CASE input.by = "id"
  BY <1>1 DEF ToRef, Typed
<1>2. CASE input.by = "address"
  BY <1>2, IndexFacts DEF ToRef, AddressHits
<1>3. CASE input.by = "label"
  BY <1>3 DEF ToRef, LabelHits, IsIndex
<1> QED
  BY <1>1, <1>2, <1>3 DEF Typed

LEMMA InputFacts ==
    ASSUME IndexInv, NEW input \in Inputs
    PROVE  /\ Typed(input)
           /\ \A r \in ToRef(disk, input) : r \in Refs /\ (~LooseRefs => r \in Accounts(disk))
<1>1. Accounts(disk) \subseteq Refs /\ (1 .. MaxBorn) \X (Whole .. MaxIndex) \subseteq Refs
  BY IndexFacts, IndexAssumption DEF IndexInv, Refs, Whole
<1>2. Typed(input) /\ (input.by = "id" /\ ~LooseRefs => input.ref \in Accounts(disk))
  BY <1>1 DEF Inputs, Typed
<1>3. ASSUME NEW r \in ToRef(disk, input) PROVE r \in Refs /\ (~LooseRefs => r \in Accounts(disk))
  <2>1. r \in Refs /\ (input.by # "id" => r \in Accounts(disk) \cup DOMAIN disk.labels)
    BY <1>2, <1>3, RefFacts DEF IndexInv
  <2>2. input.by = "id" => r = input.ref
    BY <1>3 DEF ToRef
  <2> QED
    BY <1>2, <2>1, <2>2 DEF IndexInv, Fits
<1> QED
  BY <1>2, <1>3

LEMMA IndexStart == IndexInit => IndexInv
<1> SUFFICES ASSUME IndexInit PROVE IndexInv
  OBVIOUS
<1>1. PICK slots \in {FirstSlot, With(FirstSlot, 1, "legacy")} :
        disk = [kind |-> "index",
                wallets |-> <<[id |-> 1, type |-> "seed", key |-> "S", slots |-> slots]>>,
                labels |-> [r \in {<<1, i>> : i \in DOMAIN slots} |->
                              IF r[2] = 0 THEN <<"wallet", 1>> ELSE <<"derived", <<"wallet", 1>>, 1>>],
                active |-> <<1, 0>>]
  BY DEF IndexInit
<1>2. /\ DOMAIN slots \in {{0}, {0, 1}} /\ DOMAIN slots \subseteq 0 .. MaxIndex /\ slots \in Slots
      /\ \A i \in DOMAIN slots \ {0} : slots[i] = "legacy"
  <2>1. /\ DOMAIN slots \in {{0}, {0, 1}}
        /\ \A i \in DOMAIN slots : slots[i] = IF i = 0 THEN "current" ELSE "legacy"
        /\ slots = [i \in DOMAIN slots |-> slots[i]]
    BY DEF FirstSlot, With
  <2>2. DOMAIN slots \subseteq 0 .. MaxIndex /\ 0 \in DOMAIN slots
    BY <2>1, IndexAssumption
  <2>3. slots \in [DOMAIN slots -> {"current", "legacy"}]
    BY <2>1
  <2> QED
    BY <2>1, <2>2, <2>3, SlotMember
<1> DEFINE w == [id |-> 1, type |-> "seed", key |-> "S", slots |-> slots]
<1>3. w \in WalletSet /\ Indices(w) = DOMAIN slots /\ Coherent(w) /\ IsHD(w) /\ w.id = 1 /\ w.slots = slots
  BY <1>2 DEF WalletSet, Indices, Coherent, IsHD
<1> HIDE DEF w
<1>4. disk.wallets = <<w>> /\ Wallets(disk) = {w}
  BY <1>1 DEF Wallets, ToSet, w
<1>5. DOMAIN disk.labels = {<<1, i>> : i \in DOMAIN slots}
      /\ \A r \in DOMAIN disk.labels :
            disk.labels[r] = IF r[2] = 0 THEN <<"wallet", 1>> ELSE <<"derived", <<"wallet", 1>>, 1>>
  BY <1>1
<1>6. RefsOf(w) = {<<1, i>> : i \in DOMAIN slots}
  BY <1>3 DEF RefsOf, RefOf
<1>7. Accounts(disk) = DOMAIN disk.labels
  BY <1>4, <1>5, <1>6 DEF Accounts
<1>8. IsFiniteSet(DOMAIN disk.labels) /\ DOMAIN disk.labels \subseteq Refs
  <2>1. DOMAIN disk.labels = {<<1, 0>>} \/ DOMAIN disk.labels = {<<1, 0>>} \cup {<<1, 1>>}
    BY <1>2, <1>5
  <2>2. IsFiniteSet({<<1, 0>>}) /\ IsFiniteSet({<<1, 0>>} \cup {<<1, 1>>})
    BY FS_Singleton, FS_Union
  <2> QED
    <3>1. \A i \in DOMAIN slots : <<1, i>> \in Refs
      BY <1>2, IndexAssumption DEF Refs, Whole
    <3> QED
      BY <1>5, <2>1, <2>2, <3>1
<1>9. IsInjective(disk.labels)
  <2>1. <<"wallet", 1>> # <<"derived", <<"wallet", 1>>, 1>>
    OBVIOUS
  <2>2. \A r, q \in DOMAIN disk.labels : disk.labels[r] = disk.labels[q] => r = q
    BY <1>2, <1>5, <2>1
  <2> QED
    BY <2>2 DEF IsInjective
<1>10. disk.active = <<1, 0>> /\ <<1, 0>> \in Refs /\ <<1, 0>> \in Accounts(disk)
  BY <1>1, <1>2, <1>5, <1>7, IndexAssumption DEF Refs, Whole
<1>11. IsIndex(disk)
  <2>1. disk = [kind |-> "index", wallets |-> disk.wallets, labels |-> disk.labels, active |-> disk.active]
    BY <1>1
  <2>2. disk.wallets \in Seq(WalletSet) /\ Len(disk.wallets) = 1
    BY <1>3, <1>4
  <2> QED
    BY <1>3, <1>4, <1>8, <1>10, <2>1, <2>2 DEF IsIndex
<1>12. spent = 1 /\ task = Free
  BY DEF IndexInit
<1> QED
  BY <1>3, <1>4, <1>7, <1>9, <1>10, <1>11, <1>12 DEF IndexInv, Fits

LEMMA RegisterKeeps == IndexInv /\ Register => IndexInv'
<1> SUFFICES ASSUME IndexInv, Register PROVE IndexInv'
  OBVIOUS
<1>1. PICK source \in Sources, choice \in LabelChoices :
        /\ LabelGiven(choice) => LabelFree(disk, NoAccount, choice)
        /\ disk' = Registered(disk, source, choice)
  BY DEF Register
<1> DEFINE w == [id |-> spent + 1, type |-> source.type, key |-> source.key, slots |-> FirstSlot]
           r == RefOf(w, 0)
           a == IF Selects(source) THEN r ELSE disk.active
           g == [disk EXCEPT !.wallets = Append(@, w), !.active = a]
           label == LabelFor(g, choice)
<1>2. spent' = spent + 1 /\ task' = task /\ spent \in Nat
  BY DEF Register, IndexInv
<1>3. w \in WalletSet /\ w.slots = FirstSlot /\ w.id = spent + 1
  <2>1. FirstSlot \in Slots
    <3>1. FirstSlot \in [{0} -> {"current", "legacy"}] /\ {0} \subseteq 0 .. MaxIndex
      BY IndexAssumption DEF FirstSlot
    <3> QED
      BY <3>1, SlotMember
  <2>2. source.type \in {"seed", "privateKey", "ledger", "watch"} /\ source.key \in {"S", "K", "L"}
    BY DEF Sources
  <2> QED
    BY <1>2, <2>1, <2>2 DEF WalletSet
<1>4. disk' = Labelled(g, r, label)
  BY <1>1 DEF Registered
<1> HIDE DEF w, label
<1>5. \A v \in Wallets(disk) : v.id # w.id /\ v.id <= spent
  BY <1>2, <1>3, IndexFacts DEF IndexInv, WalletSet
<1>6. r \in Refs /\ a \in Refs
  <2>1. 0 \in Indices(w)
    BY <1>3, WalletFacts
  <2> QED
    BY <1>3, <2>1, WalletFacts DEF IndexInv, IsIndex
<1> HIDE DEF r
<1>7. /\ IsIndex(g) /\ Wallets(g) = Wallets(disk) \cup {w} /\ g.labels = disk.labels /\ g.active = a
      /\ Accounts(g) = Accounts(disk) \cup {r} /\ r \notin Accounts(disk)
  <2> HIDE DEF a
  <2> QED
    BY <1>3, <1>5, <1>6, AddedKeeps DEF IndexInv, r
<1> HIDE DEF g
<1>8. /\ IsIndex(disk') /\ disk'.wallets = g.wallets /\ disk'.active = a /\ Accounts(disk') = Accounts(g)
      /\ DOMAIN disk'.labels = DOMAIN disk.labels \cup {r}
      /\ IsInjective(disk.labels) /\ LabelFree(g, r, label) => IsInjective(disk'.labels)
  BY <1>4, <1>6, <1>7, LabelledKeeps
<1>9. \A v \in Wallets(disk') : v.id <= spent'
  <2>1. Wallets(disk') = Wallets(g)
    BY <1>8 DEF Wallets
  <2>2. \A v \in Wallets(disk) : v.id \in Nat
    BY IndexFacts DEF IndexInv, WalletSet
  <2> QED
    BY <1>2, <1>3, <1>5, <1>7, <2>1, <2>2
<1>10. ~LooseRefs => Fits(disk')
  <2> SUFFICES ASSUME ~LooseRefs PROVE Fits(disk')
    OBVIOUS
  <2>1. Fits(disk)
    BY DEF IndexInv
  <2>2. LabelFree(g, r, label)
    <3>1. CASE LabelGiven(choice)
      <4>1. label = choice /\ \A q \in DOMAIN disk.labels : disk.labels[q] = choice => q = NoAccount
        BY <1>1, <3>1 DEF label, LabelFor, LabelFree
      <4>2. NoAccount \notin DOMAIN disk.labels
        BY <2>1, IndexFacts DEF Fits, IndexInv
      <4> QED
        BY <1>7, <4>1, <4>2 DEF LabelFree
    <3>2. CASE ~LabelGiven(choice)
      BY <1>7, <3>2, DefaultLabelFree DEF label, LabelFor
    <3> QED
      BY <3>1, <3>2
  <2> QED
    BY <1>7, <1>8, <2>1, <2>2 DEF Fits
<1> QED
  BY <1>2, <1>8, <1>9, <1>10 DEF IndexInv

\* What selects an account, or gives one a new label, keeps the index.
LEMMA SelectKeeps ==
    ASSUME IndexInv, NEW r \in Refs, ~LooseRefs => r \in Accounts(disk),
           disk' = [disk EXCEPT !.active = r], spent' = spent, task' \in {task, Free}
    PROVE  IndexInv'
<1>1. /\ IsIndex(disk') /\ disk'.wallets = disk.wallets /\ disk'.labels = disk.labels /\ disk'.active = r
      /\ Accounts(disk') = Accounts(disk)
  BY SelectedKeeps DEF IndexInv
<1>2. \A w \in Wallets(disk') : w.id <= spent'
  BY <1>1 DEF IndexInv, Wallets
<1>3. ~LooseRefs => Fits(disk')
  BY <1>1 DEF IndexInv, Fits
<1> QED
  BY <1>1, <1>2, <1>3 DEF IndexInv

LEMMA RenameKeeps == IndexInv /\ Rename => IndexInv'
<1> SUFFICES ASSUME IndexInv, Rename PROVE IndexInv'
  OBVIOUS
<1>1. PICK input \in Inputs, label \in Given :
        \E r \in ToRef(disk, input) : LabelFree(disk, r, label) /\ disk' = Labelled(disk, r, label)
  BY DEF Rename
<1>2. PICK r \in ToRef(disk, input) : LabelFree(disk, r, label) /\ disk' = Labelled(disk, r, label)
  BY <1>1
<1>3. r \in Refs /\ (~LooseRefs => r \in Accounts(disk))
  BY InputFacts
<1>4. /\ IsIndex(disk') /\ disk'.wallets = disk.wallets /\ disk'.active = disk.active
      /\ Accounts(disk') = Accounts(disk) /\ DOMAIN disk'.labels = DOMAIN disk.labels \cup {r}
      /\ IsInjective(disk.labels) => IsInjective(disk'.labels)
  BY <1>2, <1>3, LabelledKeeps DEF IndexInv
<1>5. ~LooseRefs => Fits(disk')
  BY <1>3, <1>4 DEF IndexInv, Fits
<1>6. \A w \in Wallets(disk') : w.id <= spent'
  BY <1>4 DEF IndexInv, Wallets, Rename
<1> QED
  BY <1>4, <1>5, <1>6 DEF IndexInv, Rename

LEMMA DeriveNewKeeps ==
    ASSUME IndexInv, NEW w \in Wallets(disk), NEW i, NEW choice, DeriveNew(w, i, choice),
           spent' = spent, task' = Free
    PROVE  IndexInv'
<1> DEFINE label == IF LabelGiven(choice) THEN choice ELSE DerivedLabel(BaseLabel(w), i)
           r == RefOf(w, i)
           g == WithSlot(disk, w.id, i)
           h == Labelled(g, r, label)
<1>1. /\ i \in (0 .. MaxIndex) \ Indices(w) /\ Derivable(w) /\ LabelFree(disk, r, label)
      /\ disk' = [h EXCEPT !.active = r]
  BY DEF DeriveNew
<1>2. /\ IsIndex(g) /\ g.labels = disk.labels /\ g.active = disk.active
      /\ Accounts(g) = Accounts(disk) \cup {r} /\ r \in Refs
      /\ \A x \in Wallets(g) : \E y \in Wallets(disk) : x.id = y.id
  BY <1>1, WithSlotKeeps DEF IndexInv
<1> HIDE DEF g, r, label
<1>3. /\ IsIndex(h) /\ h.wallets = g.wallets /\ Accounts(h) = Accounts(g)
      /\ DOMAIN h.labels = DOMAIN g.labels \cup {r}
      /\ IsInjective(g.labels) /\ LabelFree(g, r, label) => IsInjective(h.labels)
  BY <1>2, LabelledKeeps
<1> HIDE DEF h
<1>4. /\ IsIndex(disk') /\ disk'.wallets = h.wallets /\ disk'.labels = h.labels /\ disk'.active = r
      /\ Accounts(disk') = Accounts(h)
  BY <1>1, <1>2, <1>3, SelectedKeeps
<1>5. ~LooseRefs => Fits(disk')
  <2>1. LabelFree(g, r, label)
    BY <1>1, <1>2 DEF LabelFree
  <2> QED
    BY <1>2, <1>3, <1>4, <2>1 DEF IndexInv, Fits
<1>6. \A x \in Wallets(disk') : x.id <= spent'
  BY <1>2, <1>3, <1>4 DEF IndexInv, Wallets
<1> QED
  BY <1>4, <1>5, <1>6 DEF IndexInv

LEMMA DeriveCommitKeeps == IndexInv /\ DeriveCommit => IndexInv'
<1> SUFFICES ASSUME IndexInv, DeriveCommit PROVE IndexInv'
  OBVIOUS
<1>1. PICK w \in Wallets(disk) : w = WalletOf(disk, task.id)
  BY IndexFacts DEF DeriveCommit, IndexInv, Known
<1>2. PICK i \in Indices(w) \cup {NextIndex(w), 1}, choice \in LabelChoices :
        DeriveNew(w, i, choice) \/ DeriveExisting(w, i, choice)
  BY <1>1 DEF DeriveCommit
<1>3. spent' = spent /\ task' = Free
  BY DEF DeriveCommit
<1>4. CASE DeriveNew(w, i, choice)
  BY <1>3, <1>4, DeriveNewKeeps
<1>5. CASE DeriveExisting(w, i, choice)
  <2>1. RefOf(w, i) \in Accounts(disk) /\ RefOf(w, i) \in Refs
    BY <1>5, IndexFacts DEF DeriveExisting, IndexInv
  <2> QED
    BY <1>3, <1>5, <2>1, SelectKeeps DEF DeriveExisting
<1> QED
  BY <1>2, <1>4, <1>5

\* An account that goes takes its label along, and the selection passes to one that stays.
LEMMA RemovedAccountKeeps ==
    ASSUME NEW f, IsIndex(f), NEW r \in Refs, NEW w \in Wallets(f), w.id = r[1], IsHD(w), r[2] > 0
    PROVE  LET e == RemovedAccount(f, r) IN
           /\ IsIndex(e)
           /\ Fits(f) => Fits(e)
           /\ \A x \in Wallets(e) : \E y \in Wallets(f) : x.id = y.id
<1> DEFINE g == WithoutSlot(f, r)
           a == IF g.active = r THEN FirstAccount(g) ELSE g.active
           e == RemovedAccount(f, r)
<1>1. e = [g EXCEPT !.active = a]
  BY DEF RemovedAccount
<1>2. /\ IsIndex(g) /\ g.active = f.active
      /\ Accounts(g) = Accounts(f) \ {r} /\ DOMAIN g.labels = DOMAIN f.labels \ {r}
      /\ IsInjective(f.labels) => IsInjective(g.labels)
      /\ \A x \in Wallets(g) : \E y \in Wallets(f) : x.id = y.id
  BY WithoutSlotKeeps
<1> HIDE DEF g, e
<1>3. FirstAccount(g) \in Accounts(g) \cup {NoAccount}
  BY <1>2, FirstAccountFacts
<1>4. a \in Refs
  <2>1. NoAccount \in Refs
    BY IndexAssumption DEF NoAccount, Refs, Whole
  <2> QED
    BY <1>2, <1>3, <2>1, IndexFacts DEF IsIndex
<1>5. /\ IsIndex(e) /\ e.wallets = g.wallets /\ e.labels = g.labels /\ e.active = a
      /\ Accounts(e) = Accounts(g)
  <2> HIDE DEF a
  <2> QED
    BY <1>1, <1>2, <1>4, SelectedKeeps
<1>6. Fits(f) => Fits(e)
  BY <1>2, <1>3, <1>5 DEF Fits
<1>7. \A x \in Wallets(e) : \E y \in Wallets(f) : x.id = y.id
  BY <1>2, <1>5 DEF Wallets
<1> QED
  BY <1>5, <1>6, <1>7 DEF e

LEMMA RemovedWalletKeeps ==
    ASSUME NEW f, IsIndex(f), NEW r \in Refs, NEW w \in Wallets(f), w.id = r[1]
    PROVE  LET e == RemovedWallet(f, r) IN
           /\ IsIndex(e)
           /\ Fits(f) => Fits(e)
           /\ \A x \in Wallets(e) : \E y \in Wallets(f) : x.id = y.id
<1> DEFINE g == WithoutWallet(f, r[1])
           a == IF g.active[1] = r[1] THEN FirstAccount(g) ELSE g.active
           e == RemovedWallet(f, r)
<1>1. e = [g EXCEPT !.active = a]
  BY DEF RemovedWallet
<1>2. /\ IsIndex(g) /\ g.active = f.active
      /\ Accounts(g) = {q \in Accounts(f) : q[1] # r[1]}
      /\ DOMAIN g.labels = {q \in DOMAIN f.labels : q[1] # r[1]}
      /\ IsInjective(f.labels) => IsInjective(g.labels)
      /\ \A x \in Wallets(g) : x \in Wallets(f)
  BY WithoutWalletKeeps
<1> HIDE DEF g, e
<1>3. FirstAccount(g) \in Accounts(g) \cup {NoAccount}
  BY <1>2, FirstAccountFacts
<1>4. a \in Refs
  <2>1. NoAccount \in Refs
    BY IndexAssumption DEF NoAccount, Refs, Whole
  <2> QED
    BY <1>2, <1>3, <2>1, IndexFacts DEF IsIndex
<1>5. /\ IsIndex(e) /\ e.wallets = g.wallets /\ e.labels = g.labels /\ e.active = a
      /\ Accounts(e) = Accounts(g)
  <2> HIDE DEF a
  <2> QED
    BY <1>1, <1>2, <1>4, SelectedKeeps
<1>6. Fits(f) => Fits(e)
  BY <1>2, <1>3, <1>5 DEF Fits
<1>7. \A x \in Wallets(e) : \E y \in Wallets(f) : x.id = y.id
  BY <1>2, <1>5 DEF Wallets
<1> QED
  BY <1>5, <1>6, <1>7 DEF e

LEMMA DeleteCommitKeeps == IndexInv /\ DeleteCommit => IndexInv'
<1> SUFFICES ASSUME IndexInv, DeleteCommit PROVE IndexInv'
  OBVIOUS
<1>1. Typed(task.input) /\ spent' = spent /\ task' = Free
  BY DEF IndexInv, DeleteCommit, Free
<1>2. PICK r \in ToRef(disk, task.input) : Known(disk, r[1]) /\ disk' = Removed(disk, r)
  BY DEF DeleteCommit
<1>3. r \in Refs
  BY <1>1, RefFacts DEF IndexInv
<1>4. PICK w \in Wallets(disk) : w.id = r[1] /\ w = WalletOf(disk, r[1])
  BY <1>2, IndexFacts DEF IndexInv, Known
<1>5. /\ IsIndex(disk')
      /\ Fits(disk) => Fits(disk')
      /\ \A x \in Wallets(disk') : \E y \in Wallets(disk) : x.id = y.id
  <2>1. CASE IsHD(w) /\ r[2] > 0
    <3>1. disk' = RemovedAccount(disk, r)
      BY <1>2, <1>4, <2>1 DEF Removed
    <3> QED
      BY <1>3, <1>4, <2>1, <3>1, RemovedAccountKeeps DEF IndexInv
  <2>2. CASE ~(IsHD(w) /\ r[2] > 0)
    <3>1. disk' = RemovedWallet(disk, r)
      BY <1>2, <1>4, <2>2 DEF Removed
    <3> QED
      BY <1>3, <1>4, <3>1, RemovedWalletKeeps DEF IndexInv
  <2> QED
    BY <2>1, <2>2
<1>6. \A x \in Wallets(disk') : x.id <= spent'
  BY <1>1, <1>5 DEF IndexInv
<1>7. spent' \in Nat /\ (~LooseRefs => Fits(disk'))
  BY <1>1, <1>5 DEF IndexInv
<1> QED
  BY <1>1, <1>5, <1>6, <1>7 DEF IndexInv

LEMMA IndexKeeps == IndexInv /\ IndexNext => IndexInv'
<1> SUFFICES ASSUME IndexInv, IndexNext PROVE IndexInv'
  OBVIOUS
<1>1. CASE Register
  BY <1>1, RegisterKeeps
<1>2. CASE Reimport
  <2>1. PICK r \in Accounts(disk) : disk' = [disk EXCEPT !.active = r]
    BY <1>2 DEF Reimport
  <2> QED
    BY <1>2, <2>1, IndexFacts, SelectKeeps DEF Reimport, IndexInv
<1>3. CASE DeriveChoose
  BY <1>3 DEF DeriveChoose, IndexInv, Fits, Wallets, Accounts
<1>4. CASE DeriveCommit
  BY <1>4, DeriveCommitKeeps
<1>5. CASE Use
  <2>1. PICK input \in Inputs : \E r \in ToRef(disk, input) : disk' = [disk EXCEPT !.active = r]
    BY <1>5 DEF Use
  <2>2. PICK r \in ToRef(disk, input) : disk' = [disk EXCEPT !.active = r]
    BY <2>1
  <2> QED
    BY <1>5, <2>2, InputFacts, SelectKeeps DEF Use
<1>6. CASE Rename
  BY <1>6, RenameKeeps
<1>7. CASE DeleteConfirm
  <2>1. PICK input \in Inputs : task' = [op |-> "delete", input |-> input]
    BY <1>7 DEF DeleteConfirm
  <2>2. Typed(input)
    BY InputFacts
  <2> QED
    BY <1>7, <2>1, <2>2 DEF DeleteConfirm, IndexInv, Fits, Wallets, Accounts
<1>8. CASE DeleteCommit
  BY <1>8, DeleteCommitKeeps
<1>9. CASE GiveUp
  BY <1>9 DEF GiveUp, IndexInv, Fits, Wallets, Accounts
<1> QED
  BY <1>1, <1>2, <1>3, <1>4, <1>5, <1>6, <1>7, <1>8, <1>9 DEF IndexNext

\* What the index owes its readers.
LEMMA IndexSafe == IndexInv => OneTemplate /\ (~LooseRefs => ActiveExists /\ IndexLoads)
<1> SUFFICES ASSUME IndexInv PROVE OneTemplate /\ (~LooseRefs => ActiveExists /\ IndexLoads)
  OBVIOUS
<1>1. OneTemplate
  BY DEF IndexInv, IsIndex, Coherent, OneTemplate
<1>2. DOMAIN disk.wallets = 1 .. Len(disk.wallets)
  BY DEF IndexInv, IsIndex
<1>3. ~LooseRefs => ActiveExists /\ IndexLoads
  <2>1. ~LooseRefs => IndexLoads
    BY <1>2 DEF IndexInv, IsIndex, Fits, IndexLoads
  <2>2. ASSUME ~LooseRefs, disk.active # NoAccount
        PROVE  \E r \in Resolve(disk, [by |-> "id", ref |-> disk.active]) : r[2] \in Indices(r[1])
    <3>0. PICK w \in Wallets(disk) : \E i \in Indices(w) : disk.active = RefOf(w, i)
      BY <2>2, IndexFacts DEF IndexInv, Fits
    <3>1. PICK i \in Indices(w) : disk.active = RefOf(w, i)
      BY <3>0
    <3>2. w \in WalletSet /\ i \in 0 .. MaxIndex /\ 0 \in Indices(w)
      BY <3>0, IndexFacts DEF IndexInv, WalletSet, Slots, Indices
    <3>3. Known(disk, w.id) /\ WalletOf(disk, w.id) = w
      BY <3>0, IndexFacts DEF IndexInv, Known, WalletOf
    <3>4. disk.active \in ToRef(disk, [by |-> "id", ref |-> disk.active])
      BY DEF ToRef
    <3>5. disk.active[1] = w.id /\ disk.active[2] = (IF IsHD(w) THEN i ELSE Whole)
      BY <3>1 DEF RefOf
    <3>6. <<w, IF IsHD(w) THEN i ELSE 0>> \in Resolve(disk, [by |-> "id", ref |-> disk.active])
      BY <3>2, <3>3, <3>4, <3>5 DEF Resolve, Whole
    <3> QED
      BY <3>2, <3>6
  <2> QED
    BY <2>1, <2>2 DEF ActiveExists
<1> QED
  BY <1>1, <1>3

-----------------------------------------------------------------------------
(* The contact book. *)

BookEntries ==
    [family : Families, name : ContactNames, address : Families \X (ContactAddresses \cup {1})]
IsBook(book) ==
    /\ book \in [Families -> SUBSET BookEntries]
    /\ \A f \in Families : IsFiniteSet(book[f])
    /\ Readable(book)

ContactsInv ==
    /\ disk = [kind |-> "contacts", book |-> disk.book]
    /\ IsBook(disk.book)
    /\ task = Free \/ (task.op = "remove" /\ task.family \in Families)

LEMMA ContactsStart == ContactsInit => ContactsInv
<1> SUFFICES ASSUME ContactsInit PROVE ContactsInv
  OBVIOUS
<1>1. PICK old \in SUBSET ContactNames :
        /\ Cardinality(old) <= MaxContacts
        /\ disk = [kind |-> "contacts",
                   book |-> [f \in Families |->
                       IF f = "tron" THEN [family : {f}, name : old, address : {<<f, 1>>}] ELSE {}]]
  BY DEF ContactsInit
<1> DEFINE S == [family : {"tron"}, name : old, address : {<<"tron", 1>>}]
           at == [e \in S |-> e.name]
<1>2. disk.book \in [Families -> SUBSET S] /\ disk.book["tron"] = S /\ disk.book["evm"] = {}
  BY <1>1 DEF Families
<1>3. IsFiniteSet(old)
  BY FS_Subset, BooksAssumption
<1>4. at \in Injection(S, old)
  BY DEF Injection, IsInjective
<1>5. IsFiniteSet(S) /\ Cardinality(S) <= Cardinality(old)
  <2> HIDE DEF S, at
  <2> QED
    BY <1>3, <1>4, FS_Injection
<1>6. \A e, d \in S : e.name = d.name => e = d
  OBVIOUS
<1>7. S \subseteq BookEntries
  BY DEF Families, BookEntries
<1> HIDE DEF S
<1>8. \A f \in Families : f = "tron" \/ f = "evm"
  BY DEF Families
<1>9. /\ \A f \in Families : IsFiniteSet(disk.book[f])
      /\ \A f \in Families : Cardinality(disk.book[f]) <= MaxContacts
  <2>1. Cardinality(S) \in Nat /\ Cardinality(old) \in Nat /\ IsFiniteSet({}) /\ Cardinality({}) = 0
    BY <1>3, <1>5, FS_CardinalityType, FS_EmptySet
  <2>2. Cardinality(S) <= MaxContacts /\ 0 <= MaxContacts
    BY <1>1, <1>5, <2>1, BooksAssumption
  <2> QED
    BY <1>2, <1>5, <1>8, <2>1, <2>2
<1>10. UniqueNames(disk.book)
  BY <1>2, <1>6, <1>8 DEF UniqueNames
<1>11. disk.book \in [Families -> SUBSET BookEntries]
  BY <1>2, <1>7
<1> QED
  BY <1>1, <1>9, <1>10, <1>11 DEF ContactsInv, ContactsInit, IsBook, Readable

LEMMA ContactsKeeps == ContactsInv /\ ContactsNext => ContactsInv'
<1> SUFFICES ASSUME ContactsInv, ContactsNext PROVE ContactsInv'
  OBVIOUS
<1>0. IsBook(disk.book) /\ disk.book \in [Families -> SUBSET BookEntries] /\ UniqueNames(disk.book)
      /\ \A f \in Families : IsFiniteSet(disk.book[f]) /\ Cardinality(disk.book[f]) <= MaxContacts
  BY DEF ContactsInv, IsBook, Readable
\* One family's contacts are exchanged for others.
<1>a. ASSUME NEW f \in Families, NEW S \in SUBSET BookEntries, disk' = [disk EXCEPT !.book[f] = S],
             IsFiniteSet(S), Cardinality(S) <= MaxContacts,
             \A e \in S : \A g \in Families : \A d \in (IF g = f THEN S ELSE disk.book[g]) :
                 e.name = d.name => f = g /\ e = d,
             task' \in {task, Free}
      PROVE  ContactsInv'
  <2>1. disk' = [disk EXCEPT !.book = [disk.book EXCEPT ![f] = S]]
    BY <1>a
  <2> DEFINE b == [disk.book EXCEPT ![f] = S]
  <2>2. disk' = [kind |-> "contacts", book |-> b] /\ disk'.book = b
    BY <2>1 DEF ContactsInv
  <2>3. b \in [Families -> SUBSET BookEntries] /\ \A g \in Families : b[g] = IF g = f THEN S ELSE disk.book[g]
    BY <1>0
  <2> HIDE DEF b
  <2>4. \A g \in Families : IsFiniteSet(b[g]) /\ Cardinality(b[g]) <= MaxContacts
    BY <1>0, <1>a, <2>3
  <2>5. UniqueNames(b)
    <3> SUFFICES ASSUME NEW g \in Families, NEW h \in Families, NEW d \in b[g], NEW e \in b[h],
                        d.name = e.name
                 PROVE  g = h /\ d = e
      BY DEF UniqueNames
    <3>1. CASE g = f
      BY <1>a, <2>3, <3>1
    <3>2. CASE h = f
      BY <1>a, <2>3, <3>2
    <3>3. CASE g # f /\ h # f
      BY <1>0, <2>3, <3>3 DEF UniqueNames
    <3> QED
      BY <3>1, <3>2, <3>3
  <2>6. IsBook(b)
    BY <2>3, <2>4, <2>5 DEF IsBook, Readable
  <2> QED
    BY <1>a, <2>2, <2>6 DEF ContactsInv
<1>1. CASE ContactAdd
  <2>1. PICK family \in Families, name \in ContactNames, number \in ContactAddresses :
          LET entry == [family |-> family, name |-> name, address |-> <<family, number>>] IN
          /\ Addable(disk.book, entry)
          /\ Cardinality(disk.book[family]) < MaxContacts
          /\ disk' = [disk EXCEPT !.book[family] = @ \cup {entry}]
    BY <1>1 DEF ContactAdd
  <2> DEFINE entry == [family |-> family, name |-> name, address |-> <<family, number>>]
             S == disk.book[family] \cup {entry}
  <2>2. S \in SUBSET BookEntries
    BY <1>0 DEF BookEntries
  <2>3. entry.name = name
    OBVIOUS
  <2>4. disk' = [disk EXCEPT !.book[family] = S]
    BY <2>1
  <2>5. \A g \in Families : \A e \in disk.book[g] : e.name # name
    BY <2>1, <2>3 DEF Addable, AllContacts
  <2> HIDE DEF entry
  <2>6. IsFiniteSet(S) /\ Cardinality(S) <= MaxContacts
    <3>1. Cardinality(disk.book[family]) \in Nat /\ Cardinality(disk.book[family]) < MaxContacts
      BY <1>0, <2>1, FS_CardinalityType
    <3>2. IsFiniteSet(S) /\ Cardinality(S) \in {Cardinality(disk.book[family]), Cardinality(disk.book[family]) + 1}
      BY <1>0, FS_AddElement
    <3> QED
      BY <3>1, <3>2, BooksAssumption
  <2>7. ASSUME NEW e \in S, NEW g \in Families, NEW d \in (IF g = family THEN S ELSE disk.book[g]), e.name = d.name
        PROVE  family = g /\ e = d
    <3>1. CASE e = entry
      BY <2>3, <2>5, <2>7, <3>1
    <3>2. CASE e # entry
      BY <1>0, <2>3, <2>5, <2>7, <3>2 DEF UniqueNames
    <3> QED
      BY <3>1, <3>2
  <2> HIDE DEF S
  <2>8. task' = task
    BY <1>1 DEF ContactAdd
  <2> QED
    BY <1>a, <2>2, <2>4, <2>6, <2>7, <2>8
<1>2. CASE ContactRemoveChoose
  BY <1>2 DEF ContactRemoveChoose, ContactsInv
<1>3. CASE ContactRemove
  <2>1. task' = Free /\ task.family \in Families
    BY <1>3 DEF ContactRemove, ContactsInv, Free
  <2>2. CASE disk' = disk
    BY <2>1, <2>2 DEF ContactsInv
  <2>3. CASE disk' # disk
    <3> DEFINE S == {e \in disk.book[task.family] : e.name # task.name}
    <3>1. disk' = [disk EXCEPT !.book[task.family] = S]
      BY <1>3, <2>3 DEF ContactRemove
    <3>2. S \in SUBSET BookEntries /\ S \in SUBSET disk.book[task.family]
      BY <1>0, <2>1
    <3>3. IsFiniteSet(S) /\ Cardinality(S) <= MaxContacts
      <4> HIDE DEF S
      <4>1. IsFiniteSet(S) /\ Cardinality(S) <= Cardinality(disk.book[task.family])
        BY <1>0, <2>1, <3>2, FS_Subset
      <4>2. Cardinality(S) \in Nat /\ Cardinality(disk.book[task.family]) \in Nat
        BY <1>0, <2>1, <4>1, FS_CardinalityType
      <4> QED
        BY <1>0, <2>1, <4>1, <4>2, BooksAssumption
    <3>4. ASSUME NEW e \in S, NEW g \in Families,
                 NEW d \in (IF g = task.family THEN S ELSE disk.book[g]), e.name = d.name
          PROVE  task.family = g /\ e = d
      BY <1>0, <2>1, <3>2, <3>4 DEF UniqueNames
    <3> HIDE DEF S
    <3> QED
      BY <1>a, <2>1, <3>1, <3>2, <3>3, <3>4
  <2> QED
    BY <2>2, <2>3
<1> QED
  BY <1>1, <1>2, <1>3 DEF ContactsNext

-----------------------------------------------------------------------------
(* The settings of the networks. *)

\* A configuration that a running command has loaded: what was in effect still is.
Held(loaded) ==
    /\ loaded.aliases = disk.aliases
    /\ DOMAIN loaded.networks \subseteq Keys
    /\ Loads(loaded)
    /\ EffectiveSettings(loaded) \subseteq EffectiveSettings(Document)

ConfigInv ==
    /\ disk = [kind |-> "config", aliases |-> disk.aliases, networks |-> disk.networks, told |-> disk.told]
    /\ FoldsOut(disk.aliases)
    /\ Held(Document)
    /\ disk.told \subseteq EffectiveSettings(Document)
    /\ task = Free \/ (task.op = "set" /\ Held(task.loaded))

LEMMA EffectiveFacts ==
    ASSUME NEW doc, DOMAIN doc.networks \subseteq Keys
    PROVE  \A i, s : <<i, s>> \in EffectiveSettings(doc)
                       <=> \E k \in DOMAIN doc.networks : IdOf(doc.aliases)[k] = i /\ s \in doc.networks[k]
BY DEF EffectiveSettings

LEMMA EffectivePairs ==
    ASSUME NEW doc, NEW x \in EffectiveSettings(doc)
    PROVE  x = <<x[1], x[2]>>
BY DEF EffectiveSettings

\* With the aliases folded out, the registry finds a network under a key exactly
\* when the loader takes the key's entry for that network.
LEMMA ResolvedKey ==
    ASSUME NEW doc, FoldsOut(doc.aliases), DOMAIN doc.networks \subseteq Keys,
           NEW network \in KnownIds(doc), NEW k \in Keys
    PROVE  ResolveNetwork(doc)[k] = {network} <=> IdOf(doc.aliases)[k] = network
<1> DEFINE names == Aliases(doc.aliases)
           id == IdOf(doc.aliases)
           known == KnownIds(doc)
           resolved == IF k \in known THEN {k} ELSE {n \in known : k \in DOMAIN names /\ names[k] = n}
<1>1. ResolveNetwork(doc)[k] = resolved
  BY DEF ResolveNetwork
<1>2. id[k] = IF k \in DOMAIN names THEN names[k] ELSE k
  BY DEF IdOf
<1>3. \A n \in known : id[n] = n
  <2>1. \A j \in Keys : id[j] \in Keys /\ id[id[j]] = id[j]
    BY DEF FoldsOut
  <2>2. \A n \in BuiltinIds : id[n] = n
    BY DEF FoldsOut
  <2> QED
    BY <2>1, <2>2 DEF KnownIds
<1> HIDE DEF names, id, known
<1>4. ASSUME k \in known PROVE resolved = {network} <=> id[k] = network
  <2>1. id[k] = k /\ resolved = {k}
    BY <1>3, <1>4
  <2> QED
    BY <2>1
<1>5. ASSUME k \notin known PROVE resolved = {network} <=> id[k] = network
  <2>1. network \in known
    BY DEF known
  <2>2. resolved = {network} => id[k] = network
    BY <1>2, <1>5
  <2>3. id[k] = network => resolved = {network}
    BY <1>2, <1>5, <2>1
  <2> QED
    BY <2>2, <2>3
<1>6. resolved = {network} <=> id[k] = network
  BY <1>4, <1>5
<1> QED
  BY <1>1, <1>6 DEF id

LEMMA ConfigStarts == ConfigInit => ConfigInv
<1> SUFFICES ASSUME ConfigInit PROVE ConfigInv
  OBVIOUS
<1>1. PICK aliases \in AliasMaps, networks \in NetworkMaps :
        LET doc == [aliases |-> aliases, networks |-> networks] IN
        /\ FoldsOut(aliases)
        /\ Loads(doc)
        /\ disk = [kind |-> "config", aliases |-> aliases, networks |-> networks,
                   told |-> EffectiveSettings(doc)]
  BY DEF ConfigInit
<1>2. DOMAIN networks \subseteq Keys
  BY DEF NetworkMaps
<1>3. Document = [aliases |-> aliases, networks |-> networks]
  BY <1>1 DEF Document
<1>4. Held(Document) /\ disk.told = EffectiveSettings(Document) /\ FoldsOut(disk.aliases)
  BY <1>1, <1>2, <1>3 DEF Held
<1> QED
  BY <1>1, <1>4 DEF ConfigInv, ConfigInit

EntriesOf(doc, n) == {k \in DOMAIN doc.networks : IdOf(doc.aliases)[k] = n}
IsDefined(doc, n) == n \in BuiltinIds \/ \E k \in EntriesOf(doc, n) : "chain" \in doc.networks[k]
Folded(old, new, n, field) ==
    /\ new.aliases = old.aliases
    /\ new.networks = WithNetworkField(old.networks, n, EntriesOf(old, n), field)
Keeps(old, new, n, field) ==
    /\ DOMAIN new.networks \subseteq Keys /\ Loads(new)
    /\ EffectiveSettings(old) \cup {<<n, field>>} \subseteq EffectiveSettings(new)

\* Folding the entries of one network into one, with a field more, keeps the rest.
LEMMA FoldedKeeps ==
    ASSUME NEW old, NEW new, FoldsOut(old.aliases), DOMAIN old.networks \subseteq Keys, Loads(old),
           NEW n \in Keys, IdOf(old.aliases)[n] = n, NEW field, IsDefined(old, n), Folded(old, new, n, field)
    PROVE  Keeps(old, new, n, field)
<1> DEFINE id == IdOf(old.aliases)
           same == EntriesOf(old, n)
           fields == {field} \cup UNION {old.networks[k] : k \in same}
<1>0. /\ new.aliases = old.aliases /\ new.networks = WithNetworkField(old.networks, n, same, field)
      /\ n \in BuiltinIds \/ \E k \in same : "chain" \in old.networks[k]
      /\ same = {k \in DOMAIN old.networks : id[k] = n}
  BY DEF Folded, IsDefined, EntriesOf
<1> HIDE DEF same
<1>1. DOMAIN new.networks = (DOMAIN old.networks \ same) \cup {n}
  BY <1>0 DEF WithNetworkField, With, Restrict
<1>2. new.networks[n] = fields
  BY <1>0 DEF WithNetworkField, With
<1>3. \A k \in DOMAIN old.networks \ same : k # n /\ new.networks[k] = old.networks[k]
  BY <1>0 DEF WithNetworkField, With, Restrict
<1>4. /\ \A j, k \in DOMAIN old.networks : id[j] = id[k] => j = k
      /\ \A k \in DOMAIN old.networks : id[k] \in BuiltinIds \/ "chain" \in old.networks[k]
  BY DEF Loads
<1> HIDE DEF id, fields
<1>5. id[n] = n /\ same = {k \in DOMAIN old.networks : id[k] = n}
  BY <1>0 DEF id
<1>6. \A j, k \in DOMAIN new.networks : id[j] = id[k] => j = k
  BY <1>1, <1>4, <1>5
<1>7. \A k \in DOMAIN new.networks : id[k] \in BuiltinIds \/ "chain" \in new.networks[k]
  <2>1. n \in BuiltinIds \/ "chain" \in fields
    BY <1>0 DEF fields
  <2> QED
    BY <1>1, <1>2, <1>3, <1>4, <1>5, <2>1
<1>8. Loads(new)
  BY <1>0, <1>6, <1>7 DEF Loads, id
<1>9. ASSUME NEW x \in EffectiveSettings(old) \cup {<<n, field>>} PROVE x \in EffectiveSettings(new)
  <2>1. PICK i, s : x = <<i, s>>
    BY EffectivePairs
  <2>2. CASE x = <<n, field>>
    <3>1. field \in new.networks[n] /\ n \in DOMAIN new.networks
      BY <1>1, <1>2 DEF fields
    <3> QED
      BY <1>0, <1>1, <1>5, <2>2, <3>1, EffectiveFacts DEF id
  <2>3. CASE x \in EffectiveSettings(old)
    <3>1. PICK k \in DOMAIN old.networks : id[k] = i /\ s \in old.networks[k]
      BY <2>1, <2>3, EffectiveFacts DEF id
    <3>2. CASE k \in same
      <4>1. s \in new.networks[n] /\ i = n /\ n \in DOMAIN new.networks
        BY <1>1, <1>2, <1>5, <3>1, <3>2 DEF fields
      <4> QED
        BY <1>0, <1>1, <1>5, <2>1, <4>1, EffectiveFacts DEF id
    <3>3. CASE k \notin same
      <4>1. k \in DOMAIN new.networks /\ s \in new.networks[k]
        BY <1>1, <1>3, <3>1, <3>3
      <4> QED
        BY <1>0, <1>1, <2>1, <3>1, <4>1, EffectiveFacts DEF id
    <3> QED
      BY <3>2, <3>3
  <2> QED
    BY <2>2, <2>3
<1> QED
  BY <1>1, <1>8, <1>9 DEF Keeps

LEMMA ConfigSetKeeps ==
    ASSUME ConfigInv, NEW loaded, Held(loaded), ConfigSet(loaded), task' \in {task, Free}
    PROVE  ConfigInv'
<1> DEFINE id == IdOf(disk.aliases)
           resolve == ResolveNetwork(loaded)
<1>1. PICK ref \in Keys, field \in Fields :
        \E n \in resolve[ref] :
            disk' = [disk EXCEPT
                !.networks = WithNetworkField(@, n, {k \in DOMAIN disk.networks : resolve[k] = {n}}, field),
                !.told = @ \cup {<<n, field>>}]
  BY DEF ConfigSet
<1>2. PICK n \in resolve[ref] :
        disk' = [disk EXCEPT
            !.networks = WithNetworkField(@, n, {k \in DOMAIN disk.networks : resolve[k] = {n}}, field),
            !.told = @ \cup {<<n, field>>}]
  BY <1>1
<1>3. n \in KnownIds(loaded)
  BY DEF ResolveNetwork
<1>4. loaded.aliases = disk.aliases /\ FoldsOut(disk.aliases) /\ DOMAIN loaded.networks \subseteq Keys
      /\ Document.aliases = disk.aliases /\ Document.networks = disk.networks
      /\ DOMAIN disk.networks \subseteq Keys
  BY DEF ConfigInv, Held, Document
<1>5. n \in Keys /\ id[n] = n /\ (n \in BuiltinIds \/ \E k \in DOMAIN loaded.networks : id[k] = n)
  <2>1. \A k \in Keys : id[k] \in Keys /\ id[id[k]] = id[k]
    BY <1>4 DEF FoldsOut
  <2>2. \A k \in BuiltinIds : id[k] = k /\ k \in Keys
    BY <1>4 DEF FoldsOut, Keys
  <2> QED
    BY <1>3, <1>4, <2>1, <2>2 DEF KnownIds
<1> DEFINE same == {k \in DOMAIN disk.networks : id[k] = n}
<1>6. {k \in DOMAIN disk.networks : resolve[k] = {n}} = same
  BY <1>3, <1>4, ResolvedKey
<1> HIDE DEF resolve
<1>7. n \in BuiltinIds \/ \E k \in same : "chain" \in disk.networks[k]
  <2> SUFFICES ASSUME n \notin BuiltinIds PROVE \E k \in same : "chain" \in disk.networks[k]
    OBVIOUS
  <2>1. PICK k \in DOMAIN loaded.networks : id[k] = n
    BY <1>5
  <2>2. "chain" \in loaded.networks[k]
    BY <1>4, <2>1 DEF Held, Loads
  <2>3. <<n, "chain">> \in EffectiveSettings(Document)
    BY <1>4, <2>1, <2>2, EffectiveFacts DEF Held
  <2> QED
    BY <1>4, <2>3, EffectiveFacts
<1> DEFINE networks == WithNetworkField(disk.networks, n, same, field)
           told == disk.told \cup {<<n, field>>}
<1>8. disk' = [kind |-> "config", aliases |-> disk.aliases, networks |-> networks, told |-> told]
  <2>1. disk' = [disk EXCEPT !.networks = networks, !.told = told]
    BY <1>2, <1>6
  <2>2. PICK aliases, was, before :
          disk = [kind |-> "config", aliases |-> aliases, networks |-> was, told |-> before]
    BY DEF ConfigInv
  <2> HIDE DEF networks, told
  <2> QED
    BY <2>1, <2>2
<1> HIDE DEF networks, told, same, id
<1>9. PICK old, new : old = Document /\ new = [aliases |-> disk.aliases, networks |-> networks]
  OBVIOUS
<1>10. Document' = new
  BY <1>8, <1>9 DEF Document
<1>11. Keeps(old, new, n, field)
  <2>1. FoldsOut(old.aliases) /\ DOMAIN old.networks \subseteq Keys /\ Loads(old)
        /\ IdOf(old.aliases)[n] = n
    BY <1>4, <1>5, <1>9 DEF ConfigInv, Held, id
  <2>2. EntriesOf(old, n) = same
    BY <1>4, <1>9 DEF EntriesOf, same, id
  <2>3. IsDefined(old, n)
    BY <1>4, <1>7, <1>9, <2>2 DEF IsDefined
  <2>4. Folded(old, new, n, field)
    BY <1>4, <1>9, <2>2 DEF Folded, networks
  <2> QED
    BY <1>5, <2>1, <2>3, <2>4, FoldedKeeps
<1>12. Held(Document)' /\ disk'.told \subseteq EffectiveSettings(Document)'
  BY <1>8, <1>9, <1>10, <1>11 DEF Keeps, Held, ConfigInv, told
<1>13. FoldsOut(disk.aliases)'
  BY <1>4, <1>8
<1>14. task' = task /\ task.op = "set" => Held(task.loaded)'
  BY <1>8, <1>9, <1>10, <1>11 DEF Keeps, Held, ConfigInv, Free
<1>15. disk' = [kind |-> "config", aliases |-> disk'.aliases, networks |-> disk'.networks, told |-> disk'.told]
  BY <1>8
<1>16. task' = Free \/ (task' = task /\ task.op = "set")
  BY DEF ConfigInv
<1> QED
  BY <1>12, <1>13, <1>14, <1>15, <1>16 DEF ConfigInv

LEMMA ConfigKeeps == ConfigInv /\ ConfigNext => ConfigInv'
<1> SUFFICES ASSUME ConfigInv, ConfigNext PROVE ConfigInv'
  OBVIOUS
<1>1. CASE ConfigStart
  <2>1. disk' = disk /\ task' = [op |-> "set", loaded |-> Document]
    BY <1>1 DEF ConfigStart
  <2> QED
    BY <2>1 DEF ConfigInv, Held, Document
<1>2. CASE ConfigCommit
  <2>1. PICK loaded : loaded = task.loaded
    OBVIOUS
  <2>2. Held(loaded) /\ ConfigSet(loaded) /\ task' = Free
    BY <1>2, <2>1 DEF ConfigCommit, ConfigInv, Free
  <2> QED
    BY <2>2, ConfigSetKeeps
<1>3. CASE ConfigSetMeanwhile
  <2>1. PICK loaded : loaded = Document
    OBVIOUS
  <2>2. Held(loaded) /\ ConfigSet(loaded) /\ task' = task
    BY <1>3, <2>1 DEF ConfigSetMeanwhile, ConfigInv
  <2> QED
    BY <2>2, ConfigSetKeeps
<1> QED
  BY <1>1, <1>2, <1>3 DEF ConfigNext

-----------------------------------------------------------------------------
(* All the families. *)

LocalInv == IndexInv \/ MigrationInv \/ ContactsInv \/ ConfigInv \/ ExportsInv

\* Each family's files are told from the others'.
LEMMA LocalKinds ==
    /\ IndexInv => disk.kind = "index"
    /\ MigrationInv => disk.kind = "schema"
    /\ ContactsInv => disk.kind = "contacts"
    /\ ConfigInv => disk.kind = "config"
    /\ ExportsInv => disk.kind = "exports"
<1>1. /\ IndexInv => disk.kind = "index"
      /\ ContactsInv => disk.kind = "contacts"
      /\ ConfigInv => disk.kind = "config"
  BY DEF IndexInv, IsIndex, ContactsInv, ConfigInv
<1>2. MigrationInv => disk.kind = "schema"
  BY DEF MigrationInv, MigrationDisks
<1>3. ExportsInv => disk.kind = "exports"
  BY DEF ExportsInv, ExportDisks
<1> QED
  BY <1>1, <1>2, <1>3

LEMMA LocalStutters == LocalInv /\ UNCHANGED localVars => LocalInv'
<1> SUFFICES ASSUME LocalInv, disk' = disk, task' = task, spent' = spent PROVE LocalInv'
  BY DEF localVars
<1>1. IndexInv => IndexInv'
  BY DEF IndexInv
<1>2. MigrationInv => MigrationInv'
  <2>1. ASSUME NEW c \in Commands, MigrationCmd(c) PROVE MigrationCmd(c)'
    <3>1. OwnLocks(c)' /\ InScope(c)'
      BY <2>1 DEF MigrationCmd, OwnLocks, InScope, Owner
    <3>2. Batched(c)'
      BY <2>1 DEF MigrationCmd, Batched, Installed, Untouched, MovedAway, Undone
    <3>3. Found(c)'
      BY <2>1 DEF MigrationCmd, Found
    <3> QED
      BY <3>1, <3>2, <3>3 DEF MigrationCmd
  <2> QED
    BY <2>1 DEF MigrationInv, Kept
<1>3. ContactsInv => ContactsInv'
  BY DEF ContactsInv
<1>4. ConfigInv => ConfigInv'
  BY DEF ConfigInv, Held, Document
<1>5. ExportsInv => ExportsInv'
  BY DEF ExportsInv, Holding, InLog, NothingLost, Logged, Mine
<1> QED
  BY <1>1, <1>2, <1>3, <1>4, <1>5 DEF LocalInv

LEMMA LocalKeeps == LocalInv /\ [LocalNext]_localVars => LocalInv'
<1> SUFFICES ASSUME LocalInv, [LocalNext]_localVars PROVE LocalInv'
  OBVIOUS
<1>1. CASE IndexNext
  BY <1>1, LocalKinds, IndexKeeps DEF LocalInv, IndexNext, InIndex
<1>2. CASE MigrationNext
  BY <1>2, LocalKinds, MigrationKeeps DEF LocalInv, MigrationNext, InSchema
<1>3. CASE ContactsNext
  BY <1>3, LocalKinds, ContactsKeeps DEF LocalInv, ContactsNext, InContacts
<1>4. CASE ConfigNext
  BY <1>4, LocalKinds, ConfigKeeps DEF LocalInv, ConfigNext, InConfig
<1>5. CASE ExportsNext
  BY <1>5, LocalKinds, ExportsKeeps DEF LocalInv, ExportsNext, InExports
<1>6. CASE UNCHANGED localVars
  BY <1>6, LocalStutters
<1> QED
  BY <1>1, <1>2, <1>3, <1>4, <1>5, <1>6 DEF LocalNext

\* The files of every family keep to their invariant, whatever commands run, whichever
\* of them are killed, and wherever the file system fails.
THEOREM LocalInvariant == LocalSpec => []LocalInv
<1>1. LocalInit => LocalInv
  BY IndexStart, MigrationStart, ContactsStart, ConfigStarts, ExportsStart DEF LocalInit, LocalInv
<1> QED
  BY <1>1, LocalKeeps, PTL DEF LocalSpec

\* The account that commands act on by default is one of the index, as long as users
\* name accounts by the ids that the list shows.
THEOREM ActiveExistsHolds == ~LooseRefs => (LocalSpec => []ActiveExists)
<1> SUFFICES ASSUME ~LooseRefs PROVE LocalSpec => []ActiveExists
  OBVIOUS
<1>1. LocalInv => ActiveExists
  BY LocalKinds, IndexSafe DEF LocalInv, ActiveExists, InIndex
<1> QED
  BY <1>1, LocalInvariant, PTL

\* The two derivation templates are never mixed in one wallet: its recovery phrase alone
\* brings every account of it back.
THEOREM OneTemplateHolds == LocalSpec => []OneTemplate
<1>1. LocalInv => OneTemplate
  BY LocalKinds, IndexSafe DEF LocalInv, OneTemplate, InIndex
<1> QED
  BY <1>1, LocalInvariant, PTL

\* A document of the older schema is at its place, in its copy or in a batch's backup
\* until the whole batch is in place, for any number of commands that migrate at once
\* and wherever each is killed.
THEOREM OldDocumentKeptHolds == LocalSpec => []OldDocumentKept
<1>1. LocalInv => OldDocumentKept
  BY LocalKinds, MigrationSafe DEF LocalInv, OldDocumentKept, InSchema
<1> QED
  BY <1>1, LocalInvariant, PTL

\* What a command says of its migration - failed, upgraded, of uncertain durability - is
\* what it has done to every document it found.
THEOREM MigrationAnswerTrueHolds == LocalSpec => []MigrationAnswerTrue
<1>1. LocalInv => MigrationAnswerTrue
  BY LocalKinds, MigrationSafe DEF LocalInv, MigrationAnswerTrue, InSchema
<1> QED
  BY <1>1, LocalInvariant, PTL

\* The wallet index, the contact book and the configuration are never written so that
\* the next command cannot load them, and lose no setting that was acknowledged.
THEOREM StoredLoadsHolds == ~LooseRefs => (LocalSpec => []StoredLoads)
<1> SUFFICES ASSUME ~LooseRefs PROVE LocalSpec => []StoredLoads
  OBVIOUS
<1>1. LocalInv => IndexLoads
  BY LocalKinds, IndexSafe DEF LocalInv, IndexLoads, InIndex
<1>2. LocalInv => BooksLoad
  BY LocalKinds DEF LocalInv, BooksLoad, InContacts, InConfig, ContactsInv, IsBook, ConfigInv, Held
<1> QED
  BY <1>1, <1>2, LocalInvariant, PTL DEF StoredLoads

\* Whatever fails and whoever else writes, an export that was answered is in the log and
\* whole on disk, one that was not leaves no file, and nothing found there is lost.
THEOREM ExportsAccountedHolds == LocalSpec => []ExportsAccounted
<1>1. ExportsInv => ExportsAccounted
  <2> SUFFICES ASSUME ExportsInv PROVE ExportsAccounted
    OBVIOUS
  <2>1. ASSUME NEW c \in Commands
        PROVE  /\ task[c].op = "backup" /\ At(c, "exported") => c \in Logged \cup disk.dropped
               /\ c \in Logged \cup disk.dropped => disk.files[Path(c)] = <<c, "whole">>
               /\ At(c, "refused") /\ task[c].op # "records" => disk.files[Path(c)] \notin Mine(c)
    BY DEF ExportsInv, Holding, InLog, At, Path
  <2> QED
    BY <2>1 DEF ExportsInv, NothingLost, ExportsAccounted
<1>2. LocalInv => ExportsAccounted
  BY <1>1, LocalKinds DEF LocalInv, ExportsAccounted, InExports
<1> QED
  BY <1>2, LocalInvariant, PTL
=============================================================================
