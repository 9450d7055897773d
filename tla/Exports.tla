------------------------------- MODULE Exports -------------------------------
(***************************************************************************)
(* Files that commands write for the user (a backup, a key pair, a signed  *)
(* transaction, the answer to a payment) and the log of exported secrets,  *)
(* backup-records.json.  Several commands may name the same path; every    *)
(* file operation may fail, and a command may be killed between two.       *)
(*                                                                         *)
(* A file belongs to the command that created it: <<c, "torn">> until it   *)
(* is written, then <<c, "whole">>; one that was there before is Foreign.  *)
(*                                                                         *)
(* Bounds: RecordLimit (1000 in the code), FileFaults, one export each of  *)
(* Commands.  Left out: a failing close of a descriptor, an open that      *)
(* fails on a taken path with anything but EEXIST, and another command     *)
(* between the choice of a name for a log set aside and its rename.        *)
(***************************************************************************)
EXTENDS LocalStore, SequencesExt

CONSTANTS
    ExportPaths,   \* the paths commands may be given
    RecordLimit

ASSUME ExportsAssumption == RecordLimit \in Nat /\ "none" \notin ExportPaths

InExports == disk.kind = "exports"

\* backup: wallet backup, also as a keystore; artifact: a key pair or a signed
\* transaction; pay: x402 pay --out; records: the listing of the log.
Exporting == [op : {"backup", "artifact", "pay"}, path : ExportPaths, pc : {"start"}]
Listing == [op : {"records"}, path : {"none"}, pc : {"start"}]

NoFile == <<0, "none">>
Foreign == <<0, "foreign">>
Mine(c) == {<<c, "torn">>, <<c, "whole">>}
Path(c) == task[c].path
Put(c, content) == disk' = [disk EXCEPT !.files[Path(c)] = content]

\* The log is missing, of this schema, of another one, or no JSON.
Log(schema, records) == [schema |-> schema, records |-> records]

ExportsInit ==
    /\ \E log \in {Log(schema, <<>>) : schema \in {"none", "newer", "broken"}},
          files \in [ExportPaths -> {NoFile, Foreign}] :
        disk = [kind |-> "exports", files |-> files, log |-> log, aside |-> {}, dropped |-> {},
                given |-> [files |-> files, log |-> log]]
    /\ task \in [Commands -> Exporting \cup Listing]
    /\ spent = 0

-----------------------------------------------------------------------------
(* The file. *)

\* The account cannot be exported, the input is refused, or the directory
\* cannot be made or the file not created: nothing was written.
ExportRefused(c) ==
    /\ At(c, "start")
    /\ task[c].op # "records"
    /\ Step(c, "refused")
    /\ UNCHANGED <<disk, spent>>

\* Exclusive creation: a file that exists is refused, whoever wrote it.
ExportOpen(c) ==
    /\ At(c, "start")
    /\ task[c].op # "records"
    /\ disk.files[Path(c)] = NoFile
    /\ Put(c, <<c, "torn">>)
    /\ Step(c, IF task[c].op = "pay" THEN "paying" ELSE "fill")
    /\ UNCHANGED spent

\* The resource is requested, and paid for if it asks for it; either may fail.
ExportPay(c) ==
    /\ At(c, "paying")
    /\ Step(c, "fill") \/ Step(c, "release")
    /\ UNCHANGED <<disk, spent>>

ExportFill(c) ==
    /\ At(c, "fill")
    /\ Put(c, <<c, "whole">>)
    /\ Step(c, IF task[c].op = "backup" THEN "record" ELSE "exported")
    /\ UNCHANGED spent

ExportFillFails(c) == At(c, "fill") /\ Fault /\ Step(c, "release") /\ UNCHANGED disk

\* Defect: the reservation of --out is not removed.
ReleasedByWriters(c) == IF task[c].op = "pay" THEN disk.files[Path(c)] ELSE NoFile

Released(c) == NoFile

ExportRelease(c) ==
    /\ At(c, "release")
    /\ Put(c, Released(c))
    /\ Step(c, "refused")
    /\ UNCHANGED spent

ExportReleaseFails(c) == At(c, "release") /\ Fault /\ Step(c, "left") /\ UNCHANGED disk

-----------------------------------------------------------------------------
(* The log. *)

\* A log of another schema is renamed out of the way; what is gone cannot be.
WithLogAside(d) ==
    IF d.log.schema = "none" THEN d
    ELSE [d EXCEPT !.aside = @ \cup {d.log}, !.log = Log("none", <<>>)]

\* append, under the lock: newest first, the oldest beyond the limit go.
WithRecord(d, r) ==
    LET before == IF d.log.schema = "newer" THEN WithLogAside(d) ELSE d
        all == <<r>> \o before.log.records
        kept == SubSeq(all, 1, IF Len(all) > RecordLimit THEN RecordLimit ELSE Len(all))
    IN  [before EXCEPT !.log = Log("ours", kept), !.dropped = @ \cup (ToSet(all) \ ToSet(kept))]

ExportRecord(c) ==
    /\ At(c, "record")
    /\ disk.log.schema # "broken"
    /\ disk' = WithRecord(disk, c)
    /\ Step(c, "exported")
    /\ UNCHANGED spent

\* audit_append_failed: malformed JSON, no lock in time, or a failed write, the
\* other log set aside or not.  The answer names the file.
ExportNotRecorded(c) ==
    /\ At(c, "record")
    /\ \/ disk.log.schema = "broken" /\ UNCHANGED <<disk, spent>>
       \/ Fault /\ disk' \in {disk, IF disk.log.schema = "newer" THEN WithLogAside(disk) ELSE disk}
    /\ Step(c, "unlogged")

\* backupRecords: read without the lock.
RecordsRead(c) ==
    /\ At(c, "start")
    /\ task[c].op = "records"
    /\ Step(c, CASE disk.log.schema = "newer" -> "aside"
                 [] disk.log.schema = "broken" -> "refused"
                 [] OTHER -> "listed")
    /\ UNCHANGED <<disk, spent>>

\* By now it may be the log that another command began, or none.
RecordsSetAside(c) ==
    /\ At(c, "aside")
    /\ disk' = WithLogAside(disk)
    /\ Step(c, IF disk.log.schema = "none" THEN "refused" ELSE "listed")
    /\ UNCHANGED spent

ExportKill(c) ==
    /\ task[c].pc \in {"paying", "fill", "release", "record", "aside"}
    /\ Fault
    /\ Step(c, "killed")
    /\ UNCHANGED disk

ExportsCommand(c) ==
    \/ ExportRefused(c) \/ ExportOpen(c) \/ ExportPay(c) \/ ExportFill(c)
    \/ ExportFillFails(c) \/ ExportRelease(c) \/ ExportReleaseFails(c)
    \/ ExportRecord(c) \/ ExportNotRecorded(c)
    \/ RecordsRead(c) \/ RecordsSetAside(c) \/ ExportKill(c)

ExportsNext == InExports /\ \E c \in Commands : ExportsCommand(c)

-----------------------------------------------------------------------------
(* Properties. *)

Logged == UNION {ToSet(log.records) : log \in disk.aside \cup {disk.log}}

\* Whatever fails, and whoever else writes: an export that was answered as done
\* is in the log, in a log set aside, or gone by the limit alone; what is logged
\* is a file its command wrote to the end; a command that answers with no file
\* leaves none behind, so that it can be run again; and no file or log that was
\* there before is lost.
ExportsAccounted ==
    InExports =>
        /\ \A c \in Commands :
            /\ task[c].op = "backup" /\ At(c, "exported") => c \in Logged \cup disk.dropped
            /\ c \in Logged \cup disk.dropped => disk.files[Path(c)] = <<c, "whole">>
            /\ At(c, "refused") /\ task[c].op # "records" => disk.files[Path(c)] \notin Mine(c)
        /\ \A p \in ExportPaths :
            disk.given.files[p] = Foreign => disk.files[p] = Foreign
        /\ disk.given.log.schema # "none" => disk.given.log \in disk.aside \cup {disk.log}
=============================================================================
