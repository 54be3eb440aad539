-------------------------------- MODULE Backups --------------------------------
(***************************************************************************)
(* BackupService: a backup writes a row, lets pg_dump write a file named   *)
(* after the second it began in, measures the file, marks the row and      *)
(* prunes what is past retention; the latest successful file can be sent   *)
(* to the chat.                                                            *)
(*                                                                         *)
(* A handler is a confirmed backup or a request for the latest file; it is *)
(* suspended at each database, file, process and Telegram call.  pg_dump   *)
(* has no timeout: a backup may outlast its own retention.                 *)
(***************************************************************************)
EXTENDS Naturals, Sequences, FiniteSets

CONSTANTS
    Handlers,       \* slots for updates processed at the same time
    Retention,      \* BACKUP_RETENTION_DAYS, in ticks of the clock
    MaxTime,        \* bound on the clock
    MaxBackups,     \* bound on backups begun
    MaxFailures,    \* bound on failed calls and crashes; a failing pg_dump is not one
    None            \* no file, no checksum, not finished

ASSUME BackupsConstants ==
    /\ Retention \in Nat \ {0} /\ MaxTime \in Nat
    /\ MaxBackups \in Nat /\ MaxFailures \in Nat

Time == 0..MaxTime
\* What a file holds: the output of the dump of row by, still being written, complete, or
\* interleaved with another dump's.
Contents == [by: Nat \ {0}, state: {"partial", "whole", "mixed"}]
Rows == [name: Time, status: {"RUNNING", "SUCCESS", "FAILED"}, created: Time,
         finished: Time \cup {None}, sum: Contents \cup {None}, live: BOOLEAN]
\* row: the backup at hand, 0 before its row is written; name: its file; read: the content
\* measured; doomed: rows found expired; todo: those whose file is still to be unlinked.
Calls == [row: Nat, name: Time, read: Contents \cup {None},
          doomed: SUBSET Nat, todo: SUBSET Nat]

ASSUME NoContent == None \notin Contents /\ None \notin Time

VARIABLES
    now,        \* the clock; a file is named after its value
    rows,       \* BackupRecord rows by creation, the deleted ones with live = FALSE
    files,      \* the backup directory
    pc,         \* where each handler is suspended
    call,       \* its locals
    started,    \* ghost: backups begun so far
    failures    \* ghost: failed calls and crashes so far

vars == <<now, rows, files, pc, call, started, failures>>

\* In createBackup's try block, and in its catch clause.
TryPcs == {"opening", "dumping", "measuring", "storing", "scanning", "unlinking", "deleting"}
CatchPcs == {"clearing", "failing"}
SendPcs == {"checking", "sending"}
Pcs == {"idle", "inserting", "finding"} \cup TryPcs \cup CatchPcs \cup SendPcs

Blank == [row |-> 0, name |-> 0, read |-> None, doomed |-> {}, todo |-> {}]

\* The locals handler h needs where it is.
Fits(h) ==
    /\ pc[h] = "idle" => call[h] = Blank
    /\ pc[h] \in TryPcs \cup CatchPcs \cup SendPcs =>
          call[h].row \in DOMAIN rows /\ rows[call[h].row].name = call[h].name
    /\ pc[h] = "storing" => call[h].read # None

TypeOK ==
    /\ now \in Time
    /\ rows \in Seq(Rows)
    /\ files \in [Time -> Contents \cup {None}]
    /\ pc \in [Handlers -> Pcs]
    /\ call \in [Handlers -> Calls]
    /\ \A h \in Handlers : Fits(h)
    /\ started \in 0..MaxBackups /\ failures \in 0..MaxFailures

Init ==
    /\ now = 0
    /\ rows = <<>>
    /\ files = [n \in Time |-> None]
    /\ pc = [h \in Handlers |-> "idle"]
    /\ call = [h \in Handlers |-> Blank]
    /\ started = 0 /\ failures = 0

(***************************************************************************)
(* Building blocks.                                                        *)
(***************************************************************************)
Goto(h, to, c) ==
    /\ pc' = [pc EXCEPT ![h] = to]
    /\ call' = [call EXCEPT ![h] = c]

\* Mutated form of Finish: a handler keeps its locals.
Finish_KeepLocals(h) ==
    /\ pc' = [pc EXCEPT ![h] = "idle"]
    /\ UNCHANGED call

Finish(h) == Goto(h, "idle", Blank)

Row(h) == call[h].row
File(h) == call[h].name
Live == {id \in DOMAIN rows : rows[id].live}

\* Mutated form of Expired: the cutoff lies in the future.
Expired_SignError(id) == rows[id].created < now + Retention

Expired(id) == rows[id].created + Retention < now

\* Another row has the same file.
Shared(id) == \E j \in DOMAIN rows : j # id /\ rows[j].name = rows[id].name

Dumping(n) == {h \in Handlers : pc[h] = "dumping" /\ File(h) = n}

(***************************************************************************)
(* The writes, where they are applied.                                     *)
(***************************************************************************)
InsertRow(h) ==
    /\ rows' = Append(rows, [name |-> File(h), status |-> "RUNNING", created |-> now,
                             finished |-> None, sum |-> None, live |-> TRUE])
    /\ UNCHANGED files

Settle(h, status, sum) ==
    /\ rows' = [rows EXCEPT ![Row(h)].status = status, ![Row(h)].sum = sum,
                            ![Row(h)].finished = now]
    /\ UNCHANGED files

Remove(n) ==
    /\ files' = [files EXCEPT ![n] = None]
    /\ UNCHANGED rows

DeleteRows(h) ==
    /\ rows' = [id \in DOMAIN rows |->
                  IF id \in call[h].doomed THEN [rows[id] EXCEPT !.live = FALSE] ELSE rows[id]]
    /\ UNCHANGED files

(***************************************************************************)
(* createBackup.                                                           *)
(***************************************************************************)
\* The name is fixed before the directory is made and the row is written.
Start(h) ==
    /\ pc[h] = "idle"
    /\ started < MaxBackups
    /\ started' = started + 1
    /\ Goto(h, "inserting", [Blank EXCEPT !.name = now])
    /\ UNCHANGED <<now, rows, files, failures>>

Insert(h) ==
    /\ pc[h] = "inserting"
    /\ InsertRow(h)
    /\ Goto(h, "opening", [call[h] EXCEPT !.row = Len(rows) + 1])
    /\ UNCHANGED <<now, started, failures>>

\* pg_dump truncates its file; one that still writes the same file goes on doing so.
Open(h) ==
    /\ pc[h] = "opening"
    /\ files' = [files EXCEPT ![File(h)] =
                   [by |-> Row(h), state |-> IF Dumping(File(h)) = {} THEN "partial" ELSE "mixed"]]
    /\ Goto(h, "dumping", call[h])
    /\ UNCHANGED <<now, rows, started, failures>>

\* A file unlinked meanwhile is written out of sight.
DumpDone(h) ==
    /\ pc[h] = "dumping"
    /\ files' = IF files[File(h)] = [by |-> Row(h), state |-> "partial"]
                  THEN [files EXCEPT ![File(h)].state = "whole"] ELSE files
    /\ Goto(h, "measuring", call[h])
    /\ UNCHANGED <<now, rows, started, failures>>

\* Mutated form of DumpFails: the exit code is not looked at.
DumpFails_Ignored(h) ==
    /\ pc[h] \in {"opening", "dumping"}
    /\ Goto(h, "measuring", call[h])
    /\ UNCHANGED <<now, rows, files, started, failures>>

\* pg_dump exits with an error, before or while it writes.
DumpFails(h) ==
    /\ pc[h] \in {"opening", "dumping"}
    /\ Goto(h, "clearing", call[h])
    /\ UNCHANGED <<now, rows, files, started, failures>>

\* stat and the checksum; without the file they throw.
Measure(h) ==
    /\ pc[h] = "measuring"
    /\ \/ files[File(h)] = None /\ Goto(h, "clearing", call[h])
       \/ /\ files[File(h)] # None
          /\ Goto(h, "storing", [call[h] EXCEPT !.read = files[File(h)]])
    /\ UNCHANGED <<now, rows, files, started, failures>>

\* An update of a row that retention deleted throws.
Store(h) ==
    /\ pc[h] = "storing"
    /\ \/ /\ Row(h) \in Live
          /\ Settle(h, "SUCCESS", call[h].read)
          /\ Goto(h, "scanning", [call[h] EXCEPT !.read = None])
       \/ /\ Row(h) \notin Live
          /\ Goto(h, "clearing", [call[h] EXCEPT !.read = None])
          /\ UNCHANGED <<rows, files>>
    /\ UNCHANGED <<now, started, failures>>

\* createBackup returns; the file is sent unless it is too large.
Return(h) == Finish(h) \/ Goto(h, "sending", [call[h] EXCEPT !.doomed = {}])

\* pruneExpiredBackups looks for expired rows, whatever their status.
FindExpired(h) ==
    /\ pc[h] = "scanning"
    /\ LET doomed == {id \in Live : Expired(id)}
       IN  \/ doomed = {} /\ Return(h)
           \/ /\ doomed # {}
              /\ Goto(h, "unlinking", [call[h] EXCEPT !.doomed = doomed, !.todo = doomed])
    /\ UNCHANGED <<now, rows, files, started, failures>>

\* The files are unlinked in any order, errors swallowed.
AfterUnlink(h, id) ==
    Goto(h, IF call[h].todo = {id} THEN "deleting" ELSE "unlinking",
         [call[h] EXCEPT !.todo = @ \ {id}])

Unlink(h, id) ==
    /\ pc[h] = "unlinking" /\ id \in call[h].todo
    /\ Remove(rows[id].name)
    /\ AfterUnlink(h, id)
    /\ UNCHANGED <<now, started, failures>>

UnlinkFails(h, id) ==
    /\ pc[h] = "unlinking" /\ id \in call[h].todo
    /\ failures < MaxFailures /\ failures' = failures + 1
    /\ AfterUnlink(h, id)
    /\ UNCHANGED <<now, rows, files, started>>

DeleteExpired(h) ==
    /\ pc[h] = "deleting"
    /\ DeleteRows(h)
    /\ Return(h)
    /\ UNCHANGED <<now, started, failures>>

\* Mutated form of Clear: the failed backup's file is left for retention.
Clear_Not(h) ==
    /\ pc[h] = "clearing"
    /\ UNCHANGED <<rows, files>>
    /\ Goto(h, "failing", call[h])
    /\ UNCHANGED <<now, started, failures>>

\* The catch clause unlinks the file, whoever wrote it and whatever its row says.
Clear(h) ==
    /\ pc[h] = "clearing"
    /\ Remove(File(h))
    /\ Goto(h, "failing", call[h])
    /\ UNCHANGED <<now, started, failures>>

ClearFails(h) ==
    /\ pc[h] = "clearing"
    /\ failures < MaxFailures /\ failures' = failures + 1
    /\ Goto(h, "failing", call[h])
    /\ UNCHANGED <<now, rows, files, started>>

MarkFailed(h) ==
    /\ pc[h] = "failing"
    /\ \/ Row(h) \in Live /\ Settle(h, "FAILED", rows[Row(h)].sum)
       \/ Row(h) \notin Live /\ UNCHANGED <<rows, files>>
    /\ Finish(h)
    /\ UNCHANGED <<now, started, failures>>

(***************************************************************************)
(* The latest artifact.                                                    *)
(***************************************************************************)
Request(h) ==
    /\ pc[h] = "idle"
    /\ Goto(h, "finding", Blank)
    /\ UNCHANGED <<now, rows, files, started, failures>>

Successes == {id \in Live : rows[id].status = "SUCCESS"}

Before(i, j) ==
    \/ rows[i].finished < rows[j].finished
    \/ rows[i].finished = rows[j].finished /\ rows[i].created < rows[j].created

\* Mutated form of FindLatest: the latest row of any status.
FindLatest_AnyStatus(h, id) ==
    /\ pc[h] = "finding"
    /\ id \in Live /\ \A j \in Live : rows[j].created <= rows[id].created
    /\ Goto(h, "checking", [Blank EXCEPT !.row = id, !.name = rows[id].name])
    /\ UNCHANGED <<now, rows, files, started, failures>>

FindLatest(h, id) ==
    /\ pc[h] = "finding"
    /\ id \in Successes /\ \A j \in Successes : ~Before(id, j)
    /\ Goto(h, "checking", [Blank EXCEPT !.row = id, !.name = rows[id].name])
    /\ UNCHANGED <<now, rows, files, started, failures>>

CheckFile(h) ==
    /\ pc[h] = "checking"
    /\ files[File(h)] # None
    /\ Goto(h, "sending", call[h])
    /\ UNCHANGED <<now, rows, files, started, failures>>

\* The document is sent, or there is none, it is gone, too large, or a call fails: the
\* handler ends and nothing is stored.
EndDelivery(h) ==
    /\ pc[h] \in {"finding"} \cup SendPcs
    /\ Finish(h)
    /\ UNCHANGED <<now, rows, files, started, failures>>

(***************************************************************************)
(* Failures.                                                               *)
(***************************************************************************)
\* A database or file call rejects, its write applied or not.  Outside the try block, and
\* in the catch clause, this ends the handler.
Throw(h) ==
    /\ failures < MaxFailures /\ failures' = failures + 1
    /\ \/ /\ pc[h] = "inserting"
          /\ InsertRow(h) \/ UNCHANGED <<rows, files>>
          /\ Finish(h)
       \/ /\ pc[h] \in {"measuring", "scanning"}
          /\ UNCHANGED <<rows, files>>
          /\ Goto(h, "clearing", call[h])
       \/ /\ pc[h] = "storing"
          /\ \/ Row(h) \in Live /\ Settle(h, "SUCCESS", call[h].read)
             \/ UNCHANGED <<rows, files>>
          /\ Goto(h, "clearing", [call[h] EXCEPT !.read = None])
       \/ /\ pc[h] = "deleting"
          /\ DeleteRows(h) \/ UNCHANGED <<rows, files>>
          /\ Goto(h, "clearing", call[h])
       \/ /\ pc[h] = "failing"
          /\ \/ Row(h) \in Live /\ Settle(h, "FAILED", rows[Row(h)].sum)
             \/ UNCHANGED <<rows, files>>
          /\ Finish(h)
    /\ UNCHANGED <<now, started>>

\* The process dies, its pg_dump with it, and is started again; nothing is repaired.
CrashAndRestart ==
    /\ failures < MaxFailures /\ failures' = failures + 1
    /\ pc' = [h \in Handlers |-> "idle"]
    /\ call' = [h \in Handlers |-> Blank]
    /\ UNCHANGED <<now, rows, files, started>>

Tick ==
    /\ now < MaxTime
    /\ now' = now + 1
    /\ UNCHANGED <<rows, files, pc, call, started, failures>>

Create(h) ==
    \/ Start(h) \/ Insert(h) \/ Open(h) \/ DumpDone(h) \/ DumpFails(h) \/ Measure(h) \/ Store(h)

Prune(h) ==
    \/ FindExpired(h)
    \/ \E id \in call[h].todo : Unlink(h, id) \/ UnlinkFails(h, id)
    \/ DeleteExpired(h)

Catch(h) == Clear(h) \/ ClearFails(h) \/ MarkFailed(h)

Deliver(h) ==
    \/ Request(h)
    \/ \E id \in DOMAIN rows : FindLatest(h, id)
    \/ CheckFile(h)
    \/ EndDelivery(h)

Next ==
    \/ \E h \in Handlers : Create(h) \/ Prune(h) \/ Catch(h) \/ Deliver(h) \/ Throw(h)
    \/ CrashAndRestart
    \/ Tick

Spec == Init /\ [][Next]_vars

(***************************************************************************)
(* Properties.                                                             *)
(***************************************************************************)
\* Inside its retention.
Young(id) == now <= rows[id].created + Retention

Busy(id) == \E h \in Handlers : pc[h] \in TryPcs \cup CatchPcs /\ Row(h) = id

\* Successful backups inside their retention, with a name of their own, whose file is not
\* the one that was measured.
Lost ==
    {id \in Successes :
        /\ ~Shared(id) /\ Young(id)
        /\ ~\E h \in Handlers : pc[h] \in CatchPcs /\ Row(h) = id
        /\ \/ files[rows[id].name] # [by |-> id, state |-> "whole"]
           \/ rows[id].sum # files[rows[id].name]}

\* A row that says SUCCESS has its file, checksum and all, until it expires: no single
\* failed call or crash, no failing dump, no retention run of another backup breaks that.
LosingASuccessTakesTwo == failures <= 1 => Lost = {}

\* Its backup succeeded only when its retention was over: a prune of another backup may
\* have unlinked its file already, and then deletes the row of a file written since.
Outlasted(id) == rows[id].status = "SUCCESS" /\ rows[id].created + Retention < rows[id].finished

\* As long as no call fails and nothing crashes, every file in the directory belongs to a
\* row or to a backup at work (unless its backup outlasted its retention), and every
\* RUNNING row to a backup at work; a dump that fails leaves nothing behind.
NothingIsLeftBehind ==
    failures = 0 =>
        /\ \A n \in Time : files[n] # None =>
              \/ \E id \in DOMAIN rows :
                    /\ rows[id].name = n
                    /\ (rows[id].live /\ rows[id].status # "FAILED") \/ Outlasted(id)
              \/ \E h \in Handlers : pc[h] \in TryPcs \cup CatchPcs /\ File(h) = n
        /\ \A id \in Live : rows[id].status = "RUNNING" => Busy(id)

\* Retention and the clean-up of other backups spare what is young: a row is deleted only
\* when it has expired, and a file disappears only with an expired row of that name or by
\* the catch clause of a backup of that name.
RetentionSparesTheYoung ==
    [][/\ \A id \in DOMAIN rows : rows[id].live /\ ~rows'[id].live => ~Young(id)
       /\ \A n \in Time : files[n] # None /\ files'[n] = None =>
             \/ \E id \in DOMAIN rows : rows[id].name = n /\ ~Young(id)
             \/ \E h \in Handlers : pc[h] = "clearing" /\ File(h) = n]_vars

\* A document about to be sent is, if it is still there, the whole dump of the row it is
\* announced with; only a second backup begun in the same second can spoil it.
DeliveriesAreWhole ==
    \A h \in Handlers : pc[h] \in SendPcs =>
        \/ files[File(h)] \in {None, [by |-> Row(h), state |-> "whole"]}
        \/ Shared(Row(h))

(***************************************************************************)
(* What NothingIsLeftBehind lacks to be inductive.                         *)
(***************************************************************************)
\* The backup is at work on its file.
InPlay == {"dumping", "measuring", "storing", "clearing"}
Making(id) == \E h \in Handlers : pc[h] \in InPlay /\ Row(h) = id

HasFile(id) == files[rows[id].name] # None /\ files[rows[id].name].by = id

\* Who wrote a file last still works on it, or succeeded and has its row or outlasted it.
WriterAnswers ==
    \A n \in Time : files[n] # None =>
        LET id == files[n].by
        IN  /\ id \in DOMAIN rows /\ rows[id].name = n
            /\ \/ Making(id)
               \/ rows[id].status = "SUCCESS" /\ (rows[id].live \/ Outlasted(id))

\* A file that retention has unlinked is back only by a backup at work, or one that
\* outlasted its retention.
Emptied(h) ==
    pc[h] \in {"unlinking", "deleting"} =>
        /\ pc[h] = "deleting" => call[h].todo = {}
        /\ \A id \in call[h].doomed \ call[h].todo :
              HasFile(id) => Making(id) \/ Outlasted(id)

Tidy ==
    failures = 0 =>
        /\ WriterAnswers
        /\ \A h \in Handlers : Emptied(h)
        /\ \A id \in Live : rows[id].status = "RUNNING" => Busy(id)
================================================================================
