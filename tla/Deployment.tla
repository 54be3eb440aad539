------------------------------ MODULE Deployment ------------------------------
(***************************************************************************)
(* DeploymentService on one deployment target: its DeploymentRun rows, its *)
(* git working directory and its compose project.  Runs of different       *)
(* targets share neither.                                                  *)
(*                                                                         *)
(* A handler is a confirmed deploy.run or deploy.rollback request, or a    *)
(* rollback request that prepares its preview; it is suspended at every    *)
(* database call and every command, and other handlers run meanwhile.      *)
(*                                                                         *)
(* The branch has a linear history: commit n + 1 is pushed on top of n.    *)
(***************************************************************************)
EXTENDS Naturals, Sequences, FiniteSets

CONSTANTS
    Handlers,       \* slots for updates processed at the same time
    MaxCommit,      \* bound on the commits pushed to the branch
    MaxRuns,        \* bound on the rows of the table
    MaxOverlapped,  \* bound on the rows while handlers overlap
    MaxFaults,      \* bound on failed database calls
    MaxCrashes,     \* bound on process crashes
    None            \* a column or local without a value

ASSUME DeploymentConstants ==
    /\ MaxCommit \in Nat /\ MaxRuns \in Nat /\ MaxOverlapped \in 0..MaxRuns
    /\ MaxFaults \in Nat /\ MaxCrashes \in Nat
    /\ None \notin Nat /\ None \notin {"preview", "deploy", "rollback"}

Commits == 0..MaxCommit
Optional == Commits \cup {None}
Ops == {"preview", "deploy", "rollback"}
RunStatuses == {"RUNNING", "SUCCESS", "FAILED", "ROLLED_BACK", "ROLLBACK_FAILED"}
Runs == [status: RunStatuses, previous: Optional, deployed: Optional, finishedAt: Nat]
\* run is 0 until the handler's row exists; target is the commit a rollback goes to.
Locals == [op: Ops \cup {None}, run: Nat, previous: Optional, target: Optional,
           deployed: Optional]

VARIABLES
    origin,     \* tip of the target's branch at the remote
    tip,        \* tip of the local branch
    head,       \* commit HEAD is at
    detached,   \* HEAD names a commit, not the branch
    stack,      \* commit the compose project was last brought up from
    runs,       \* DeploymentRun rows by creation
    clock,      \* orders the finishedAt timestamps
    offers,     \* rollback commits on open confirmation keyboards
    pc,         \* where each handler is suspended
    local,      \* its arguments and locals
    liveAt,     \* ghost: liveAt[r], the stack when row r was created
    faults,     \* ghost: database calls that failed so far
    crashes,    \* ghost: crashes so far
    raced       \* ghost: two handlers were between the check and the insert at once

tree == <<tip, head, detached>>
world == <<origin, tip, head, detached, stack>>
table == <<runs, clock, liveAt>>
flow == <<pc, local>>
ghosts == <<faults, crashes, raced>>
vars == <<origin, tip, head, detached, stack, runs, clock, offers, pc, local, liveAt,
          faults, crashes, raced>>

\* Suspended before the handler's row exists.
StartPcs == {"checking", "history", "head", "creating"}
\* A command, or the probe, inside the try block.
CommandPcs == {"reading", "checkout", "pulling", "composing", "probing", "verifying"}
\* The handler's row exists.
WorkPcs == {"succeeding", "failing"} \cup CommandPcs
Pcs == {"idle"} \cup StartPcs \cup WorkPcs

Blank == [op |-> None, run |-> 0, previous |-> None, target |-> None,
          deployed |-> None]

\* A handler's locals fit the place it is suspended at: only an idle one has none, it
\* holds a row while it works, and a rollback commit once it has read the history.
LocalsFit(h) ==
    /\ IF pc[h] = "idle" THEN local[h] = Blank ELSE local[h].op \in Ops
    /\ IF pc[h] \in WorkPcs THEN local[h].run \in DOMAIN runs ELSE local[h].run = 0
    /\ local[h].op # "deploy" /\ pc[h] \notin {"idle", "checking", "history"}
         => local[h].target # None

TypeOK ==
    /\ origin \in Commits /\ tip \in Commits /\ head \in Commits /\ stack \in Commits
    /\ detached \in BOOLEAN
    /\ runs \in Seq(Runs) /\ Len(runs) <= MaxRuns
    /\ liveAt \in Seq(Commits) /\ Len(liveAt) = Len(runs)
    /\ clock \in Nat
    /\ offers \subseteq Commits
    /\ pc \in [Handlers -> Pcs]
    /\ local \in [Handlers -> Locals]
    /\ \A h \in Handlers : LocalsFit(h)
    /\ faults \in 0..MaxFaults
    /\ crashes \in 0..MaxCrashes
    /\ raced \in BOOLEAN

Init ==
    /\ origin = 0 /\ tip = 0 /\ head = 0 /\ stack = 0
    /\ detached = FALSE
    /\ runs = <<>> /\ liveAt = <<>>
    /\ clock = 0
    /\ offers = {}
    /\ pc = [h \in Handlers |-> "idle"]
    /\ local = [h \in Handlers |-> Blank]
    /\ faults = 0
    /\ crashes = 0
    /\ raced = FALSE

(***************************************************************************)
(* Building blocks.                                                        *)
(***************************************************************************)
\* Mutated form of Resume: a returning handler keeps its locals.
Resume_KeepLocals(h, to, l) ==
    /\ pc' = [pc EXCEPT ![h] = to]
    /\ local' = [local EXCEPT ![h] = l]

\* Handler h is next suspended at to with locals l; a returning one forgets them.
Resume(h, to, l) ==
    /\ pc' = [pc EXCEPT ![h] = to]
    /\ local' = [local EXCEPT ![h] = IF to = "idle" THEN Blank ELSE l]

Goto(h, to) == Resume(h, to, local[h])

Running == {r \in DOMAIN runs : runs[r].status = "RUNNING"}

\* Rows findFirst may pick for a rollback.
Reversible ==
    {r \in DOMAIN runs : /\ runs[r].status \in {"SUCCESS", "ROLLED_BACK"}
                         /\ runs[r].previous # None /\ runs[r].deployed # None}

\* Mutated form of LatestReversible: the order is ascending.
LatestReversible_Oldest(r) ==
    r \in Reversible /\ \A q \in Reversible : runs[r].finishedAt <= runs[q].finishedAt

LatestReversible(r) ==
    r \in Reversible /\ \A q \in Reversible : runs[q].finishedAt <= runs[r].finishedAt

(***************************************************************************)
(* Starting a run.                                                         *)
(***************************************************************************)
\* The bound on the table: a row for every handler that may insert one.
HasRoom ==
    Len(runs) + Cardinality({g \in Handlers : pc[g] \in StartPcs})
        < IF raced THEN MaxOverlapped ELSE MaxRuns

\* The bound on overlaps: once the table has MaxOverlapped rows, one update at a time.
MayOverlap == Len(runs) < MaxOverlapped \/ \A g \in Handlers : pc[g] = "idle"

\* The handlers past the check of the lock whose row is still to be inserted.
Admitted ==
    {h \in Handlers : pc[h] \in {"history", "head", "creating"} /\ local[h].op # "preview"}

\* A deployment is confirmed, a rollback is confirmed from an open keyboard, or
\* a rollback is requested and its preview prepared, which takes no lock.
Start(h) ==
    /\ pc[h] = "idle"
    /\ MayOverlap
    /\ \/ /\ HasRoom
          /\ Resume(h, "checking", [Blank EXCEPT !.op = "deploy"])
          /\ UNCHANGED offers
       \/ \E c \in offers :
             /\ HasRoom
             /\ Resume(h, "checking", [Blank EXCEPT !.op = "rollback"])
             /\ offers' = offers \ {c}
       \/ /\ Resume(h, "history", [Blank EXCEPT !.op = "preview"])
          /\ UNCHANGED offers
    /\ UNCHANGED <<world, table, ghosts>>

\* A keyboard is cancelled or expires.
Discard(c) ==
    /\ c \in offers
    /\ offers' = offers \ {c}
    /\ UNCHANGED <<world, table, flow, ghosts>>

\* Mutated form of CheckRunning: the running row is not looked for.
CheckRunning_Never(h) ==
    /\ pc[h] = "checking"
    /\ Goto(h, IF local[h].op = "deploy" THEN "creating" ELSE "history")
    /\ raced' = (raced \/ Admitted # {})
    /\ UNCHANGED <<world, table, offers, faults, crashes>>

\* syncTarget rewrites the target's row from the file and changes nothing here.
CheckRunning(h) ==
    /\ pc[h] = "checking"
    /\ Goto(h, IF Running # {} THEN "idle"
               ELSE IF local[h].op = "deploy" THEN "creating" ELSE "history")
    /\ raced' = (raced \/ (Running = {} /\ Admitted # {}))
    /\ UNCHANGED <<world, table, offers, faults, crashes>>

ReadHistory(h) ==
    /\ pc[h] = "history"
    /\ \/ Reversible = {} /\ Goto(h, "idle")
       \/ \E r \in DOMAIN runs :
             /\ LatestReversible(r)
             /\ Resume(h, "head", [local[h] EXCEPT !.target = runs[r].previous])
    /\ UNCHANGED <<world, table, offers, ghosts>>

\* The preview is shown on a keyboard; its commits are not read back, so a run finished
\* meanwhile sends the rollback elsewhere.
ReadCurrent(h) ==
    /\ pc[h] = "head"
    /\ IF local[h].op = "preview"
         THEN /\ offers' = offers \cup {local[h].target}
              /\ Goto(h, "idle")
         ELSE /\ Resume(h, "creating", [local[h] EXCEPT !.previous = head])
              /\ UNCHANGED offers
    /\ UNCHANGED <<world, table, ghosts>>

Insert ==
    /\ Len(runs) < MaxRuns
    /\ runs' = Append(runs, [status |-> "RUNNING", previous |-> None,
                             deployed |-> None, finishedAt |-> 0])
    /\ liveAt' = Append(liveAt, stack)
    /\ UNCHANGED clock

CreateRun(h) ==
    /\ pc[h] = "creating"
    /\ Insert
    /\ Resume(h, IF local[h].op = "deploy" THEN "reading" ELSE "checkout",
              [local[h] EXCEPT !.run = Len(runs) + 1])
    /\ UNCHANGED <<world, offers, ghosts>>

(***************************************************************************)
(* Inside the try block.                                                   *)
(***************************************************************************)
ReadPrevious(h) ==
    /\ pc[h] = "reading"
    /\ Resume(h, "checkout", [local[h] EXCEPT !.previous = head])
    /\ UNCHANGED <<world, table, offers, ghosts>>

\* git fetch leaves the tree alone; git checkout takes the branch or a commit.
Checkout(h) ==
    /\ pc[h] = "checkout"
    /\ head' = IF local[h].op = "deploy" THEN tip ELSE local[h].target
    /\ detached' = (local[h].op = "rollback")
    /\ Goto(h, IF local[h].op = "deploy" THEN "pulling" ELSE "composing")
    /\ UNCHANGED <<origin, tip, stack, table, offers, ghosts>>

\* git pull --ff-only: HEAD moves to the remote tip, and so does the branch unless
\* another handler detached HEAD.
Pull(h) ==
    /\ pc[h] = "pulling"
    /\ head' = origin
    /\ tip' = IF detached THEN tip ELSE origin
    /\ Goto(h, "composing")
    /\ UNCHANGED <<origin, detached, stack, table, offers, ghosts>>

ComposeUp(h) ==
    /\ pc[h] = "composing"
    /\ stack' = head
    /\ Goto(h, "probing")
    /\ UNCHANGED <<origin, tree, table, offers, ghosts>>

\* The linked health target answers HEALTHY, or none is linked.
ProbeHealthy(h) ==
    /\ pc[h] = "probing"
    /\ Goto(h, "verifying")
    /\ UNCHANGED <<world, table, offers, ghosts>>

\* Mutated form of ReadDeployed: the fetched remote tip is recorded, not HEAD.
ReadDeployed_Remote(h) ==
    /\ pc[h] = "verifying"
    /\ Resume(h, "succeeding", [local[h] EXCEPT !.deployed = origin])
    /\ UNCHANGED <<world, table, offers, ghosts>>

ReadDeployed(h) ==
    /\ pc[h] = "verifying"
    /\ Resume(h, "succeeding", [local[h] EXCEPT !.deployed = head])
    /\ UNCHANGED <<world, table, offers, ghosts>>

\* The update by id that ends a successful run.
WriteSuccess(h) ==
    /\ runs' = [runs EXCEPT ![local[h].run] =
                  [status     |-> IF local[h].op = "deploy" THEN "SUCCESS" ELSE "ROLLED_BACK",
                   previous   |-> local[h].previous,
                   deployed   |-> local[h].deployed,
                   finishedAt |-> clock + 1]]
    /\ clock' = clock + 1
    /\ UNCHANGED liveAt

\* The update of the catch clause: a failed deployment keeps its commits to
\* itself, a failed rollback records the commit it started from.
WriteFailure(h) ==
    /\ runs' = [runs EXCEPT ![local[h].run] =
                  IF local[h].op = "deploy"
                    THEN [@ EXCEPT !.status = "FAILED", !.finishedAt = clock + 1]
                    ELSE [@ EXCEPT !.status = "ROLLBACK_FAILED", !.finishedAt = clock + 1,
                                   !.previous = local[h].previous]]
    /\ clock' = clock + 1
    /\ UNCHANGED liveAt

Succeed(h) ==
    /\ pc[h] = "succeeding"
    /\ WriteSuccess(h)
    /\ Goto(h, "idle")
    /\ UNCHANGED <<world, offers, ghosts>>

RecordFailure(h) ==
    /\ pc[h] = "failing"
    /\ WriteFailure(h)
    /\ Goto(h, "idle")
    /\ UNCHANGED <<world, offers, ghosts>>

(***************************************************************************)
(* Failures.                                                               *)
(***************************************************************************)
\* Mutated form of CommandFails: the rejection is not caught.
CommandFails_Uncaught(h) ==
    /\ pc[h] \in CommandPcs \cup {"head"}
    /\ Goto(h, "idle")
    /\ UNCHANGED <<world, table, offers, ghosts>>

\* A command exits with an error or is killed after 120 s, or the probe is not
\* HEALTHY.  A command that did its work before it failed is the same command
\* succeeding and the next one failing.
CommandFails(h) ==
    /\ pc[h] \in CommandPcs \cup {"head"}
    /\ Goto(h, IF pc[h] = "head" THEN "idle" ELSE "failing")
    /\ UNCHANGED <<world, table, offers, ghosts>>

\* Mutated form of DatabaseFails: an insert that was rejected is tried again.
DatabaseFails_Retry(h) ==
    /\ faults < MaxFaults
    /\ faults' = faults + 1
    /\ \/ /\ pc[h] \in {"checking", "history", "failing"}
          /\ Goto(h, "idle")
       \/ /\ pc[h] = "creating"
          /\ Goto(h, "creating")
       \/ /\ pc[h] = "succeeding"
          /\ Goto(h, "failing")
    /\ \/ UNCHANGED table
       \/ pc[h] = "creating" /\ Insert
       \/ pc[h] = "succeeding" /\ WriteSuccess(h)
    /\ UNCHANGED <<world, offers, crashes, raced>>

\* A database call rejects: before the row exists the handler ends; a write may
\* have been applied although its acknowledgement was lost.
DatabaseFails(h) ==
    /\ faults < MaxFaults
    /\ faults' = faults + 1
    /\ \/ /\ pc[h] \in {"checking", "history", "creating", "failing"}
          /\ Goto(h, "idle")
       \/ /\ pc[h] = "succeeding"
          /\ Goto(h, "failing")
    /\ \/ UNCHANGED table
       \/ pc[h] = "creating" /\ Insert
       \/ pc[h] = "succeeding" /\ WriteSuccess(h)
    /\ UNCHANGED <<world, offers, crashes, raced>>

\* The process dies; nothing looks at RUNNING rows when it starts again.
CrashAndRestart ==
    /\ crashes < MaxCrashes
    /\ crashes' = crashes + 1
    /\ pc' = [h \in Handlers |-> "idle"]
    /\ local' = [h \in Handlers |-> Blank]
    /\ UNCHANGED <<world, table, offers, faults, raced>>

\* A developer pushes to the branch.
Push ==
    /\ origin < MaxCommit
    /\ origin' = origin + 1
    /\ UNCHANGED <<tree, stack, table, offers, flow, ghosts>>

\* A suspended handler is resumed by an answer or by a rejection.
Advance(h) ==
    \/ CheckRunning(h)
    \/ ReadHistory(h)
    \/ ReadCurrent(h)
    \/ CreateRun(h)
    \/ ReadPrevious(h)
    \/ Checkout(h)
    \/ Pull(h)
    \/ ComposeUp(h)
    \/ ProbeHealthy(h)
    \/ ReadDeployed(h)
    \/ Succeed(h)
    \/ RecordFailure(h)
    \/ CommandFails(h)
    \/ DatabaseFails(h)

Next ==
    \/ \E h \in Handlers : Start(h) \/ Advance(h)
    \/ \E c \in Commits : Discard(c)
    \/ CrashAndRestart
    \/ Push

Spec == Init /\ [][Next]_vars

\* Commands are killed after their timeout and the database client rejects rather
\* than hangs.
Fairness == \A h \in Handlers : WF_vars(Advance(h))
FairSpec == Spec /\ Fairness

(***************************************************************************)
(* Properties.                                                             *)
(***************************************************************************)
OneRunning == \A q, r \in Running : q = r

\* The RUNNING row is a lock for handlers that overlap, except where the check and the
\* insert let it slip (ensureNoRunningDeployment and create are two calls): as long as no
\* two handlers were between them at once, a target never has two RUNNING rows and one
\* handler at most is at work on its tree and its stack, through lost writes, crashes and
\* rows they orphan.
TwoRunsTakeARace ==
    raced \/ /\ OneRunning
             /\ \A g, h \in Handlers : pc[g] \in CommandPcs /\ pc[h] \in CommandPcs => g = h

\* The last row is reversible.
Settled == runs # <<>> /\ Len(runs) \in Reversible

\* The table tells what is live: after a successful deployment or rollback, and until the
\* next row is inserted, the working directory and the compose project are at the commit
\* the last row calls deployed, whatever handlers are refused, preview or still have to
\* hear that their row was written.
RecordTellsLive ==
    ~raced /\ Settled
      => stack = runs[Len(runs)].deployed /\ head = runs[Len(runs)].deployed

\* As long as no run failed, rolling back brings up exactly what was live when the run
\* before it started: rollback after rollback, pushes in between and stale previews
\* included.
RollbackRestoresLive ==
    ~raced =>
        \A r \in 2..Len(runs) :
            /\ runs[r].status = "ROLLED_BACK"
            /\ \A q \in 1..(r - 1) : q \in Reversible
            => runs[r].deployed = liveAt[r - 1]

\* Rolling back after a failed deployment restores what was live before it
\* (rollback-runbook.md and incident-response.md offer it for that).
RollbackUndoesFailure ==
    \A r \in 2..Len(runs) :
        runs[r].status = "ROLLED_BACK" /\ runs[r - 1].status = "FAILED"
        => runs[r].deployed = liveAt[r - 1]

\* A RUNNING row nobody works on, and nobody past the check.
Orphaned ==
    /\ \E r \in Running : \A h \in Handlers : local[h].run # r
    /\ \A h \in Handlers : pc[h] \in {"idle", "checking"} \/ local[h].op = "preview"

\* A run lost by a crash or a lost write blocks its target for good: no later
\* deployment or rollback starts, and nothing touches its tree or its stack.
OrphanBlocksForGood ==
    [][Orphaned => Orphaned' /\ UNCHANGED <<tree, stack, runs>>]_vars

Keepers(r) == {h \in Handlers : local[h].run = r}

\* However runs overlap, a row belongs to the handler that inserted it, which leaves it
\* RUNNING until it writes its verdict; a second verdict takes a failed call.
RowsAreKept ==
    /\ \A g, h \in Handlers : local[g].run = local[h].run /\ local[h].run # 0 => g = h
    /\ \A h \in Handlers : local[h].run # 0 =>
          local[h].run \in Running \/ (pc[h] = "failing" /\ faults > 0)

\* However runs overlap, a row that its handler has left is never touched again: a
\* verdict stands, and a RUNNING row nobody works on is taken up by nobody.
VerdictsStand ==
    [][\A r \in DOMAIN runs :
          Keepers(r) = {} => runs'[r] = runs[r] /\ Keepers(r)' = {}]_vars

\* However runs overlap, rows are orphaned by failures only: one by each failed database
\* call, and by a crash one for each handler at work.
Orphans == {r \in Running : Keepers(r) = {}}
OrphansArePaid == Cardinality(Orphans) <= faults + crashes * Cardinality(Handlers)

\* Without a crash and without a failed database call every run is settled, however its
\* commands end, and the target is free for the next one.
EveryRunIsSettled == Running # {} ~> Running = {} \/ faults + crashes > 0

(***************************************************************************)
(* The inductive invariant behind TwoRunsTakeARace and RecordTellsLive.    *)
(***************************************************************************)
PreviewsOnlyRead ==
    \A h \in Handlers : local[h].op = "preview" => pc[h] \in {"history", "head"}

\* Between the insert and the last write, unless something failed.
TryPcs == CommandPcs \cup {"succeeding"}

\* The handlers that the lock keeps apart.
Busy == {h \in Handlers : h \in Admitted \/ pc[h] \in TryPcs}

\* One handler at most is busy: it found no row RUNNING, or works on the last row, the
\* only one RUNNING.  A handler in its catch clause is not busy: its row may be written
\* already, and another run under way.
LockIsHeld ==
    ~raced =>
        /\ \A g, h \in Busy : g = h
        /\ Running \subseteq {Len(runs)}
        /\ \A h \in Handlers :
              /\ h \in Admitted => Running = {}
              /\ pc[h] \in TryPcs => local[h].run = Len(runs) /\ Len(runs) \in Running

\* Once the project is up it is HEAD's, and stays so until the row says it.
BuiltFromHead ==
    ~raced =>
        \A h \in Handlers :
            /\ pc[h] \in {"probing", "verifying", "succeeding"} => stack = head
            /\ pc[h] = "succeeding" => local[h].deployed = head

IInv ==
    /\ TypeOK /\ PreviewsOnlyRead /\ RowsAreKept
    /\ LockIsHeld /\ BuiltFromHead /\ RecordTellsLive

(***************************************************************************)
(* What RollbackRestoresLive lacks to be inductive.                        *)
(***************************************************************************)
AllReversible(n) == 1..n \subseteq Reversible

\* The reversible rows ended in the order they were created.
EndedInOrder ==
    /\ \A r \in DOMAIN runs : runs[r].finishedAt <= clock
    /\ \A q, r \in Reversible : q < r => runs[q].finishedAt < runs[r].finishedAt

\* As long as no run failed, a row's previous commit is what was live when it started.
PreviousWasLive ==
    /\ runs = <<>> => head = stack
    /\ \A r \in DOMAIN runs : AllReversible(r) => runs[r].previous = liveAt[r]

\* So it is for the row at work, whose handler may still have to read it; and a rollback
\* aims at what was live when the run before it started, and gets there.
Aimed(h) ==
    /\ pc[h] \in TryPcs /\ AllReversible(Len(runs) - 1) =>
          IF pc[h] = "reading" THEN head = liveAt[Len(runs)]
          ELSE local[h].previous = liveAt[Len(runs)]
    /\ local[h].op = "rollback" =>
        /\ pc[h] \in {"head", "creating"} /\ AllReversible(Len(runs))
             => local[h].target = liveAt[Len(runs)]
        /\ pc[h] = "creating" => local[h].previous = head
        /\ pc[h] # "pulling"
        /\ pc[h] \in TryPcs /\ Len(runs) > 1 /\ AllReversible(Len(runs) - 1)
             => local[h].target = liveAt[Len(runs) - 1]
        /\ pc[h] \in {"composing", "probing", "verifying"} => head = local[h].target
        /\ pc[h] = "succeeding" => local[h].deployed = local[h].target

AimInv ==
    /\ IInv
    /\ RollbackRestoresLive
    /\ ~raced => EndedInOrder /\ PreviousWasLive /\ \A h \in Handlers : Aimed(h)
=============================================================================
