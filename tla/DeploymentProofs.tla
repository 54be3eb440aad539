--------------------------- MODULE DeploymentProofs ---------------------------
(***************************************************************************)
(* Theorems about Deployment, for every bound and every number of failures *)
(* and crashes.                                                            *)
(***************************************************************************)
EXTENDS Deployment, FiniteSetTheorems, TLAPS

USE DEF world, tree, table, flow, ghosts

-----------------------------------------------------------------------------
(* Type correctness.                                                         *)

\* The sets of places a handler is suspended at.
LEMMA PcFacts ==
    /\ Pcs = {"idle"} \cup StartPcs \cup WorkPcs
    /\ StartPcs = {"checking", "history", "head", "creating"}
    /\ WorkPcs = {"reading", "checkout", "pulling", "composing", "probing", "verifying",
                  "succeeding", "failing"}
    /\ CommandPcs = WorkPcs \ {"succeeding", "failing"}
BY DEF Pcs, StartPcs, WorkPcs, CommandPcs

LEMMA BlankType == Blank \in Locals /\ Blank.run = 0 /\ None \in Optional
BY DEF Blank, Locals, Optional

\* A handler that resumes with well typed locals keeps the flow well typed, if the
\* table keeps its rows and gives the handler its own.
LEMMA ResumeType ==
    ASSUME TypeOK, NEW h \in Handlers, NEW to \in Pcs, NEW l \in Locals, Resume(h, to, l),
           l.op \in Ops,
           IF to \in WorkPcs THEN l.run \in DOMAIN runs' ELSE to = "idle" \/ l.run = 0,
           to \in {"idle", "checking", "history"} \/ l.op = "deploy" \/ l.target # None,
           DOMAIN runs \subseteq DOMAIN runs'
    PROVE  /\ pc' \in [Handlers -> Pcs]
           /\ local' \in [Handlers -> Locals]
           /\ \A g \in Handlers : LocalsFit(g)'
<1>1. pc' \in [Handlers -> Pcs] /\ local' \in [Handlers -> Locals]
  BY BlankType DEF TypeOK, Resume
<1>2. ASSUME NEW g \in Handlers, g # h
      PROVE  pc'[g] = pc[g] /\ local'[g] = local[g]
  BY <1>2 DEF TypeOK, Resume
<1>3. pc'[h] = to /\ local'[h] = IF to = "idle" THEN Blank ELSE l
  BY DEF TypeOK, Resume
<1>4. "idle" \notin WorkPcs
  BY PcFacts
<1>5. ASSUME NEW g \in Handlers
      PROVE  LocalsFit(g)'
  <2>1. CASE g = h
    BY <2>1, <1>3, <1>4, BlankType DEF LocalsFit
  <2>2. CASE g # h
    BY <2>2, <1>2 DEF TypeOK, LocalsFit
  <2>3. QED
    BY <2>1, <2>2
<1>6. QED
  BY <1>1, <1>5

\* A handler that only moves on.
LEMMA MoveType ==
    ASSUME TypeOK, NEW h \in Handlers, NEW to \in Pcs, NEW l \in Locals, Resume(h, to, l),
           l.op = local[h].op, l.run = local[h].run, pc[h] # "idle",
           to = "idle" \/ (to \in WorkPcs <=> pc[h] \in WorkPcs),
           to \in {"idle", "history"} \/ l.op = "deploy" \/ l.target # None,
           DOMAIN runs' = DOMAIN runs
    PROVE  /\ pc' \in [Handlers -> Pcs]
           /\ local' \in [Handlers -> Locals]
           /\ \A g \in Handlers : LocalsFit(g)'
<1>1. "idle" \notin WorkPcs
  BY PcFacts
<1>2. l.op \in Ops
  BY DEF TypeOK, LocalsFit
<1>3. IF to \in WorkPcs THEN l.run \in DOMAIN runs' ELSE to = "idle" \/ l.run = 0
  BY <1>1 DEF TypeOK, LocalsFit
<1>4. QED
  BY <1>2, <1>3, ResumeType

\* An inserted row.
LEMMA InsertType ==
    ASSUME TypeOK, Insert
    PROVE  /\ runs' \in Seq(Runs) /\ Len(runs') <= MaxRuns
           /\ liveAt' \in Seq(Commits) /\ Len(liveAt') = Len(runs')
           /\ DOMAIN runs' = DOMAIN runs \cup {Len(runs) + 1}
           /\ Len(runs') = Len(runs) + 1
           /\ Len(runs) + 1 \notin DOMAIN runs
<1>1. [status |-> "RUNNING", previous |-> None, deployed |-> None, finishedAt |-> 0] \in Runs
  BY DEF Runs, RunStatuses, Optional
<1>2. QED
  BY <1>1, DeploymentConstants DEF Insert, TypeOK

\* A rewritten row.
LEMMA RewriteType ==
    ASSUME TypeOK, NEW r \in DOMAIN runs, NEW row \in Runs,
           runs' = [runs EXCEPT ![r] = row]
    PROVE  /\ runs' \in Seq(Runs) /\ Len(runs') = Len(runs) /\ DOMAIN runs' = DOMAIN runs
           /\ runs'[r] = row
           /\ \A q \in DOMAIN runs : q # r => runs'[q] = runs[q]
BY DEF TypeOK

LEMMA WriteSuccessType ==
    ASSUME TypeOK, NEW h \in Handlers, pc[h] = "succeeding", WriteSuccess(h)
    PROVE  /\ runs' \in Seq(Runs) /\ Len(runs') = Len(runs) /\ DOMAIN runs' = DOMAIN runs
           /\ clock' \in Nat
           /\ local[h].run \in DOMAIN runs
           /\ \A q \in DOMAIN runs : q # local[h].run => runs'[q] = runs[q]
           /\ runs'[local[h].run].status \in {"SUCCESS", "ROLLED_BACK"}
           /\ runs'[local[h].run].status = "ROLLED_BACK" => local[h].op # "deploy"
           /\ runs'[local[h].run].previous = local[h].previous
           /\ runs'[local[h].run].deployed = local[h].deployed
           /\ runs'[local[h].run].finishedAt = clock' /\ clock' = clock + 1
<1> DEFINE row == [status     |-> IF local[h].op = "deploy" THEN "SUCCESS" ELSE "ROLLED_BACK",
                   previous   |-> local[h].previous,
                   deployed   |-> local[h].deployed,
                   finishedAt |-> clock + 1]
<1>1. local[h].run \in DOMAIN runs
  BY PcFacts DEF TypeOK, LocalsFit
<1>2. clock + 1 \in Nat /\ local[h] \in Locals
  BY DEF TypeOK
<1>3. row \in Runs
  BY <1>2 DEF Runs, RunStatuses, Locals
<1>4. runs' = [runs EXCEPT ![local[h].run] = row] /\ clock' = clock + 1
  BY DEF WriteSuccess
<1> HIDE DEF row
<1>5. /\ runs' \in Seq(Runs) /\ Len(runs') = Len(runs) /\ DOMAIN runs' = DOMAIN runs
      /\ runs'[local[h].run] = row
      /\ \A q \in DOMAIN runs : q # local[h].run => runs'[q] = runs[q]
  BY <1>1, <1>3, <1>4, RewriteType
<1>6. QED
  BY <1>1, <1>2, <1>4, <1>5 DEF row

LEMMA WriteFailureType ==
    ASSUME TypeOK, NEW h \in Handlers, pc[h] = "failing", WriteFailure(h)
    PROVE  /\ runs' \in Seq(Runs) /\ Len(runs') = Len(runs) /\ DOMAIN runs' = DOMAIN runs
           /\ clock' \in Nat
           /\ local[h].run \in DOMAIN runs
           /\ \A q \in DOMAIN runs : q # local[h].run => runs'[q] = runs[q]
           /\ runs'[local[h].run].status \in {"FAILED", "ROLLBACK_FAILED"}
           /\ runs'[local[h].run].finishedAt = clock' /\ clock' = clock + 1
<1> DEFINE old == runs[local[h].run]
           row == IF local[h].op = "deploy"
                    THEN [old EXCEPT !.status = "FAILED", !.finishedAt = clock + 1]
                    ELSE [old EXCEPT !.status = "ROLLBACK_FAILED", !.finishedAt = clock + 1,
                                     !.previous = local[h].previous]
<1>1. local[h].run \in DOMAIN runs
  BY PcFacts DEF TypeOK, LocalsFit
<1>2. clock + 1 \in Nat /\ local[h] \in Locals
  BY DEF TypeOK
<1>3. old \in Runs
  BY <1>1 DEF TypeOK
<1>4. /\ row \in Runs /\ row.status \in {"FAILED", "ROLLBACK_FAILED"}
      /\ row.finishedAt = clock + 1
  BY <1>2, <1>3 DEF Runs, RunStatuses, Locals
<1>5. runs' = [runs EXCEPT ![local[h].run] = row] /\ clock' = clock + 1
  BY DEF WriteFailure
<1> HIDE DEF row
<1>6. /\ runs' \in Seq(Runs) /\ Len(runs') = Len(runs) /\ DOMAIN runs' = DOMAIN runs
      /\ runs'[local[h].run] = row
      /\ \A q \in DOMAIN runs : q # local[h].run => runs'[q] = runs[q]
  BY <1>1, <1>4, <1>5, RewriteType
<1>7. QED
  BY <1>1, <1>2, <1>4, <1>5, <1>6

LEMMA InitType == Init => TypeOK
<1>1. 0 \in Commits
  BY DeploymentConstants DEF Commits
<1>2. "idle" \in Pcs \ WorkPcs
  BY PcFacts
<1>3. /\ <<>> \in Seq(Runs) /\ <<>> \in Seq(Commits)
      /\ Len(<<>>) = 0 /\ Len(<<>>) <= MaxRuns
  BY DeploymentConstants
<1>4. Init => \A h \in Handlers : LocalsFit(h)
  BY <1>2, BlankType DEF Init, LocalsFit
<1> SUFFICES ASSUME Init PROVE TypeOK
  OBVIOUS
<1>5. /\ runs \in Seq(Runs) /\ Len(runs) <= MaxRuns
      /\ liveAt \in Seq(Commits) /\ Len(liveAt) = Len(runs)
  BY <1>3 DEF Init
<1>6. pc \in [Handlers -> Pcs] /\ local \in [Handlers -> Locals]
  BY <1>2, BlankType DEF Init
<1>7. clock \in Nat /\ faults \in 0..MaxFaults /\ crashes \in 0..MaxCrashes
  BY DeploymentConstants DEF Init
<1>8. raced \in BOOLEAN
  BY DEF Init
<1>9. QED
  BY <1>1, <1>4, <1>5, <1>6, <1>7, <1>8 DEF Init, TypeOK

LEMMA StartType ==
    ASSUME TypeOK, NEW h \in Handlers, Start(h)
    PROVE  TypeOK'
<1>1. offers' \subseteq Commits
  BY DEF Start, TypeOK
<1>2. PICK to \in {"checking", "history"}, l \in Locals :
         Resume(h, to, l) /\ l.op \in Ops /\ l.run = 0
  <2>1. CASE Resume(h, "checking", [Blank EXCEPT !.op = "deploy"])
    <3> DEFINE l == [Blank EXCEPT !.op = "deploy"]
    <3>1. l \in Locals /\ l.op \in Ops /\ l.run = 0
      BY DEF Blank, Locals, Optional, Ops
    <3> HIDE DEF l
    <3>2. QED
      BY <2>1, <3>1 DEF l
  <2>2. CASE Resume(h, "history", [Blank EXCEPT !.op = "preview"])
    <3> DEFINE l == [Blank EXCEPT !.op = "preview"]
    <3>1. l \in Locals /\ l.op \in Ops /\ l.run = 0
      BY DEF Blank, Locals, Optional, Ops
    <3> HIDE DEF l
    <3>2. QED
      BY <2>2, <3>1 DEF l
  <2>3. ASSUME NEW c \in offers,
               Resume(h, "checking", [Blank EXCEPT !.op = "rollback"])
        PROVE  \E to \in {"checking", "history"}, l \in Locals :
                  Resume(h, to, l) /\ l.op \in Ops /\ l.run = 0
    <3> DEFINE l == [Blank EXCEPT !.op = "rollback"]
    <3>1. c \in Optional
      BY DEF TypeOK, Optional
    <3>2. l \in Locals /\ l.op \in Ops /\ l.run = 0
      BY <3>1 DEF Blank, Locals, Optional, Ops
    <3> HIDE DEF l
    <3>3. QED
      BY <2>3, <3>2 DEF l
  <2>4. QED
    BY <2>1, <2>2, <2>3 DEF Start
<1>3. to \in Pcs /\ to \notin WorkPcs
  BY PcFacts
<1>4. DOMAIN runs \subseteq DOMAIN runs'
  BY DEF Start
<1>5. QED
  BY <1>1, <1>2, <1>3, <1>4, ResumeType DEF Start, TypeOK

\* Steps that change neither the table nor the offers and leave commits commits.
LEMMA QuietType ==
    ASSUME TypeOK, NEW h \in Handlers, NEW to \in Pcs, NEW l \in Locals, Resume(h, to, l),
           l.op = local[h].op, l.run = local[h].run, pc[h] # "idle",
           to = "idle" \/ (to \in WorkPcs <=> pc[h] \in WorkPcs),
           to \in {"idle", "history"} \/ l.op = "deploy" \/ l.target # None,
           offers' \subseteq Commits, UNCHANGED <<table, faults, crashes>>,
           raced' \in BOOLEAN,
           origin' \in Commits, tip' \in Commits, head' \in Commits, stack' \in Commits,
           detached' \in BOOLEAN
    PROVE  TypeOK'
BY MoveType DEF TypeOK

\* The steps of a handler that reads, moves the tree or brings the project up.
QuietStep(h) ==
    \/ CheckRunning(h) \/ ReadHistory(h) \/ ReadCurrent(h) \/ ReadPrevious(h)
    \/ Checkout(h) \/ Pull(h) \/ ComposeUp(h) \/ ProbeHealthy(h) \/ ReadDeployed(h)
    \/ CommandFails(h)

LEMMA QuietStepType ==
    ASSUME TypeOK, NEW h \in Handlers, QuietStep(h)
    PROVE  TypeOK'
<1> USE PcFacts
<1>0. local[h] \in Locals /\ head \in Optional /\ LocalsFit(h)
  BY DEF TypeOK, Optional
<1>prev. ASSUME NEW r \in DOMAIN runs PROVE runs[r].previous \in Optional
  <2>1. runs[r] \in Runs
    BY DEF TypeOK
  <2>2. QED
    BY <2>1 DEF Runs
<1>target. pc[h] \in {"idle", "checking", "history"} \/ local[h].op = "deploy"
         \/ local[h].target # None
  BY <1>0 DEF LocalsFit
<1>1. CASE CheckRunning(h)
  BY <1>1, <1>0, QuietType DEF CheckRunning, Goto, TypeOK
<1>2. CASE ReadHistory(h)
  <2>1. CASE Goto(h, "idle")
    BY <2>1, <1>0, <1>2, QuietType DEF ReadHistory, Goto, TypeOK
  <2>2. ASSUME NEW r \in DOMAIN runs, LatestReversible(r),
               Resume(h, "head", [local[h] EXCEPT !.target = runs[r].previous])
        PROVE  TypeOK'
    <3> DEFINE l == [local[h] EXCEPT !.target = runs[r].previous]
    <3>1. /\ l \in Locals /\ l.op = local[h].op /\ l.run = local[h].run
          /\ l.target # None
      BY <1>0, <1>prev, <2>2 DEF Locals, LatestReversible, Reversible
    <3> HIDE DEF l
    <3>2. Resume(h, "head", l)
      BY <2>2 DEF l
    <3>3. QED
      BY <3>1, <3>2, <1>2, QuietType DEF ReadHistory, TypeOK
  <2>3. QED
    BY <1>2, <2>1, <2>2 DEF ReadHistory
<1>3. CASE ReadCurrent(h)
  <2>1. CASE local[h].op = "preview"
    <3>1. offers' \subseteq Commits
      BY <1>3, <1>0, <2>1 DEF ReadCurrent, TypeOK, Locals, Optional, LocalsFit
    <3>2. QED
      BY <3>1, <2>1, <1>0, <1>3, QuietType DEF ReadCurrent, Goto, TypeOK
  <2>2. CASE local[h].op # "preview"
    <3> DEFINE l == [local[h] EXCEPT !.previous = head]
    <3>1. /\ l \in Locals /\ l.op = local[h].op /\ l.run = local[h].run
          /\ l.op = "deploy" \/ l.target # None
      BY <1>0, <1>3 DEF Locals, LocalsFit, ReadCurrent
    <3> HIDE DEF l
    <3>2. Resume(h, "creating", l)
      BY <1>3, <2>2 DEF l, ReadCurrent
    <3>3. QED
      BY <3>1, <3>2, <2>2, <1>3, QuietType DEF ReadCurrent, TypeOK
  <2>3. QED
    BY <2>1, <2>2
<1>4. CASE ReadPrevious(h)
  <2>1. [local[h] EXCEPT !.previous = head] \in Locals
    BY <1>0 DEF Locals
  <2>2. QED
    BY <2>1, <1>0, <1>target, <1>4, QuietType DEF ReadPrevious, TypeOK, Locals
<1>5. CASE Checkout(h)
  BY <1>5, <1>0, <1>target, QuietType DEF Checkout, Goto, TypeOK, Locals, Optional, LocalsFit
<1>6. CASE Pull(h)
  BY <1>6, <1>0, <1>target, QuietType DEF Pull, Goto, TypeOK
<1>7. CASE ComposeUp(h)
  BY <1>7, <1>0, <1>target, QuietType DEF ComposeUp, Goto, TypeOK
<1>8. CASE ProbeHealthy(h)
  BY <1>8, <1>0, <1>target, QuietType DEF ProbeHealthy, Goto, TypeOK
<1>9. CASE ReadDeployed(h)
  <2>1. [local[h] EXCEPT !.deployed = head] \in Locals
    BY <1>0 DEF Locals
  <2>2. QED
    BY <2>1, <1>0, <1>target, <1>9, QuietType DEF ReadDeployed, TypeOK, Locals
<1>10. CASE CommandFails(h)
  BY <1>10, <1>0, <1>target, QuietType DEF CommandFails, Goto, TypeOK
<1>11. QED
  BY <1>1, <1>2, <1>3, <1>4, <1>5, <1>6, <1>7, <1>8, <1>9, <1>10 DEF QuietStep

LEMMA CreateType ==
    ASSUME TypeOK, NEW h \in Handlers, CreateRun(h)
    PROVE  TypeOK'
<1> DEFINE l == [local[h] EXCEPT !.run = Len(runs) + 1]
           to == IF local[h].op = "deploy" THEN "reading" ELSE "checkout"
<1>1. l \in Locals /\ l.op \in Ops /\ l.run = Len(runs) + 1 /\ Resume(h, to, l)
  <2>1. local[h] \in Locals /\ Len(runs) + 1 \in Nat
    BY DEF TypeOK
  <2>2. l \in Locals /\ l.op = local[h].op /\ l.run = Len(runs) + 1
    BY <2>1 DEF Locals
  <2>3. pc[h] = "creating" /\ LocalsFit(h) /\ Resume(h, to, l)
    BY DEF CreateRun, TypeOK
  <2>4. local[h].op \in Ops
    BY <2>1, <2>3 DEF LocalsFit, Locals
  <2>5. QED
    BY <2>2, <2>3, <2>4
<1>2. to \in Pcs /\ to \in WorkPcs
  BY PcFacts
<1>target. l.op = "deploy" \/ l.target # None
  BY <1>1 DEF CreateRun, TypeOK, LocalsFit, Locals
<1>3. /\ runs' \in Seq(Runs) /\ Len(runs') <= MaxRuns
      /\ liveAt' \in Seq(Commits) /\ Len(liveAt') = Len(runs')
      /\ DOMAIN runs' = DOMAIN runs \cup {Len(runs) + 1}
  BY InsertType DEF CreateRun
<1> HIDE DEF l, to
<1>4. QED
  BY <1>1, <1>2, <1>target, <1>3, ResumeType DEF CreateRun, Insert, TypeOK

LEMMA SettleType ==
    ASSUME TypeOK, NEW h \in Handlers, Succeed(h) \/ RecordFailure(h)
    PROVE  TypeOK'
<1>1. "idle" \in Pcs /\ Goto(h, "idle") /\ pc[h] # "idle" /\ local[h] \in Locals
  BY PcFacts DEF Succeed, RecordFailure, TypeOK
<1>2. /\ runs' \in Seq(Runs) /\ Len(runs') = Len(runs) /\ DOMAIN runs' = DOMAIN runs
      /\ clock' \in Nat /\ liveAt' = liveAt
  BY WriteSuccessType, WriteFailureType
     DEF Succeed, RecordFailure, WriteSuccess, WriteFailure
<1>3. QED
  BY <1>1, <1>2, MoveType DEF Succeed, RecordFailure, Goto, TypeOK

LEMMA DatabaseFailsType ==
    ASSUME TypeOK, NEW h \in Handlers, DatabaseFails(h)
    PROVE  TypeOK'
<1>1. faults' \in 0..MaxFaults
  BY DeploymentConstants DEF DatabaseFails, TypeOK
<1>2. PICK to \in {"idle", "failing"} :
         Goto(h, to) /\ (to = "idle" \/ pc[h] = "succeeding")
  BY DEF DatabaseFails
<1>3. /\ to \in Pcs /\ pc[h] # "idle" /\ local[h] \in Locals /\ local[h].op \in Ops
      /\ to = "idle" \/ local[h].op = "deploy" \/ local[h].target # None
  BY <1>2, PcFacts DEF DatabaseFails, TypeOK, LocalsFit
<1>4. CASE UNCHANGED table
  BY <1>1, <1>2, <1>3, <1>4, MoveType, PcFacts DEF DatabaseFails, Goto, TypeOK
<1>5. CASE pc[h] = "creating" /\ Insert
  <2>1. to = "idle" /\ DOMAIN runs \subseteq DOMAIN runs' /\ "idle" \notin WorkPcs
    BY <1>2, <1>5, InsertType, PcFacts
  <2>2. QED
    BY <2>1, <1>1, <1>2, <1>3, <1>5, InsertType, ResumeType
       DEF DatabaseFails, Insert, Goto, TypeOK
<1>6. CASE pc[h] = "succeeding" /\ WriteSuccess(h)
  BY <1>1, <1>2, <1>3, <1>6, WriteSuccessType, MoveType, PcFacts
     DEF DatabaseFails, WriteSuccess, Goto, TypeOK
<1>7. QED
  BY <1>4, <1>5, <1>6 DEF DatabaseFails

\* A handler's step is one of the kinds above.
LEMMA AdvanceKinds ==
    ASSUME NEW h \in Handlers, Advance(h)
    PROVE  QuietStep(h) \/ CreateRun(h) \/ Succeed(h) \/ RecordFailure(h) \/ DatabaseFails(h)
BY DEF Advance, QuietStep

LEMMA OutsideType ==
    ASSUME TypeOK, (\E c \in Commits : Discard(c)) \/ CrashAndRestart \/ Push
    PROVE  TypeOK'
<1>1. CASE \E c \in Commits : Discard(c)
  BY <1>1 DEF Discard, TypeOK, LocalsFit
<1>2. CASE CrashAndRestart
  BY <1>2, PcFacts, BlankType, DeploymentConstants DEF CrashAndRestart, TypeOK, LocalsFit
<1>3. CASE Push
  BY <1>3, DeploymentConstants DEF Push, TypeOK, Commits, LocalsFit
<1>4. QED
  BY <1>1, <1>2, <1>3

LEMMA NextType == TypeOK /\ [Next]_vars => TypeOK'
<1> SUFFICES ASSUME TypeOK, [Next]_vars PROVE TypeOK'
  OBVIOUS
<1>1. ASSUME NEW h \in Handlers, Start(h) PROVE TypeOK'
  BY <1>1, StartType
<1>2. ASSUME NEW h \in Handlers, Advance(h) PROVE TypeOK'
  BY <1>2, AdvanceKinds, QuietStepType, CreateType, SettleType, DatabaseFailsType
<1>3. CASE (\E c \in Commits : Discard(c)) \/ CrashAndRestart \/ Push
  BY <1>3, OutsideType
<1>4. CASE UNCHANGED vars
  BY <1>4 DEF vars, TypeOK, LocalsFit
<1>5. QED
  BY <1>1, <1>2, <1>3, <1>4 DEF Next

\* Every variable of the deployment flow stays in its type.
THEOREM TypeCorrect == Spec => []TypeOK
BY InitType, NextType, PTL DEF Spec

-----------------------------------------------------------------------------
(* An orphaned run blocks its target.                                        *)

\* A step of handler h leaves the other handlers where they are.
LEMMA ResumeFrame ==
    ASSUME TypeOK, NEW h \in Handlers, NEW to, NEW l, Resume(h, to, l)
    PROVE  /\ pc'[h] = to /\ local'[h] = (IF to = "idle" THEN Blank ELSE l)
           /\ \A g \in Handlers : g # h => pc'[g] = pc[g] /\ local'[g] = local[g]
BY DEF TypeOK, Resume

LEMMA PreviewsInit == Init => PreviewsOnlyRead
BY DeploymentConstants DEF Init, PreviewsOnlyRead, Blank

\* A preview is never past its two reads: it neither takes the lock nor works.
LEMMA PreviewsNext ==
    ASSUME TypeOK, PreviewsOnlyRead, [Next]_vars
    PROVE  PreviewsOnlyRead'
<1>1. Blank.op # "preview"
  BY DeploymentConstants DEF Blank
<1>2. ASSUME NEW h \in Handlers, NEW to, NEW l, Resume(h, to, l),
             to = "idle" \/ (l.op = "preview" => to \in {"history", "head"})
      PROVE  PreviewsOnlyRead'
  BY <1>1, <1>2, ResumeFrame DEF PreviewsOnlyRead
<1>3. ASSUME NEW h \in Handlers, Start(h) PROVE PreviewsOnlyRead'
  <2>1. \A c : /\ [Blank EXCEPT !.op = "deploy"].op # "preview"
               /\ [Blank EXCEPT !.op = "rollback"].op # "preview"
    BY DEF Blank
  <2>2. QED
    BY <1>2, <1>3, <2>1 DEF Start
<1>4. ASSUME NEW h \in Handlers, Advance(h) PROVE PreviewsOnlyRead'
  <2>0. /\ local[h] \in Locals
        /\ local[h].op = "preview" => pc[h] \in {"history", "head"}
    BY DEF TypeOK, PreviewsOnlyRead
  <2>1. CASE CheckRunning(h)
    BY <2>0, <2>1, <1>2 DEF CheckRunning, Goto
  <2>2. CASE ReadHistory(h)
    <3>1. CASE Goto(h, "idle")
      BY <3>1, <1>2 DEF Goto
    <3>2. ASSUME NEW r, Resume(h, "head", [local[h] EXCEPT !.target = runs[r].previous])
          PROVE  PreviewsOnlyRead'
      BY <3>2, <1>2
    <3>3. QED
      BY <2>2, <3>1, <3>2 DEF ReadHistory
  <2>3. CASE ReadCurrent(h)
    <3>1. CASE local[h].op = "preview"
      BY <2>3, <3>1, <1>2 DEF ReadCurrent, Goto
    <3>2. CASE local[h].op # "preview"
      <4>1. [local[h] EXCEPT !.previous = head].op = local[h].op
        BY <2>0 DEF Locals
      <4>2. QED
        BY <2>3, <3>2, <4>1, <1>2 DEF ReadCurrent
    <3>3. QED
      BY <3>1, <3>2
  <2>4. CASE CreateRun(h)
    <3>1. [local[h] EXCEPT !.run = Len(runs) + 1].op = local[h].op
      BY <2>0 DEF Locals
    <3>2. QED
      BY <2>0, <2>4, <3>1, <1>2 DEF CreateRun
  <2>5. CASE ReadPrevious(h)
    <3>1. [local[h] EXCEPT !.previous = head].op = local[h].op
      BY <2>0 DEF Locals
    <3>2. QED
      BY <2>0, <2>5, <3>1, <1>2 DEF ReadPrevious
  <2>6. CASE ReadDeployed(h)
    <3>1. [local[h] EXCEPT !.deployed = head].op = local[h].op
      BY <2>0 DEF Locals
    <3>2. QED
      BY <2>0, <2>6, <3>1, <1>2 DEF ReadDeployed
  <2>7. CASE Checkout(h) \/ Pull(h) \/ ComposeUp(h) \/ ProbeHealthy(h)
    BY <2>0, <2>7, <1>2 DEF Checkout, Pull, ComposeUp, ProbeHealthy, Goto
  <2>8. CASE Succeed(h) \/ RecordFailure(h)
    BY <2>8, <1>2 DEF Succeed, RecordFailure, Goto
  <2>9. CASE CommandFails(h)
    BY <2>0, <2>9, <1>2, PcFacts DEF CommandFails, Goto
  <2>10. CASE DatabaseFails(h)
    BY <2>0, <2>10, <1>2 DEF DatabaseFails, Goto
  <2>11. QED
    BY <1>4, <2>1, <2>2, <2>3, <2>4, <2>5, <2>6, <2>7, <2>8, <2>9, <2>10 DEF Advance
<1>5. CASE (\E c \in Commits : Discard(c)) \/ Push \/ UNCHANGED vars
  BY <1>5 DEF Discard, Push, vars, PreviewsOnlyRead
<1>6. CASE CrashAndRestart
  BY <1>6, <1>1 DEF CrashAndRestart, PreviewsOnlyRead
<1>7. QED
  BY <1>3, <1>4, <1>5, <1>6 DEF Next

\* While a run is orphaned and nobody is past the check, a handler only checks,
\* prepares a preview or ends.
LEMMA OrphanStep ==
    ASSUME TypeOK, PreviewsOnlyRead, Orphaned, [Next]_vars
    PROVE  /\ UNCHANGED <<tree, stack, runs>>
           /\ \A h \in Handlers : local'[h].run = 0
           /\ \A h \in Handlers : pc'[h] \in {"idle", "checking"} \/ local'[h].op = "preview"
<1>0. \A h \in Handlers :
         /\ \/ pc[h] \in {"idle", "checking"}
            \/ local[h].op = "preview" /\ pc[h] \in {"history", "head"}
         /\ local[h].run = 0 /\ local[h] \in Locals
  <2> SUFFICES ASSUME NEW h \in Handlers
               PROVE  /\ \/ pc[h] \in {"idle", "checking"}
                         \/ local[h].op = "preview" /\ pc[h] \in {"history", "head"}
                      /\ local[h].run = 0 /\ local[h] \in Locals
    OBVIOUS
  <2>1. \/ pc[h] \in {"idle", "checking"}
        \/ local[h].op = "preview" /\ pc[h] \in {"history", "head"}
    BY DEF Orphaned, PreviewsOnlyRead
  <2>2. pc[h] \notin WorkPcs
    BY <2>1, PcFacts
  <2>3. QED
    BY <2>1, <2>2 DEF TypeOK, LocalsFit
<1>1. ASSUME NEW h \in Handlers, NEW to, NEW l, Resume(h, to, l), l.run = 0 \/ to = "idle",
             to \in {"idle", "checking"} \/ l.op = "preview"
      PROVE  \A g \in Handlers :
                /\ local'[g].run = 0
                /\ pc'[g] \in {"idle", "checking"} \/ local'[g].op = "preview"
  BY <1>0, <1>1, ResumeFrame, BlankType
<1>2. ASSUME NEW h \in Handlers, Start(h)
      PROVE  /\ UNCHANGED <<tree, stack, runs>>
             /\ \A g \in Handlers :
                   /\ local'[g].run = 0
                   /\ pc'[g] \in {"idle", "checking"} \/ local'[g].op = "preview"
  <2>1. \A c : /\ [Blank EXCEPT !.op = "deploy"].run = 0
               /\ [Blank EXCEPT !.op = "rollback"].run = 0
               /\ [Blank EXCEPT !.op = "preview"].run = 0
               /\ [Blank EXCEPT !.op = "preview"].op = "preview"
    BY DEF Blank
  <2>2. QED
    BY <1>1, <1>2, <2>1 DEF Start
<1>3. ASSUME NEW h \in Handlers, Advance(h)
      PROVE  /\ UNCHANGED <<tree, stack, runs>>
             /\ \A g \in Handlers :
                   /\ local'[g].run = 0
                   /\ pc'[g] \in {"idle", "checking"} \/ local'[g].op = "preview"
  <2>1. CASE CheckRunning(h)
    <3>1. Running # {}
      BY DEF Orphaned
    <3>2. QED
      BY <1>0, <1>1, <2>1, <3>1 DEF CheckRunning, Goto
  <2>2. CASE ReadHistory(h)
    <3>1. CASE Goto(h, "idle")
      BY <2>2, <3>1, <1>1 DEF ReadHistory, Goto
    <3>2. ASSUME NEW r, Resume(h, "head", [local[h] EXCEPT !.target = runs[r].previous])
          PROVE  \A g \in Handlers :
                    /\ local'[g].run = 0
                    /\ pc'[g] \in {"idle", "checking"} \/ local'[g].op = "preview"
      <4> DEFINE l == [local[h] EXCEPT !.target = runs[r].previous]
      <4>1. l.run = 0 /\ l.op = "preview"
        BY <1>0, <2>2 DEF ReadHistory, Locals
      <4> HIDE DEF l
      <4>2. QED
        BY <3>2, <4>1, <1>1 DEF l
    <3>3. QED
      BY <2>2, <3>1, <3>2 DEF ReadHistory
  <2>3. CASE ReadCurrent(h)
    BY <1>0, <1>1, <2>3 DEF ReadCurrent, Goto
  <2>4. CASE CommandFails(h)
    BY <1>0, <1>1, <2>4, PcFacts DEF CommandFails, Goto
  <2>5. CASE DatabaseFails(h)
    BY <1>0, <1>1, <2>5 DEF DatabaseFails, Goto
  <2>6. pc[h] \notin WorkPcs \cup {"creating"}
    BY <1>0, PcFacts
  <2>7. QED
    BY <1>3, <2>1, <2>2, <2>3, <2>4, <2>5, <2>6, PcFacts
       DEF Advance, CreateRun, ReadPrevious, Checkout, Pull, ComposeUp, ProbeHealthy,
           ReadDeployed, Succeed, RecordFailure
<1>4. CASE (\E c \in Commits : Discard(c)) \/ Push \/ UNCHANGED vars
  BY <1>0, <1>4 DEF Discard, Push, vars
<1>5. CASE CrashAndRestart
  BY <1>5, BlankType DEF CrashAndRestart
<1>6. QED
  BY <1>2, <1>3, <1>4, <1>5 DEF Next

LEMMA OrphanedStays ==
    ASSUME TypeOK, PreviewsOnlyRead, Orphaned, [Next]_vars
    PROVE  Orphaned' /\ UNCHANGED <<tree, stack, runs>>
<1>1. PICK r \in Running : TRUE
  BY DEF Orphaned
<1>2. r \in Running' /\ r # 0
  BY OrphanStep DEF Running, TypeOK
<1>3. QED
  BY <1>2, OrphanStep DEF Orphaned

\* Whatever the number of handlers, a run orphaned by a crash or by a lost write
\* blocks its target for good.
THEOREM OrphanBlocks == Spec => OrphanBlocksForGood
<1>1. Init => TypeOK /\ PreviewsOnlyRead
  BY InitType, PreviewsInit
<1>2. TypeOK /\ PreviewsOnlyRead /\ [Next]_vars => (TypeOK /\ PreviewsOnlyRead)'
  BY NextType, PreviewsNext
<1>3. TypeOK /\ PreviewsOnlyRead /\ [Next]_vars
        => [Orphaned => Orphaned' /\ UNCHANGED <<tree, stack, runs>>]_vars
  BY OrphanedStays
<1>4. QED
  BY <1>1, <1>2, <1>3, PTL DEF Spec, OrphanBlocksForGood

-----------------------------------------------------------------------------
(* Any number of handlers: who keeps which row.                              *)

Others(h) == \A g \in Handlers \ {h} : pc'[g] = pc[g] /\ local'[g].run = local[g].run
RowsButOne(h) ==
    /\ DOMAIN runs' = DOMAIN runs
    /\ \A r \in DOMAIN runs : r # local[h].run => runs'[r] = runs[r]
RowInserted ==
    /\ DOMAIN runs' = DOMAIN runs \cup {Len(runs) + 1}
    /\ \A r \in DOMAIN runs : runs'[r] = runs[r]
Failed == faults' = faults + 1 /\ crashes' = crashes

\* What a step does to the rows and to the handler that keeps them.
Opens(h) ==
    /\ Others(h) /\ local[h].run = 0 /\ RowInserted
    /\ runs'[Len(runs) + 1].status = "RUNNING" /\ local'[h].run = Len(runs) + 1
    /\ UNCHANGED <<faults, crashes>>
OpensUnseen(h) == Others(h) /\ local[h].run = 0 /\ RowInserted /\ local'[h].run = 0 /\ Failed
Settles(h) ==
    /\ Others(h) /\ local[h].run \in DOMAIN runs /\ RowsButOne(h)
    /\ runs'[local[h].run].status # "RUNNING" /\ local'[h].run = 0
    /\ UNCHANGED <<faults, crashes>>
Wavers(h) ==
    /\ Others(h) /\ local[h].run \in DOMAIN runs /\ RowsButOne(h)
    /\ pc'[h] = "failing" /\ local'[h].run = local[h].run /\ Failed
Leaves(h) == Others(h) /\ runs' = runs /\ local'[h].run = 0 /\ Failed
Moves(h) ==
    /\ Others(h) /\ runs' = runs /\ local'[h].run = local[h].run
    /\ local[h].run # 0 => pc[h] # "failing"
    /\ UNCHANGED <<faults, crashes>>
Dies ==
    /\ runs' = runs /\ \A h \in Handlers : local'[h].run = 0
    /\ faults' = faults /\ crashes' = crashes + 1
Rests == UNCHANGED <<runs, pc, local, faults, crashes>>

Kinds ==
    \/ \E h \in Handlers : \/ Opens(h) \/ OpensUnseen(h) \/ Settles(h) \/ Wavers(h)
                           \/ Leaves(h) \/ Moves(h)
    \/ Dies \/ Rests

LEMMA RunIsARow ==
    ASSUME TypeOK, NEW h \in Handlers
    PROVE  /\ local[h] \in Locals /\ local[h].run \in DOMAIN runs \cup {0}
           /\ local[h].run # 0 <=> pc[h] \in WorkPcs
           /\ 0 \notin DOMAIN runs /\ Len(runs) + 1 \notin DOMAIN runs \cup {0}
BY DEF TypeOK, LocalsFit

LEMMA InsertRow ==
    ASSUME TypeOK, Insert
    PROVE  RowInserted /\ runs'[Len(runs) + 1].status = "RUNNING"
BY InsertType DEF Insert, TypeOK, RowInserted

LEMMA MoveKind ==
    ASSUME TypeOK, NEW h \in Handlers, NEW to, NEW l, Resume(h, to, l), to # "idle",
           l.run = local[h].run, pc[h] # "failing", runs' = runs,
           UNCHANGED <<faults, crashes>>
    PROVE  Kinds
BY ResumeFrame DEF Kinds, Moves, Others

\* A handler without a row returns.
LEMMA EndKind ==
    ASSUME TypeOK, NEW h \in Handlers, Goto(h, "idle"), local[h].run = 0,
           runs' = runs, UNCHANGED <<faults, crashes>>
    PROVE  Kinds
BY ResumeFrame, BlankType DEF Kinds, Moves, Others, Goto

LEMMA AdvanceKind ==
    ASSUME TypeOK, NEW h \in Handlers, Advance(h)
    PROVE  Kinds
<1>1. /\ local[h] \in Locals /\ local[h].run \in DOMAIN runs \cup {0}
      /\ local[h].run # 0 <=> pc[h] \in WorkPcs
      /\ 0 \notin DOMAIN runs
  BY RunIsARow
<1>2. CASE CheckRunning(h)
  BY <1>1, <1>2, PcFacts, MoveKind, EndKind DEF CheckRunning, Goto
<1>3. CASE ReadHistory(h)
  <2>1. CASE Goto(h, "idle")
    BY <1>1, <1>3, <2>1, PcFacts, EndKind DEF ReadHistory
  <2>2. ASSUME NEW r, Resume(h, "head", [local[h] EXCEPT !.target = runs[r].previous])
        PROVE  Kinds
    <3>1. [local[h] EXCEPT !.target = runs[r].previous].run = local[h].run
      BY <1>1 DEF Locals
    <3>2. QED
      BY <1>3, <2>2, <3>1, MoveKind DEF ReadHistory
  <2>3. QED
    BY <1>3, <2>1, <2>2 DEF ReadHistory
<1>4. CASE ReadCurrent(h)
  <2>1. CASE Goto(h, "idle")
    BY <1>1, <1>4, <2>1, PcFacts, EndKind DEF ReadCurrent
  <2>2. CASE Resume(h, "creating", [local[h] EXCEPT !.previous = head])
    <3>1. [local[h] EXCEPT !.previous = head].run = local[h].run
      BY <1>1 DEF Locals
    <3>2. QED
      BY <1>4, <2>2, <3>1, MoveKind DEF ReadCurrent
  <2>3. QED
    BY <1>4, <2>1, <2>2 DEF ReadCurrent
<1>5. CASE CreateRun(h)
  <2>1. local[h].run = 0 /\ Insert /\ UNCHANGED <<faults, crashes>>
    BY <1>1, <1>5, PcFacts DEF CreateRun
  <2>2. PICK to \in {"reading", "checkout"} :
             Resume(h, to, [local[h] EXCEPT !.run = Len(runs) + 1])
    BY <1>5 DEF CreateRun
  <2>3. [local[h] EXCEPT !.run = Len(runs) + 1].run = Len(runs) + 1
    BY <1>1 DEF Locals
  <2>4. Others(h) /\ local'[h].run = Len(runs) + 1
    <3> DEFINE l == [local[h] EXCEPT !.run = Len(runs) + 1]
    <3>1. Resume(h, to, l) /\ to # "idle" /\ l.run = Len(runs) + 1
      BY <2>2, <2>3
    <3> HIDE DEF l
    <3>2. local'[h] = l /\ \A g \in Handlers : g # h => pc'[g] = pc[g] /\ local'[g] = local[g]
      BY <3>1, ResumeFrame
    <3>3. QED
      BY <3>1, <3>2 DEF Others
  <2>5. QED
    BY <2>1, <2>4, InsertRow DEF Kinds, Opens
<1>6. CASE ReadPrevious(h)
  <2>1. [local[h] EXCEPT !.previous = head].run = local[h].run
    BY <1>1 DEF Locals
  <2>2. QED
    BY <1>6, <2>1, MoveKind DEF ReadPrevious
<1>7. CASE ReadDeployed(h)
  <2>1. [local[h] EXCEPT !.deployed = head].run = local[h].run
    BY <1>1 DEF Locals
  <2>2. QED
    BY <1>7, <2>1, MoveKind DEF ReadDeployed
<1>8. CASE Checkout(h) \/ Pull(h) \/ ComposeUp(h) \/ ProbeHealthy(h)
  BY <1>8, MoveKind DEF Checkout, Pull, ComposeUp, ProbeHealthy, Goto
<1>9. CASE Succeed(h)
  BY <1>1, <1>9, PcFacts, WriteSuccessType, ResumeFrame, BlankType
     DEF Succeed, Goto, Kinds, Settles, Others, RowsButOne
<1>10. CASE RecordFailure(h)
  BY <1>1, <1>10, PcFacts, WriteFailureType, ResumeFrame, BlankType
     DEF RecordFailure, Goto, Kinds, Settles, Others, RowsButOne
<1>11. CASE CommandFails(h)
  BY <1>1, <1>11, PcFacts, MoveKind, EndKind DEF CommandFails, Goto
<1>12. CASE DatabaseFails(h)
  <2>1. Failed
    BY <1>12 DEF DatabaseFails, Failed
  <2>2. CASE pc[h] \in {"checking", "history", "creating", "failing"} /\ Goto(h, "idle")
    <3>1. Others(h) /\ local'[h].run = 0
      BY <2>2, ResumeFrame, BlankType DEF Goto, Others
    <3>2. CASE runs' = runs
      BY <2>1, <3>1, <3>2 DEF Kinds, Leaves
    <3>3. CASE pc[h] = "creating" /\ Insert
      BY <1>1, <2>1, <3>1, <3>3, PcFacts, InsertRow DEF Kinds, OpensUnseen
    <3>4. QED
      BY <1>12, <2>2, <3>2, <3>3 DEF DatabaseFails
  <2>3. CASE pc[h] = "succeeding" /\ Goto(h, "failing")
    <3>1. Others(h) /\ local'[h].run = local[h].run /\ pc'[h] = "failing"
      BY <2>3, ResumeFrame DEF Goto, Others
    <3>2. local[h].run \in DOMAIN runs
      BY <1>1, <2>3, PcFacts
    <3>3. RowsButOne(h)
      BY <1>12, <2>3, WriteSuccessType DEF DatabaseFails, RowsButOne
    <3>4. QED
      BY <2>1, <3>1, <3>2, <3>3 DEF Kinds, Wavers
  <2>4. QED
    BY <1>12, <2>2, <2>3 DEF DatabaseFails
<1>13. QED
  BY <1>2, <1>3, <1>4, <1>5, <1>6, <1>7, <1>8, <1>9, <1>10, <1>11, <1>12 DEF Advance

LEMMA NextKinds ==
    ASSUME TypeOK, [Next]_vars
    PROVE  Kinds
<1>1. ASSUME NEW h \in Handlers, Start(h) PROVE Kinds
  <2>1. pc[h] = "idle" /\ local[h].run = 0 /\ runs' = runs /\ UNCHANGED <<faults, crashes>>
    BY <1>1, RunIsARow, PcFacts DEF Start
  <2>2. /\ [Blank EXCEPT !.op = "deploy"].run = 0
        /\ [Blank EXCEPT !.op = "rollback"].run = 0
        /\ [Blank EXCEPT !.op = "preview"].run = 0
    BY DEF Blank
  <2>3. QED
    BY <1>1, <2>1, <2>2, MoveKind DEF Start
<1>2. CASE (\E c \in Commits : Discard(c)) \/ Push \/ UNCHANGED vars
  BY <1>2 DEF Discard, Push, vars, Kinds, Rests
<1>3. CASE CrashAndRestart
  BY <1>3, BlankType DEF CrashAndRestart, Kinds, Dies
<1>4. QED
  BY <1>1, <1>2, <1>3, AdvanceKind DEF Next

LEMMA KeptInit == Init => RowsAreKept
BY BlankType DEF Init, RowsAreKept

LEMMA KeptStep ==
    ASSUME TypeOK, RowsAreKept, Kinds
    PROVE  RowsAreKept'
<1>1. \A g \in Handlers :
         /\ local[g].run \in DOMAIN runs \cup {0} /\ 0 \notin DOMAIN runs
         /\ Len(runs) + 1 \notin DOMAIN runs \cup {0}
  BY RunIsARow
<1>2. faults \in Nat
  BY DEF TypeOK
<1> USE DEF Others, RowsButOne, RowInserted, RowsAreKept, Running, Failed
<1>3. ASSUME NEW h \in Handlers, Opens(h) PROVE RowsAreKept'
  BY <1>1, <1>3 DEF Opens
<1>4. ASSUME NEW h \in Handlers, OpensUnseen(h) \/ Leaves(h) PROVE RowsAreKept'
  BY <1>1, <1>2, <1>4 DEF OpensUnseen, Leaves
<1>5. ASSUME NEW h \in Handlers, Settles(h) PROVE RowsAreKept'
  BY <1>1, <1>5 DEF Settles
<1>6. ASSUME NEW h \in Handlers, Wavers(h) PROVE RowsAreKept'
  BY <1>1, <1>2, <1>6 DEF Wavers
<1>7. ASSUME NEW h \in Handlers, Moves(h) PROVE RowsAreKept'
  BY <1>1, <1>7 DEF Moves
<1>8. CASE Dies \/ Rests
  BY <1>8 DEF Dies, Rests
<1>9. QED
  BY <1>3, <1>4, <1>5, <1>6, <1>7, <1>8 DEF Kinds

\* However runs overlap, fail and crash, one handler at most works on a row, and it leaves
\* it RUNNING until its verdict, unless a call failed (runDeployment, rollback).
THEOREM EveryRowHasItsHandler == Spec => []RowsAreKept
<1>1. TypeOK /\ RowsAreKept /\ [Next]_vars => RowsAreKept'
  BY NextKinds, KeptStep
<1>2. QED
  BY InitType, NextType, KeptInit, <1>1, PTL DEF Spec

LEMMA VerdictStep ==
    ASSUME TypeOK, Kinds, NEW r \in DOMAIN runs, Keepers(r) = {}
    PROVE  runs'[r] = runs[r] /\ Keepers(r)' = {}
<1>1. \A g \in Handlers : local[g].run # r
  BY DEF Keepers
<1>2. r # 0 /\ r # Len(runs) + 1
  BY DEF TypeOK
<1>3. runs'[r] = runs[r] /\ \A g \in Handlers : local'[g].run # r
  BY <1>1, <1>2
     DEF Kinds, Opens, OpensUnseen, Settles, Wavers, Leaves, Moves, Dies, Rests, Others,
         RowsButOne, RowInserted
<1>4. QED
  BY <1>3 DEF Keepers

\* However runs overlap, fail and crash, a row is written by the handler that inserted it
\* only, and by nobody once that handler is gone.
THEOREM VerdictsAreFinal == Spec => VerdictsStand
<1>1. TypeOK /\ [Next]_vars
        => [\A r \in DOMAIN runs :
              Keepers(r) = {} => runs'[r] = runs[r] /\ Keepers(r)' = {}]_vars
  BY NextKinds, VerdictStep
<1>2. QED
  BY <1>1, TypeCorrect, PTL DEF Spec, VerdictsStand

\* A row is orphaned by a failed call or by a crash.
LEMMA OrphansMade ==
    ASSUME TypeOK, RowsAreKept, Kinds
    PROVE  \/ Orphans' \subseteq Orphans /\ UNCHANGED <<faults, crashes>>
           \/ (\E r : Orphans' \subseteq Orphans \cup {r}) /\ Failed
           \/ /\ Orphans' \subseteq Orphans \cup {local[h].run : h \in Handlers}
              /\ faults' = faults /\ crashes' = crashes + 1
<1>1. \A g \in Handlers :
         /\ local[g].run \in DOMAIN runs \cup {0} /\ 0 \notin DOMAIN runs
         /\ Len(runs) + 1 \notin DOMAIN runs \cup {0}
  BY RunIsARow
<1> USE DEF Others, RowsButOne, RowInserted, Running, Orphans, Keepers
<1>2. ASSUME NEW h \in Handlers, Opens(h) \/ Settles(h) \/ Moves(h)
      PROVE  Orphans' \subseteq Orphans /\ UNCHANGED <<faults, crashes>>
  BY <1>1, <1>2 DEF Opens, Settles, Moves
<1>3. ASSUME NEW h \in Handlers, OpensUnseen(h)
      PROVE  Orphans' \subseteq Orphans \cup {Len(runs) + 1} /\ Failed
  BY <1>1, <1>3 DEF OpensUnseen
<1>4. ASSUME NEW h \in Handlers, Wavers(h) \/ Leaves(h)
      PROVE  Orphans' \subseteq Orphans \cup {local[h].run} /\ Failed
  BY <1>1, <1>4 DEF Wavers, Leaves
<1>5. CASE Dies
  BY <1>5 DEF Dies
<1>6. CASE Rests
  BY <1>6 DEF Rests
<1>7. QED
  BY <1>2, <1>3, <1>4, <1>5, <1>6 DEF Kinds

LEMMA OrphansStep ==
    ASSUME IsFiniteSet(Handlers), TypeOK, TypeOK', RowsAreKept, Kinds, OrphansArePaid
    PROVE  OrphansArePaid'
<1> DEFINE n == Cardinality(Handlers)
           held == {local[h].run : h \in Handlers}
<1>1. n \in Nat /\ IsFiniteSet(held) /\ Cardinality(held) \in Nat /\ Cardinality(held) <= n
  <2> DEFINE row == [h \in Handlers |-> local[h].run]
  <2>1. row \in Surjection(Handlers, held)
    BY DEF Surjection
  <2>2. IsFiniteSet(held) /\ Cardinality(held) <= n
    BY <2>1, FS_Surjection
  <2>3. QED
    BY <2>2, FS_CardinalityType
<1>2. IsFiniteSet(Orphans) /\ Cardinality(Orphans) \in Nat
  <2>1. Len(runs) \in Nat /\ Orphans \subseteq 1..Len(runs)
    <3>1. runs \in Seq(Runs)
      BY DEF TypeOK
    <3>2. Len(runs) \in Nat /\ DOMAIN runs = 1..Len(runs)
      BY <3>1
    <3>3. Orphans \subseteq DOMAIN runs
      BY DEF Orphans, Running
    <3>4. QED
      BY <3>2, <3>3
  <2>2. IsFiniteSet(1..Len(runs))
    BY <2>1, FS_Interval
  <2>3. QED
    BY <2>1, <2>2, FS_Subset, FS_CardinalityType
<1>3. faults \in Nat /\ crashes \in Nat
  BY DEF TypeOK
<1>4. crashes * n \in Nat /\ (crashes + 1) * n = crashes * n + n
  BY <1>1, <1>3
<1>5. Cardinality(Orphans) <= faults + crashes * n
  BY DEF OrphansArePaid
<1> HIDE DEF n, held
<1>6. CASE Orphans' \subseteq Orphans /\ UNCHANGED <<faults, crashes>>
  <2>1. Cardinality(Orphans') <= Cardinality(Orphans) /\ Cardinality(Orphans') \in Nat
    BY <1>2, <1>6, FS_Subset, FS_CardinalityType
  <2>2. Cardinality(Orphans') <= faults' + crashes' * n
    BY <1>2, <1>3, <1>4, <1>5, <1>6, <2>1
  <2>3. QED
    BY <2>2 DEF OrphansArePaid, n
<1>7. ASSUME NEW r, Orphans' \subseteq Orphans \cup {r}, Failed PROVE OrphansArePaid'
  <2>1. /\ IsFiniteSet(Orphans \cup {r})
        /\ Cardinality(Orphans \cup {r}) \in Nat
        /\ Cardinality(Orphans \cup {r}) <= Cardinality(Orphans) + 1
    <3>1. /\ IsFiniteSet(Orphans \cup {r})
          /\ \/ Cardinality(Orphans \cup {r}) = Cardinality(Orphans)
             \/ Cardinality(Orphans \cup {r}) = Cardinality(Orphans) + 1
      BY <1>2, FS_AddElement
    <3>2. QED
      BY <1>2, <3>1
  <2>2. Cardinality(Orphans') <= Cardinality(Orphans \cup {r}) /\ Cardinality(Orphans') \in Nat
    BY <1>7, <2>1, FS_Subset, FS_CardinalityType
  <2>3. crashes' * n = crashes * n /\ faults' = faults + 1
    BY <1>7 DEF Failed
  <2>4. Cardinality(Orphans') <= faults' + crashes' * n
    BY <1>2, <1>3, <1>4, <1>5, <2>1, <2>2, <2>3
  <2>5. QED
    BY <2>4 DEF OrphansArePaid, n
<1>8. CASE Orphans' \subseteq Orphans \cup held /\ faults' = faults /\ crashes' = crashes + 1
  <2>1. /\ IsFiniteSet(Orphans \cup held)
        /\ Cardinality(Orphans \cup held) \in Nat
        /\ Cardinality(Orphans \cup held) <= Cardinality(Orphans) + Cardinality(held)
    <3>1. IsFiniteSet(Orphans \cap held) /\ Cardinality(Orphans \cap held) \in Nat
      BY <1>1, <1>2, FS_Intersection, FS_CardinalityType
    <3>2. /\ IsFiniteSet(Orphans \cup held)
          /\ Cardinality(Orphans \cup held)
               = Cardinality(Orphans) + Cardinality(held) - Cardinality(Orphans \cap held)
      BY <1>1, <1>2, FS_Union
    <3>3. QED
      BY <1>1, <1>2, <3>1, <3>2, FS_CardinalityType
  <2>2. Cardinality(Orphans') <= Cardinality(Orphans \cup held) /\ Cardinality(Orphans') \in Nat
    BY <1>8, <2>1, FS_Subset, FS_CardinalityType
  <2>3. crashes' * n = crashes * n + n /\ faults' = faults
    BY <1>4, <1>8
  <2>4. Cardinality(Orphans') <= faults' + crashes' * n
    BY <1>1, <1>2, <1>3, <1>4, <1>5, <2>1, <2>2, <2>3
  <2>5. QED
    BY <2>4 DEF OrphansArePaid, n
<1>9. QED
  BY <1>6, <1>7, <1>8, OrphansMade DEF held

\* However runs overlap, no more rows are left RUNNING behind their handlers than calls
\* failed, and crashes cut handlers short.
THEOREM OrphansAreCounted ==
    ASSUME IsFiniteSet(Handlers)
    PROVE  Spec => []OrphansArePaid
<1>1. Init => OrphansArePaid
  <2> SUFFICES ASSUME Init PROVE OrphansArePaid
    OBVIOUS
  <2>1. Orphans = {} /\ faults = 0 /\ crashes = 0
    BY DEF Init, Orphans, Running
  <2>2. Cardinality(Orphans) = 0 /\ Cardinality(Handlers) \in Nat
    BY <2>1, FS_EmptySet, FS_CardinalityType
  <2>3. QED
    BY <2>1, <2>2 DEF OrphansArePaid
<1>2. TypeOK /\ TypeOK' /\ RowsAreKept /\ OrphansArePaid /\ [Next]_vars => OrphansArePaid'
  BY NextKinds, OrphansStep
<1>3. QED
  BY <1>1, <1>2, TypeCorrect, EveryRowHasItsHandler, PTL DEF Spec

-----------------------------------------------------------------------------
(* The lock, with any number of handlers, as long as none slips through it,  *)
(* and what the table tells.                                                 *)

\* What the invariant says of the table and the world, and of a handler.
TableSound ==
    /\ Running \subseteq {Len(runs)}
    /\ Settled => stack = runs[Len(runs)].deployed /\ head = runs[Len(runs)].deployed
SeqAt(h) ==
    /\ h \in Admitted => Running = {}
    /\ pc[h] \in TryPcs => local[h].run = Len(runs) /\ Len(runs) \in Running
    /\ pc[h] \in {"probing", "verifying", "succeeding"} => stack = head
    /\ pc[h] = "succeeding" => local[h].deployed = head
SeqInv ==
    /\ TableSound
    /\ \A g, h \in Busy : g = h
    /\ \A h \in Handlers : SeqAt(h)

LEMMA SeqParts == LockIsHeld /\ BuiltFromHead /\ RecordTellsLive <=> (~raced => SeqInv)
BY DEF LockIsHeld, BuiltFromHead, RecordTellsLive, SeqInv, TableSound, SeqAt

\* The rows of the table.
LEMMA TableFacts ==
    ASSUME TypeOK
    PROVE  /\ Len(runs) \in Nat /\ DOMAIN runs = 1..Len(runs)
           /\ Running \subseteq 1..Len(runs)
           /\ Running \cap Reversible = {}
BY DEF TypeOK, Running, Reversible

\* The places where the lock matters.
LEMMA BusyFacts ==
    /\ TryPcs = WorkPcs \ {"failing"}
    /\ \A h \in Handlers :
          h \in Busy => pc[h] \in TryPcs \cup {"history", "head", "creating"}
    /\ \A h \in Handlers :
          h \in Admitted <=> /\ pc[h] \in {"history", "head", "creating"}
                             /\ local[h].op # "preview"
BY PcFacts DEF TryPcs, Busy, Admitted

\* A handler that is not busy claims nothing.
LEMMA RestAt ==
    ASSUME NEW h \in Handlers, h \notin Busy
    PROVE  SeqAt(h)
BY DEF SeqAt, Busy, TryPcs, CommandPcs

LEMMA RestAtNext ==
    ASSUME NEW h \in Handlers, h \notin Busy'
    PROVE  SeqAt(h)'
BY DEF SeqAt, Busy, TryPcs, CommandPcs

\* An inserted row is the only RUNNING one if there was none.
LEMMA InsertTable ==
    ASSUME TypeOK, Running = {}, Insert
    PROVE  /\ Running' = {Len(runs')} /\ Len(runs') = Len(runs) + 1
           /\ Len(runs') \notin Reversible'
<1>1. /\ DOMAIN runs' = DOMAIN runs \cup {Len(runs) + 1} /\ Len(runs') = Len(runs) + 1
      /\ Len(runs) \in Nat /\ DOMAIN runs = 1..Len(runs)
  BY InsertType, TableFacts
<1>2. /\ \A q \in DOMAIN runs : runs'[q] = runs[q]
      /\ runs'[Len(runs) + 1].status = "RUNNING"
  BY <1>1 DEF Insert, TypeOK
<1>3. QED
  BY <1>1, <1>2 DEF Running, Reversible

\* A successful last row leaves none RUNNING if it was the only one.
LEMMA SucceedTable ==
    ASSUME TypeOK, NEW h \in Handlers, Running \subseteq {local[h].run},
           pc[h] = "succeeding", WriteSuccess(h)
    PROVE  /\ Running' = {} /\ Len(runs') = Len(runs)
           /\ runs'[local[h].run].deployed = local[h].deployed
BY WriteSuccessType DEF Running, Reversible

\* A failed row is neither RUNNING nor reversible, and the others stay.
LEMMA FailTable ==
    ASSUME TypeOK, NEW h \in Handlers, pc[h] = "failing", WriteFailure(h)
    PROVE  /\ Running' = Running \ {local[h].run} /\ Len(runs') = Len(runs)
           /\ Reversible' = Reversible \ {local[h].run}
           /\ DOMAIN runs' = DOMAIN runs /\ local[h].run \in DOMAIN runs
           /\ \A q \in DOMAIN runs : q # local[h].run => runs'[q] = runs[q]
BY WriteFailureType DEF Running, Reversible

LEMMA SeqInit == Init => SeqInv
<1> SUFFICES ASSUME Init PROVE SeqInv
  OBVIOUS
<1>1. Running = {} /\ Reversible = {}
  BY DEF Init, Running, Reversible
<1>2. \A h \in Handlers : h \notin Busy
  BY BusyFacts, PcFacts DEF Init
<1>3. Busy \subseteq Handlers
  BY DEF Busy
<1>4. \A h \in Handlers : SeqAt(h)
  BY <1>2, RestAt
<1>5. QED
  BY <1>1, <1>2, <1>3, <1>4 DEF SeqInv, TableSound, Settled

\* A step of handler h seen by the others: it must keep the table sound and its own
\* claims, and either it was the busy one, or it leaves the tree, the stack and what is
\* RUNNING or last to the one that is.
LEMMA SeqStep ==
    ASSUME TypeOK, SeqInv, NEW h \in Handlers,
           NEW to, NEW l, Resume(h, to, l),
           TableSound', SeqAt(h)',
           \/ h \in Busy
           \/ /\ UNCHANGED <<head, stack>> /\ Len(runs') = Len(runs)
              /\ Running' \subseteq Running
              /\ \A g \in Handlers \ {h} :
                    pc[g] \in TryPcs /\ Len(runs) \in Running => Len(runs) \in Running'
              /\ h \in Busy' => Busy = {}
    PROVE  SeqInv'
<1>1. \A g \in Handlers : g # h => pc'[g] = pc[g] /\ local'[g] = local[g]
  BY ResumeFrame
<1>2. \A g \in Handlers : g # h => (g \in Busy' <=> g \in Busy) /\ (g \in Admitted' <=> g \in Admitted)
  BY <1>1 DEF Busy, Admitted
<1>3. Busy' \subseteq Handlers /\ Busy \subseteq Handlers
  BY DEF Busy
<1>4. \A g, k \in Busy' : g = k
  BY <1>2, <1>3 DEF SeqInv
<1>5. ASSUME NEW g \in Handlers, g # h PROVE SeqAt(g)'
  <2>1. CASE h \in Busy
    BY <1>2, <1>5, <2>1, RestAtNext DEF SeqInv
  <2>2. CASE h \notin Busy
    <3>1. SeqAt(g)
      BY DEF SeqInv
    <3>2. QED
      BY <1>1, <1>2, <1>5, <2>2, <3>1 DEF SeqAt
  <2>3. QED
    BY <2>1, <2>2
<1>6. QED
  BY <1>4, <1>5 DEF SeqInv

\* A handler that is not busy and stays so, or finds nobody busy.
LEMMA ReadStep ==
    ASSUME TypeOK, SeqInv, NEW h \in Handlers,
           UNCHANGED <<runs, head, stack>>,
           NEW to \in Pcs, NEW l, Resume(h, to, l),
           to \notin TryPcs,
           \/ to \in {"idle", "checking", "failing"} \/ l.op = "preview"
           \/ Running = {} /\ (h \in Busy \/ Admitted = {})
    PROVE  SeqInv'
<1>1. pc'[h] = to /\ (to = "idle" \/ local'[h] = l)
  BY ResumeFrame
<1>2. Running' = Running /\ Reversible' = Reversible /\ Settled' = Settled
  BY DEF Running, Reversible, Settled
<1>3. TableSound'
  BY <1>2 DEF SeqInv, TableSound
<1>4. h \in Busy' => to \in {"history", "head", "creating"} /\ l.op # "preview"
  BY <1>1, PcFacts DEF Busy, Admitted, TryPcs
<1>5. h \in Busy' => Running = {} /\ (h \in Busy \/ Busy = {})
  <2>1. Running = {} => \A g \in Handlers : pc[g] \notin TryPcs
    BY DEF SeqInv, SeqAt
  <2>2. Running = {} /\ Admitted = {} => Busy = {}
    BY <2>1 DEF Busy
  <2>3. QED
    BY <1>4, <2>2
<1>6. SeqAt(h)'
  BY <1>1, <1>2, <1>5, PcFacts DEF SeqAt, Busy, TryPcs
<1>7. CASE h \in Busy
  BY <1>3, <1>6, <1>7, SeqStep
<1>8. CASE h \notin Busy
  BY <1>2, <1>3, <1>5, <1>6, <1>8, SeqStep
<1>9. QED
  BY <1>7, <1>8

\* A working handler that goes on in the try block or leaves it for the catch clause.
LEMMA WorkStep ==
    ASSUME TypeOK, SeqInv, NEW h \in Handlers, UNCHANGED runs,
           NEW to \in WorkPcs, NEW l, Resume(h, to, l),
           pc[h] \in TryPcs, l.run = local[h].run,
           to \in {"probing", "verifying", "succeeding"} => stack' = head',
           to = "succeeding" => l.deployed = head'
    PROVE  SeqInv'
<1>1. pc'[h] = to /\ local'[h] = l
  BY ResumeFrame, PcFacts
<1>2. Running' = Running /\ Reversible' = Reversible
  BY DEF Running, Reversible
<1>3. /\ local[h].run = Len(runs) /\ Len(runs) \in Running /\ Running \subseteq {Len(runs)}
      /\ h \in Busy
  BY DEF SeqInv, SeqAt, TableSound, Busy
<1>4. ~Settled'
  BY <1>2, <1>3, TableFacts DEF Settled
<1>5. TableSound' /\ SeqAt(h)'
  BY <1>1, <1>2, <1>3, <1>4, PcFacts DEF TableSound, SeqAt, Admitted
<1>6. QED
  BY <1>3, <1>5, SeqStep

LEMMA SeqStart ==
    ASSUME TypeOK, SeqInv, NEW h \in Handlers, Start(h)
    PROVE  SeqInv'
<1>1. UNCHANGED <<runs, head, stack>>
  BY DEF Start
<1>2. {"checking", "history"} \subseteq Pcs \ TryPcs
  BY PcFacts, BusyFacts
<1>3. [Blank EXCEPT !.op = "preview"].op = "preview"
  BY DEF Blank
<1>4. PICK to \in {"checking", "history"} :
         \E l : Resume(h, to, l) /\ (to = "checking" \/ l.op = "preview")
  BY <1>3 DEF Start
<1>5. PICK l : Resume(h, to, l) /\ (to = "checking" \/ l.op = "preview")
  BY <1>4
<1>6. QED
  BY <1>1, <1>2, <1>5, ReadStep

LEMMA SeqReads ==
    ASSUME TypeOK, SeqInv, NEW h \in Handlers, ~raced',
           \/ CheckRunning(h) \/ ReadHistory(h) \/ ReadCurrent(h)
           \/ pc[h] = "head" /\ CommandFails(h)
    PROVE  SeqInv'
<1>0. /\ local[h] \in Locals /\ UNCHANGED <<runs, head, stack>>
      /\ {"idle", "checking", "history", "head", "creating"} \subseteq Pcs \ TryPcs
  BY PcFacts, BusyFacts DEF TypeOK, CheckRunning, ReadHistory, ReadCurrent, CommandFails
<1>1. pc[h] \in {"history", "head"} => local[h].op = "preview" \/ (Running = {} /\ h \in Busy)
  BY DEF SeqInv, SeqAt, Admitted, Busy
<1>2. CASE CheckRunning(h)
  <2>1. CASE Running # {}
    BY <1>0, <1>2, <2>1, ReadStep DEF CheckRunning, Goto
  <2>2. CASE Running = {}
    <3>1. Admitted = {}
      BY <1>2, <2>2 DEF CheckRunning
    <3>2. PICK to \in {"history", "creating"} : Resume(h, to, local[h])
      BY <1>2, <2>2 DEF CheckRunning, Goto
    <3>3. QED
      BY <1>0, <2>2, <3>1, <3>2, ReadStep
  <2>3. QED
    BY <2>1, <2>2
<1>3. CASE ReadHistory(h)
  <2>1. CASE Goto(h, "idle")
    BY <1>0, <2>1, ReadStep DEF Goto
  <2>2. ASSUME NEW r, Resume(h, "head", [local[h] EXCEPT !.target = runs[r].previous])
        PROVE  SeqInv'
    <3> DEFINE l == [local[h] EXCEPT !.target = runs[r].previous]
    <3>1. l.op = local[h].op /\ Resume(h, "head", l)
      BY <1>0, <2>2 DEF Locals
    <3>2. l.op = "preview" \/ (Running = {} /\ h \in Busy)
      BY <1>1, <1>3, <3>1 DEF ReadHistory
    <3> HIDE DEF l
    <3>3. QED
      BY <1>0, <3>1, <3>2, ReadStep
  <2>3. QED
    BY <1>3, <2>1, <2>2 DEF ReadHistory
<1>4. CASE ReadCurrent(h)
  <2>1. CASE local[h].op = "preview"
    BY <1>0, <1>4, <2>1, ReadStep DEF ReadCurrent, Goto
  <2>2. CASE local[h].op # "preview"
    <3>1. Running = {} /\ h \in Busy
      BY <1>1, <1>4, <2>2 DEF ReadCurrent
    <3>2. Resume(h, "creating", [local[h] EXCEPT !.previous = head])
      BY <1>4, <2>2 DEF ReadCurrent
    <3>3. QED
      BY <1>0, <3>1, <3>2, ReadStep
  <2>3. QED
    BY <2>1, <2>2
<1>5. CASE pc[h] = "head" /\ CommandFails(h)
  BY <1>0, <1>5, ReadStep DEF CommandFails, Goto
<1>6. QED
  BY <1>2, <1>3, <1>4, <1>5

LEMMA SeqWorks ==
    ASSUME TypeOK, SeqInv, NEW h \in Handlers,
           \/ ReadPrevious(h) \/ Checkout(h) \/ Pull(h) \/ ComposeUp(h)
           \/ ProbeHealthy(h) \/ ReadDeployed(h)
           \/ pc[h] # "head" /\ CommandFails(h)
    PROVE  SeqInv'
<1> USE PcFacts DEF TryPcs
<1>0. local[h] \in Locals /\ SeqAt(h)
  BY DEF TypeOK, SeqInv
<1>1. CASE ReadPrevious(h)
  <2> DEFINE l == [local[h] EXCEPT !.previous = head]
  <2>1. l.run = local[h].run
    BY <1>0 DEF Locals
  <2> HIDE DEF l
  <2>2. QED
    BY <1>1, <2>1, WorkStep DEF l, ReadPrevious
<1>2. CASE Checkout(h) \/ Pull(h)
  BY <1>2, WorkStep DEF Checkout, Pull, Goto
<1>3. CASE ComposeUp(h)
  BY <1>3, WorkStep DEF ComposeUp, Goto
<1>4. CASE ProbeHealthy(h)
  <2>1. stack' = head'
    BY <1>0, <1>4 DEF ProbeHealthy, SeqAt
  <2>2. QED
    BY <1>4, <2>1, WorkStep DEF ProbeHealthy, Goto
<1>5. CASE ReadDeployed(h)
  <2> DEFINE l == [local[h] EXCEPT !.deployed = head]
  <2>1. l.run = local[h].run /\ l.deployed = head' /\ stack' = head'
    BY <1>0, <1>5 DEF Locals, ReadDeployed, SeqAt
  <2> HIDE DEF l
  <2>2. QED
    BY <1>5, <2>1, WorkStep DEF l, ReadDeployed
<1>6. CASE pc[h] # "head" /\ CommandFails(h)
  BY <1>6, WorkStep DEF CommandFails, Goto
<1>7. QED
  BY <1>1, <1>2, <1>3, <1>4, <1>5, <1>6

LEMMA SeqCreates ==
    ASSUME TypeOK, PreviewsOnlyRead, SeqInv, NEW h \in Handlers, pc[h] = "creating", Insert,
           UNCHANGED <<head, stack>>,
           \/ CreateRun(h)
           \/ Goto(h, "idle")
    PROVE  SeqInv'
<1>0. h \in Admitted /\ h \in Busy /\ Running = {}
  BY DEF PreviewsOnlyRead, Admitted, Busy, SeqInv, SeqAt
<1>1. /\ Running' = {Len(runs')} /\ Len(runs') = Len(runs) + 1
      /\ Len(runs') \notin Reversible'
  BY <1>0, InsertTable
<1>2. TableSound'
  BY <1>1 DEF TableSound, Settled
<1>3. CASE CreateRun(h)
  <2> DEFINE l == [local[h] EXCEPT !.run = Len(runs) + 1]
  <2>1. l.run = Len(runs')
    BY <1>1 DEF Locals, TypeOK
  <2>2. PICK to \in {"reading", "checkout"} : Resume(h, to, l)
    BY <1>3 DEF CreateRun
  <2> HIDE DEF l
  <2>3. pc'[h] = to /\ local'[h] = l
    BY <2>2, ResumeFrame
  <2>4. SeqAt(h)'
    BY <1>1, <2>1, <2>3 DEF SeqAt, Admitted
  <2>5. QED
    BY <1>0, <1>2, <2>2, <2>4, SeqStep
<1>4. CASE Goto(h, "idle")
  <2>1. Resume(h, "idle", local[h]) /\ pc'[h] = "idle"
    BY <1>4, ResumeFrame DEF Goto
  <2>2. h \notin Busy'
    BY <2>1, PcFacts DEF Busy, Admitted, TryPcs
  <2>3. QED
    BY <1>0, <1>2, <2>1, <2>2, RestAtNext, SeqStep
<1>5. QED
  BY <1>3, <1>4

\* The last write of a run that went well: its handler ends, or goes to the catch clause
\* although the row was written.
LEMMA SeqSucceeds ==
    ASSUME TypeOK, SeqInv, NEW h \in Handlers, UNCHANGED <<head, stack>>,
           NEW to \in {"idle", "failing"}, Goto(h, to),
           pc[h] = "succeeding", WriteSuccess(h)
    PROVE  SeqInv'
<1>1. /\ local[h].run = Len(runs) /\ Running \subseteq {local[h].run}
      /\ local[h].deployed = head /\ stack = head /\ h \in Busy
  BY DEF SeqInv, TableSound, SeqAt, TryPcs, Busy
<1>2. Running' = {} /\ Len(runs') = Len(runs) /\ runs'[Len(runs)].deployed = head
  BY <1>1, SucceedTable
<1>3. TableSound'
  BY <1>1, <1>2 DEF TableSound
<1>4. pc'[h] = to /\ Resume(h, to, local[h])
  BY ResumeFrame DEF Goto
<1>5. h \notin Busy'
  BY <1>4, PcFacts DEF Busy, Admitted, TryPcs
<1>6. QED
  BY <1>1, <1>3, <1>4, <1>5, RestAtNext, SeqStep

\* The catch clause: whichever row it writes, it is not the row of a handler at work.
LEMMA SeqFails ==
    ASSUME TypeOK, SeqInv, RowsAreKept, NEW h \in Handlers, UNCHANGED <<head, stack>>,
           Goto(h, "idle"), pc[h] = "failing", WriteFailure(h)
    PROVE  SeqInv'
<1>1. pc'[h] = "idle" /\ Resume(h, "idle", local[h])
  BY ResumeFrame DEF Goto
<1>2. h \notin Busy' /\ h \notin Busy
  BY <1>1, PcFacts DEF Busy, Admitted, TryPcs
<1>3. /\ Running' = Running \ {local[h].run} /\ Len(runs') = Len(runs)
      /\ Reversible' = Reversible \ {local[h].run}
      /\ DOMAIN runs' = DOMAIN runs /\ local[h].run \in DOMAIN runs
      /\ \A q \in DOMAIN runs : q # local[h].run => runs'[q] = runs[q]
  BY FailTable
<1>4. TableSound'
  <2>1. Settled' => Settled /\ runs'[Len(runs)] = runs[Len(runs)]
    BY <1>3 DEF Settled, Reversible
  <2>2. QED
    BY <1>3, <2>1 DEF SeqInv, TableSound
<1>5. ASSUME NEW g \in Handlers \ {h}, pc[g] \in TryPcs, Len(runs) \in Running
      PROVE  Len(runs) \in Running'
  <2>1. local[g].run = Len(runs)
    BY <1>5 DEF SeqInv, SeqAt
  <2>2. local[g].run # 0 /\ local[h].run # 0
    BY <1>3, <1>5, <2>1, TableFacts
  <2>3. local[g].run # local[h].run
    BY <1>5, <2>2 DEF RowsAreKept
  <2>4. QED
    BY <1>3, <1>5, <2>1, <2>3
<1>6. QED
  BY <1>1, <1>2, <1>3, <1>4, <1>5, RestAtNext, SeqStep

\* A crash: nobody is busy, and the table stays.
LEMMA SeqCrash ==
    ASSUME TypeOK, SeqInv, CrashAndRestart
    PROVE  SeqInv'
<1>1. \A h \in Handlers : pc'[h] = "idle"
  BY DEF CrashAndRestart
<1>2. Busy' = {}
  BY <1>1, PcFacts DEF Busy, Admitted, TryPcs
<1>3. TableSound'
  BY DEF SeqInv, TableSound, CrashAndRestart, Running, Reversible, Settled
<1>4. QED
  BY <1>2, <1>3, RestAtNext DEF SeqInv

LEMMA SeqDatabaseFails ==
    ASSUME TypeOK, PreviewsOnlyRead, RowsAreKept, SeqInv, NEW h \in Handlers, DatabaseFails(h)
    PROVE  SeqInv'
<1>1. UNCHANGED <<head, stack>> /\ "idle" \in Pcs \ TryPcs /\ "failing" \in WorkPcs
  BY PcFacts DEF DatabaseFails, TryPcs
<1>2. CASE pc[h] = "creating" /\ Insert
  BY <1>1, <1>2, SeqCreates DEF DatabaseFails
<1>3. CASE pc[h] = "succeeding" /\ WriteSuccess(h)
  BY <1>1, <1>3, SeqSucceeds DEF DatabaseFails
<1>4. CASE UNCHANGED table /\ pc[h] = "succeeding"
  BY <1>1, <1>4, WorkStep DEF DatabaseFails, Goto, TryPcs
<1>5. CASE UNCHANGED table /\ pc[h] # "succeeding"
  BY <1>1, <1>5, ReadStep DEF DatabaseFails, Goto
<1>6. QED
  BY <1>2, <1>3, <1>4, <1>5 DEF DatabaseFails

LEMMA SeqNext ==
    ASSUME TypeOK, PreviewsOnlyRead, RowsAreKept, SeqInv, [Next]_vars, ~raced'
    PROVE  SeqInv'
<1>1. ASSUME NEW h \in Handlers, Start(h) \/ Advance(h) PROVE SeqInv'
  <2>1. CASE Start(h)
    BY <2>1, SeqStart
  <2>2. CASE \/ CheckRunning(h) \/ ReadHistory(h) \/ ReadCurrent(h)
             \/ ReadPrevious(h) \/ Checkout(h) \/ Pull(h) \/ ComposeUp(h)
             \/ ProbeHealthy(h) \/ ReadDeployed(h) \/ CommandFails(h)
    BY <2>2, SeqReads, SeqWorks
  <2>3. CASE CreateRun(h)
    BY <2>3, SeqCreates DEF CreateRun
  <2>4. CASE Succeed(h)
    BY <2>4, SeqSucceeds DEF Succeed
  <2>5. CASE RecordFailure(h)
    BY <2>5, SeqFails DEF RecordFailure
  <2>6. CASE DatabaseFails(h)
    BY <2>6, SeqDatabaseFails
  <2>7. QED
    BY <1>1, <2>1, <2>2, <2>3, <2>4, <2>5, <2>6 DEF Advance
<1>2. CASE (\E c \in Commits : Discard(c)) \/ Push \/ UNCHANGED vars
  BY <1>2 DEF Discard, Push, vars, SeqInv, SeqAt, TableSound, Settled, Running, Reversible,
              Busy, Admitted
<1>3. CASE CrashAndRestart
  BY <1>3, SeqCrash
<1>4. QED
  BY <1>1, <1>2, <1>3 DEF Next

\* Once two handlers have been between the check and the insert, they have been.
LEMMA RacedStays == ASSUME TypeOK, [Next]_vars, ~raced' PROVE ~raced
<1>1. ASSUME NEW h \in Handlers, Advance(h) PROVE raced => raced'
  BY <1>1 DEF Advance, CheckRunning, ReadHistory, ReadCurrent, CreateRun, ReadPrevious,
     Checkout, Pull, ComposeUp, ProbeHealthy, ReadDeployed, Succeed, RecordFailure,
     CommandFails, DatabaseFails
<1>2. CASE (\E h \in Handlers : Start(h)) \/ (\E c \in Commits : Discard(c))
           \/ CrashAndRestart \/ Push \/ UNCHANGED vars
  BY <1>2 DEF Start, Discard, CrashAndRestart, Push, vars
<1>3. QED
  BY <1>1, <1>2 DEF Next

\* The inductive invariant holds in every reachable state.
LEMMA Inductive == Spec => []IInv
<1>1. Init => IInv
  BY InitType, PreviewsInit, KeptInit, SeqInit, SeqParts DEF IInv
<1>2. IInv /\ [Next]_vars => IInv'
  <2> SUFFICES ASSUME IInv, [Next]_vars PROVE IInv'
    OBVIOUS
  <2>1. TypeOK /\ PreviewsOnlyRead /\ RowsAreKept /\ (~raced => SeqInv)
    BY SeqParts DEF IInv
  <2>2. (TypeOK /\ PreviewsOnlyRead /\ RowsAreKept)'
    BY <2>1, NextType, PreviewsNext, NextKinds, KeptStep
  <2>3. ~raced' => SeqInv'
    BY <2>1, RacedStays, SeqNext
  <2>4. (LockIsHeld /\ BuiltFromHead /\ RecordTellsLive)'
    BY <2>3 DEF LockIsHeld, BuiltFromHead, RecordTellsLive, SeqInv, TableSound, SeqAt
  <2>5. QED
    BY <2>2, <2>4 DEF IInv
<1>3. QED
  BY <1>1, <1>2, PTL DEF Spec

\* For any number of overlapping handlers, crashes, lost writes and rows they orphan: two
\* RUNNING rows of one target, or two handlers at work on its tree and stack, take two
\* handlers between the check and the insert at once (ensureNoRunningDeployment, create).
THEOREM OnlyARaceBreaksTheLock == Spec => []TwoRunsTakeARace
<1>1. IInv => TwoRunsTakeARace
  BY DEF IInv, LockIsHeld, TwoRunsTakeARace, OneRunning, Busy, TryPcs
<1>2. QED
  BY <1>1, Inductive, PTL

\* As long as no two handlers slip through the check, a successful last row tells what is
\* live, however handlers overlap, fail and crash.
THEOREM TableTellsLive == Spec => []RecordTellsLive
<1>1. IInv => RecordTellsLive
  BY DEF IInv
<1>2. QED
  BY <1>1, Inductive, PTL

-----------------------------------------------------------------------------
(* A rollback restores what the last run replaced.                           *)

\* What the rows say, whoever is at work.
RowsAim == EndedInOrder /\ PreviousWasLive /\ RollbackRestoresLive

\* Places without a claim.
LEMMA RestAim ==
    ASSUME NEW h \in Handlers, h \notin Busy
    PROVE  Aimed(h)
BY DEF Aimed, Busy, Admitted, TryPcs, CommandPcs

LEMMA RestAimNext ==
    ASSUME NEW h \in Handlers,
           h \notin Busy' \/ pc'[h] \in {"idle", "checking", "history", "failing"}
    PROVE  Aimed(h)'
BY DEF Aimed, Busy, Admitted, TryPcs, CommandPcs

\* A table that stays.
LEMMA SameTable ==
    ASSUME UNCHANGED <<runs, clock, liveAt>>, RowsAim, ~raced,
           UNCHANGED <<head, stack>> \/ runs # <<>>
    PROVE  RowsAim' /\ \A n : AllReversible(n)' <=> AllReversible(n)
BY DEF RowsAim, EndedInOrder, PreviousWasLive, RollbackRestoresLive, AllReversible, Reversible

\* A table of which only the last row, m, is new.
LEMMA LastRow ==
    ASSUME TypeOK, RowsAim, ~raced, NEW m \in {Len(runs), Len(runs) + 1}, m # 0, Len(runs') = m,
           DOMAIN runs' = 1..m, clock' \in Nat, clock <= clock',
           \A q \in 1..(m - 1) : runs'[q] = runs[q] /\ liveAt'[q] = liveAt[q],
           runs'[m].finishedAt \in Nat, runs'[m].finishedAt <= clock',
           m \in Reversible' => clock < runs'[m].finishedAt,
           m \in Reversible' /\ AllReversible(m - 1) => runs'[m].previous = liveAt'[m],
           runs'[m].status = "ROLLED_BACK" /\ m > 1 /\ AllReversible(m - 1)
             => runs'[m].deployed = liveAt'[m - 1]
    PROVE  RowsAim' /\ (AllReversible(m - 1)' <=> AllReversible(m - 1))
<1>0. /\ Len(runs) \in Nat /\ m \in Nat \ {0} /\ (m = Len(runs) \/ m = Len(runs) + 1)
      /\ clock \in Nat /\ clock' \in Nat
  BY TableFacts DEF TypeOK
<1>a. m - 1 \in 0..(m - 1) /\ m \in 1..m /\ 1..(m - 1) \subseteq 1..m
  BY <1>0
<1>1. /\ Len(runs) \in Nat /\ DOMAIN runs = 1..Len(runs) /\ m \in Nat /\ m - 1 \in Nat
      /\ 1..(m - 1) \subseteq DOMAIN runs /\ 1..(m - 1) \subseteq DOMAIN runs'
      /\ m \in DOMAIN runs' /\ clock \in Nat
      /\ \A q \in DOMAIN runs' : q = m \/ q \in 1..(m - 1)
  BY TableFacts DEF TypeOK
<1>2. \A q \in 1..(m - 1) : q \in Reversible' <=> q \in Reversible
  BY <1>1 DEF Reversible
<1>3. \A n \in 0..(m - 1) : AllReversible(n)' <=> AllReversible(n)
  <2>1. ASSUME NEW n \in 0..(m - 1) PROVE AllReversible(n)' <=> AllReversible(n)
    <3>1. \A q \in 1..n : q \in 1..(m - 1)
      BY <1>0
    <3>2. QED
      BY <1>2, <3>1 DEF AllReversible
  <2>2. QED
    BY <2>1
<1>4. EndedInOrder'
  <2>1. \A q \in 1..(m - 1) : runs'[q].finishedAt \in Nat /\ runs'[q].finishedAt <= clock
    <3>1. ASSUME NEW q \in 1..(m - 1)
          PROVE  runs[q].finishedAt \in Nat /\ runs[q].finishedAt <= clock
      <4>1. q \in DOMAIN runs
        BY <1>1
      <4>2. runs[q] \in Runs
        BY <4>1 DEF TypeOK
      <4>3. QED
        BY <4>1, <4>2 DEF Runs, RowsAim, EndedInOrder
    <3>2. QED
      BY <3>1
  <2>2. \A q \in DOMAIN runs' : runs'[q].finishedAt <= clock'
    <3>1. ASSUME NEW q \in DOMAIN runs', q # m PROVE runs'[q].finishedAt <= clock'
      <4>1. q \in 1..(m - 1)
        BY <1>1, <3>1
      <4>2. runs'[q].finishedAt \in Nat /\ runs'[q].finishedAt <= clock
        BY <2>1, <4>1
      <4>3. clock \in Nat /\ clock' \in Nat /\ clock <= clock'
        BY <1>0
      <4>4. QED
        BY <4>2, <4>3
    <3>2. QED
      BY <3>1
  <2>3. ASSUME NEW q \in Reversible', NEW r \in Reversible', q < r
        PROVE  runs'[q].finishedAt < runs'[r].finishedAt
    <3>1. q \in DOMAIN runs' /\ r \in DOMAIN runs'
      BY DEF Reversible
    <3>2. q \in 1..(m - 1)
      BY <1>1, <2>3, <3>1
    <3>3. CASE r = m
      <4>1. clock < runs'[m].finishedAt
        BY <3>3
      <4>2. runs'[q].finishedAt \in Nat /\ runs'[q].finishedAt <= clock
        BY <2>1, <3>2
      <4>3. runs'[r].finishedAt \in Nat
        BY <3>3
      <4>4. QED
        BY <1>0, <3>3, <4>1, <4>2, <4>3
    <3>4. CASE r \in 1..(m - 1)
      BY <1>2, <2>3, <3>2, <3>4 DEF RowsAim, EndedInOrder
    <3>5. QED
      BY <1>1, <3>1, <3>3, <3>4
  <2>4. QED
    BY <2>2, <2>3 DEF EndedInOrder
<1>5. ASSUME NEW r \in DOMAIN runs', AllReversible(r)' PROVE runs'[r].previous = liveAt'[r]
  <2>1. CASE r = m
    <3>1. 1..m \subseteq Reversible'
      BY <1>5, <2>1 DEF AllReversible
    <3>2. m \in Reversible' /\ AllReversible(m - 1)'
      BY <1>a, <3>1 DEF AllReversible
    <3>3. QED
      BY <1>a, <1>3, <2>1, <3>2
  <2>2. CASE r \in 1..(m - 1)
    <3>1. r \in 0..(m - 1) /\ r \in DOMAIN runs
      <4>1. r \in 0..(m - 1)
        BY <1>0, <2>2
      <4>2. r \in DOMAIN runs
        BY <1>1, <2>2
      <4>3. QED
        BY <4>1, <4>2
    <3>2. AllReversible(r)
      BY <1>3, <1>5, <3>1
    <3>3. QED
      BY <2>2, <3>1, <3>2 DEF RowsAim, PreviousWasLive
  <2>3. QED
    BY <1>1, <2>1, <2>2
<1>6. RollbackRestoresLive'
  <2>1. ASSUME NEW r \in 2..m, runs'[r].status = "ROLLED_BACK",
               \A q \in 1..(r - 1) : q \in Reversible'
        PROVE  runs'[r].deployed = liveAt'[r - 1]
    <3>1. AllReversible(r - 1)' /\ r - 1 \in 0..(m - 1)
      <4>1. r - 1 \in 0..(m - 1)
        BY <1>0
      <4>2. QED
        BY <2>1, <4>1 DEF AllReversible
    <3>2. AllReversible(r - 1)
      BY <1>3, <3>1
    <3>3. CASE r = m
      BY <2>1, <3>2, <3>3
    <3>4. CASE r # m
      <4>1. r \in 1..(m - 1) /\ r - 1 \in 1..(m - 1) /\ r \in 2..Len(runs)
        BY <1>0, <3>4
      <4>2. \A q \in 1..(r - 1) : q \in Reversible
        BY <3>2 DEF AllReversible
      <4>3. QED
        BY <2>1, <4>1, <4>2 DEF RowsAim, RollbackRestoresLive
    <3>5. QED
      BY <3>3, <3>4
  <2>2. QED
    BY <2>1 DEF RollbackRestoresLive
<1>7. runs' # <<>>
  BY <1>0
<1>8. QED
  BY <1>a, <1>3, <1>4, <1>5, <1>6, <1>7 DEF RowsAim, PreviousWasLive

\* The step of a handler that leaves the table alone, seen through its claims.
LEMMA FlowStep ==
    ASSUME TypeOK, RowsAim, ~raced, NEW h \in Handlers, UNCHANGED <<runs, clock, liveAt>>,
           UNCHANGED <<head, stack>> \/ runs # <<>>,
           NEW to, NEW l, Resume(h, to, l), to # "idle",
           to \in TryPcs /\ AllReversible(Len(runs) - 1) =>
             IF to = "reading" THEN head' = liveAt[Len(runs)] ELSE l.previous = liveAt[Len(runs)],
           l.op = "rollback" =>
             /\ to \in {"head", "creating"} /\ AllReversible(Len(runs))
                  => l.target = liveAt[Len(runs)]
             /\ to = "creating" => l.previous = head'
             /\ to # "pulling"
             /\ to \in TryPcs /\ Len(runs) > 1 /\ AllReversible(Len(runs) - 1)
                  => l.target = liveAt[Len(runs) - 1]
             /\ to \in {"composing", "probing", "verifying"} => head' = l.target
             /\ to = "succeeding" => l.deployed = l.target
    PROVE  RowsAim' /\ Aimed(h)'
<1>1. pc'[h] = to /\ local'[h] = l
  BY ResumeFrame
<1>2. RowsAim' /\ \A n : AllReversible(n)' <=> AllReversible(n)
  BY SameTable
<1>3. QED
  BY <1>1, <1>2 DEF Aimed

\* Before the row exists: the rollback commit is read off the last row.
LEMMA AimReads ==
    ASSUME TypeOK, PreviewsOnlyRead, RowsAim, ~raced, NEW h \in Handlers, Aimed(h),
           Start(h) \/ CheckRunning(h) \/ ReadHistory(h) \/ ReadCurrent(h) \/ CommandFails(h)
    PROVE  RowsAim' /\ Aimed(h)'
<1>0. UNCHANGED <<runs, clock, liveAt, head, stack>> /\ local[h] \in Locals
  BY DEF Start, CheckRunning, ReadHistory, ReadCurrent, CommandFails, TypeOK
<1>1. RowsAim'
  BY <1>0, SameTable
<1>2. ASSUME pc'[h] \in {"idle", "checking", "history", "failing"} PROVE Aimed(h)'
  BY <1>2, RestAimNext
<1>3. CASE Start(h) \/ CommandFails(h)
  BY <1>1, <1>2, <1>3, ResumeFrame DEF Start, CommandFails, Goto
<1>4. CASE CheckRunning(h)
  <2>1. CASE Goto(h, "idle") \/ Goto(h, "history")
    BY <1>1, <1>2, <2>1, ResumeFrame DEF Goto
  <2>2. CASE local[h].op = "deploy" /\ Goto(h, "creating")
    BY <1>0, <2>2, FlowStep DEF Goto, TryPcs, CommandPcs
  <2>3. QED
    BY <1>4, <2>1, <2>2 DEF CheckRunning
<1>5. CASE ReadHistory(h)
  <2>1. CASE Goto(h, "idle")
    BY <1>1, <1>2, <2>1, ResumeFrame DEF Goto
  <2>2. ASSUME NEW r \in DOMAIN runs, LatestReversible(r),
               Resume(h, "head", [local[h] EXCEPT !.target = runs[r].previous])
        PROVE  Aimed(h)'
    <3> DEFINE l == [local[h] EXCEPT !.target = runs[r].previous]
    <3>1. l.target = runs[r].previous
      BY <1>0 DEF Locals
    <3>2. AllReversible(Len(runs)) => r = Len(runs)
      <4>1. SUFFICES ASSUME AllReversible(Len(runs)), r # Len(runs) PROVE FALSE
        OBVIOUS
      <4>2. r \in Reversible /\ Len(runs) \in Reversible /\ r < Len(runs)
        BY <2>2, <4>1, TableFacts DEF AllReversible, LatestReversible
      <4>3. runs[r].finishedAt < runs[Len(runs)].finishedAt
        <5>1. EndedInOrder
          BY DEF RowsAim
        <5>2. QED
          BY <4>2, <5>1 DEF EndedInOrder
      <4>4. runs[Len(runs)].finishedAt <= runs[r].finishedAt
        BY <2>2, <4>2 DEF LatestReversible
      <4>5. runs[r].finishedAt \in Nat /\ runs[Len(runs)].finishedAt \in Nat
        <5>1. \A q \in Reversible : runs[q] \in Runs
          BY DEF Reversible, TypeOK
        <5>2. QED
          BY <4>2, <5>1 DEF Runs
      <4>6. QED
        BY <4>3, <4>4, <4>5
    <3>3. AllReversible(Len(runs)) => l.target = liveAt[Len(runs)]
      BY <3>1, <3>2 DEF RowsAim, PreviousWasLive
    <3> HIDE DEF l
    <3>4. Resume(h, "head", l)
      BY <2>2 DEF l
    <3>5. QED
      BY <1>0, <3>3, <3>4, FlowStep DEF TryPcs, CommandPcs
  <2>3. QED
    BY <1>1, <1>5, <2>1, <2>2 DEF ReadHistory
<1>6. CASE ReadCurrent(h)
  <2>1. CASE Goto(h, "idle")
    BY <1>1, <1>2, <2>1, ResumeFrame DEF Goto
  <2>2. CASE Resume(h, "creating", [local[h] EXCEPT !.previous = head])
    <3> DEFINE l == [local[h] EXCEPT !.previous = head]
    <3>1. l.previous = head /\ l.target = local[h].target /\ l.op = local[h].op
      BY <1>0 DEF Locals
    <3> HIDE DEF l
    <3>2. Resume(h, "creating", l) /\ pc[h] = "head"
      BY <1>6, <2>2 DEF l, ReadCurrent
    <3>3. QED
      BY <1>0, <3>1, <3>2, FlowStep DEF Aimed, TryPcs, CommandPcs
  <2>3. QED
    BY <1>1, <1>6, <2>1, <2>2 DEF ReadCurrent
<1>7. QED
  BY <1>3, <1>4, <1>5, <1>6
\* Inside the try block: a rollback gets to the commit it aims at.
LEMMA AimWorks ==
    ASSUME TypeOK, RowsAim, ~raced, NEW h \in Handlers, Aimed(h), SeqAt(h),
           \/ ReadPrevious(h) \/ Checkout(h) \/ Pull(h) \/ ComposeUp(h)
           \/ ProbeHealthy(h) \/ ReadDeployed(h)
    PROVE  RowsAim' /\ Aimed(h)'
<1> USE DEF TryPcs, CommandPcs, Aimed
<1>0. /\ UNCHANGED <<runs, clock, liveAt>> /\ local[h] \in Locals
      /\ pc[h] \in WorkPcs \ {"failing"}
  BY PcFacts DEF ReadPrevious, Checkout, Pull, ComposeUp, ProbeHealthy, ReadDeployed, TypeOK
<1>1. runs # <<>>
  <2>1. Len(runs) \in Running
    BY <1>0, BusyFacts DEF SeqAt
  <2>2. QED
    BY <2>1, TableFacts
<1>2. CASE ReadPrevious(h)
  <2> DEFINE l == [local[h] EXCEPT !.previous = head]
  <2>1. l.previous = head /\ l.target = local[h].target /\ l.op = local[h].op
    BY <1>0 DEF Locals
  <2> HIDE DEF l
  <2>2. Resume(h, "checkout", l) /\ pc[h] = "reading"
    BY <1>2 DEF l, ReadPrevious
  <2>3. QED
    BY <1>0, <1>1, <2>1, <2>2, FlowStep
<1>3. CASE Checkout(h)
  <2>1. CASE local[h].op = "deploy"
    <3>1. pc[h] = "checkout" /\ Resume(h, "pulling", local[h])
      BY <1>3, <2>1 DEF Checkout, Goto
    <3>2. QED
      BY <1>0, <1>1, <2>1, <3>1, FlowStep
  <2>2. CASE local[h].op # "deploy"
    <3>1. pc[h] = "checkout" /\ Resume(h, "composing", local[h]) /\ head' = local[h].target
      BY <1>3, <2>2 DEF Checkout, Goto
    <3>2. QED
      BY <1>0, <1>1, <3>1, FlowStep
  <2>3. QED
    BY <2>1, <2>2
<1>4. CASE Pull(h)
  <2>1. pc[h] = "pulling" /\ Resume(h, "composing", local[h])
    BY <1>4 DEF Pull, Goto
  <2>2. QED
    BY <1>0, <1>1, <2>1, FlowStep
<1>5. CASE ComposeUp(h)
  <2>1. pc[h] = "composing" /\ Resume(h, "probing", local[h]) /\ head' = head
    BY <1>5 DEF ComposeUp, Goto
  <2>2. QED
    BY <1>0, <1>1, <2>1, FlowStep
<1>6. CASE ProbeHealthy(h)
  <2>1. pc[h] = "probing" /\ Resume(h, "verifying", local[h]) /\ head' = head
    BY <1>6 DEF ProbeHealthy, Goto
  <2>2. QED
    BY <1>0, <1>1, <2>1, FlowStep
<1>7. CASE ReadDeployed(h)
  <2> DEFINE l == [local[h] EXCEPT !.deployed = head]
  <2>1. /\ l.deployed = head /\ l.target = local[h].target /\ l.op = local[h].op
        /\ l.previous = local[h].previous
    BY <1>0 DEF Locals
  <2> HIDE DEF l
  <2>2. Resume(h, "succeeding", l) /\ pc[h] = "verifying"
    BY <1>7 DEF l, ReadDeployed
  <2>3. QED
    BY <1>0, <1>1, <2>1, <2>2, FlowStep
<1>8. QED
  BY <1>2, <1>3, <1>4, <1>5, <1>6, <1>7

\* The table after an insertion.
LEMMA InsertAim ==
    ASSUME TypeOK, RowsAim, ~raced, Insert
    PROVE  /\ RowsAim' /\ Len(runs') - 1 = Len(runs)
           /\ AllReversible(Len(runs) - 1)' <=> AllReversible(Len(runs))
           /\ liveAt'[Len(runs')] = stack
           /\ Len(runs') > 1 => liveAt'[Len(runs') - 1] = liveAt[Len(runs)]
<1>0. PICK m : m = Len(runs) + 1
  OBVIOUS
<1>1. /\ Len(runs) \in Nat /\ DOMAIN runs = 1..Len(runs) /\ clock \in Nat
      /\ liveAt \in Seq(Commits) /\ Len(liveAt) = Len(runs) /\ runs \in Seq(Runs)
  BY TableFacts DEF TypeOK
<1>2. m # 0 /\ m - 1 = Len(runs) /\ m \in Nat
  BY <1>0, <1>1
<1>3. /\ Len(runs') = m /\ DOMAIN runs' = 1..m
      /\ \A q \in 1..(m - 1) : runs'[q] = runs[q] /\ liveAt'[q] = liveAt[q]
      /\ runs'[m].finishedAt = 0 /\ runs'[m].status = "RUNNING"
      /\ liveAt'[m] = stack
  BY <1>0, <1>1 DEF Insert
<1>4. m \notin Reversible' /\ clock' = clock
  BY <1>3 DEF Reversible, Insert
<1>5. RowsAim' /\ (AllReversible(m - 1)' <=> AllReversible(m - 1))
  <2>1. runs'[m].finishedAt \in Nat /\ runs'[m].finishedAt <= clock' /\ clock <= clock'
    BY <1>1, <1>3, <1>4
  <2>2. m \in {Len(runs), Len(runs) + 1}
    BY <1>0
  <2>3. clock' \in Nat
    BY <1>1, <1>4
  <2>4. QED
    BY <1>2, <1>3, <1>4, <2>1, <2>2, <2>3, LastRow
<1>6. m > 1 => Len(runs) \in 1..(m - 1)
  BY <1>1, <1>2
<1>7. AllReversible(Len(runs) - 1)' <=> AllReversible(m - 1)'
  BY <1>3 DEF AllReversible
<1>8. QED
  BY <1>2, <1>3, <1>5, <1>6, <1>7

LEMMA AimCreates ==
    ASSUME TypeOK, PreviewsOnlyRead, RowsAim, ~raced, NEW h \in Handlers, Aimed(h),
           TableSound, CreateRun(h)
    PROVE  RowsAim' /\ Aimed(h)'
<1> DEFINE l == [local[h] EXCEPT !.run = Len(runs) + 1]
           to == IF local[h].op = "deploy" THEN "reading" ELSE "checkout"
<1>1. pc[h] = "creating" /\ Insert /\ Resume(h, to, l) /\ UNCHANGED <<head, stack>>
  BY DEF CreateRun
<1>2. /\ RowsAim' /\ Len(runs') - 1 = Len(runs)
      /\ AllReversible(Len(runs) - 1)' <=> AllReversible(Len(runs))
      /\ liveAt'[Len(runs')] = stack
      /\ Len(runs') > 1 => liveAt'[Len(runs') - 1] = liveAt[Len(runs)]
  BY <1>1, InsertAim
<1>3. l.previous = local[h].previous /\ l.target = local[h].target /\ l.op = local[h].op
  BY DEF Locals, TypeOK
<1>4. AllReversible(Len(runs)) => head = stack
  <2>1. CASE runs = <<>>
    BY <2>1 DEF RowsAim, PreviousWasLive
  <2>2. CASE runs # <<>>
    <3>1. AllReversible(Len(runs)) => Settled
      BY <2>2, TableFacts DEF AllReversible, Settled, TypeOK
    <3>2. QED
      BY <3>1 DEF TableSound
  <2>3. QED
    BY <2>1, <2>2
<1>5. local[h].op \in {"deploy", "rollback"}
  BY <1>1 DEF PreviewsOnlyRead, TypeOK, LocalsFit, Ops
<1>6. to # "deploy" /\ to \in {"reading", "checkout"} /\ (to = "reading" <=> l.op = "deploy")
  BY <1>3, <1>5
<1> HIDE DEF l, to
<1>7. pc'[h] = to /\ local'[h] = l
  BY <1>1, <1>6, ResumeFrame
<1>8. l.op = "rollback" =>
        /\ l.previous = head
        /\ AllReversible(Len(runs)) => l.target = liveAt[Len(runs)]
  BY <1>1, <1>3 DEF Aimed
<1>9. QED
  <2>1. CASE to = "reading" /\ l.op # "rollback"
    BY <1>1, <1>2, <1>4, <1>7, <2>1 DEF Aimed
  <2>2. CASE to = "checkout" /\ l.op = "rollback"
    BY <1>1, <1>2, <1>4, <1>7, <1>8, <2>2 DEF Aimed
  <2>3. QED
    BY <1>3, <1>5, <1>6, <2>1, <2>2

\* The table after the last write of a run that went well.
LEMMA SucceedAim ==
    ASSUME TypeOK, PreviewsOnlyRead, RowsAim, ~raced, NEW h \in Handlers, Aimed(h), SeqAt(h),
           pc[h] = "succeeding", WriteSuccess(h)
    PROVE  RowsAim'
<1> DEFINE m == Len(runs)
<1>1. /\ m \in Nat /\ DOMAIN runs = 1..m /\ clock \in Nat /\ local[h].run = m
      /\ m \in DOMAIN runs
  BY TableFacts DEF TypeOK, SeqAt, TryPcs, Running
<1>2. m # 0 /\ m \in {Len(runs), Len(runs) + 1} /\ 1..(m - 1) \subseteq DOMAIN runs \ {m}
  BY <1>1
<1>3. /\ Len(runs') = m /\ DOMAIN runs' = 1..m
      /\ \A q \in DOMAIN runs \ {m} : runs'[q] = runs[q]
      /\ runs'[m].finishedAt = clock' /\ clock' = clock + 1 /\ UNCHANGED liveAt
      /\ runs'[m].status = "ROLLED_BACK" => local[h].op # "deploy"
      /\ runs'[m].previous = local[h].previous
      /\ runs'[m].deployed = local[h].deployed
  <2>1. UNCHANGED liveAt
    BY DEF WriteSuccess
  <2>2. QED
    BY <1>1, <2>1, WriteSuccessType
<1> HIDE DEF m
<1>4. clock' \in Nat /\ clock <= clock' /\ clock < runs'[m].finishedAt
  BY <1>1, <1>3
<1>5. AllReversible(m - 1) => runs'[m].previous = liveAt'[m]
  BY <1>3 DEF Aimed, TryPcs, m
<1>6. runs'[m].status = "ROLLED_BACK" /\ m > 1 /\ AllReversible(m - 1)
        => runs'[m].deployed = liveAt'[m - 1]
  <2>1. SUFFICES ASSUME runs'[m].status = "ROLLED_BACK", m > 1, AllReversible(m - 1)
                 PROVE  runs'[m].deployed = liveAt'[m - 1]
    OBVIOUS
  <2>2. local[h].op = "rollback"
    BY <1>3, <2>1 DEF PreviewsOnlyRead, TypeOK, LocalsFit, Ops
  <2>3. QED
    BY <1>3, <2>1, <2>2 DEF Aimed, TryPcs, m
<1>7. \A q \in 1..(m - 1) : runs'[q] = runs[q] /\ liveAt'[q] = liveAt[q]
  BY <1>2, <1>3
<1>8. runs'[m].finishedAt \in Nat /\ runs'[m].finishedAt <= clock'
  BY <1>3, <1>4
<1>9. QED
  BY <1>2, <1>3, <1>4, <1>5, <1>6, <1>7, <1>8, LastRow

\* The table after the catch clause, whichever row it wrote: there is less to claim.
LEMMA FailAim ==
    ASSUME TypeOK, RowsAim, ~raced, NEW h \in Handlers, UNCHANGED <<head, stack>>,
           pc[h] = "failing", WriteFailure(h)
    PROVE  /\ RowsAim' /\ liveAt' = liveAt /\ Len(runs') = Len(runs)
           /\ \A n : AllReversible(n)' => AllReversible(n)
<1> DEFINE r == local[h].run
<1>1. /\ Len(runs') = Len(runs) /\ DOMAIN runs' = DOMAIN runs /\ r \in DOMAIN runs
      /\ Reversible' = Reversible \ {r}
      /\ \A q \in DOMAIN runs : q # r => runs'[q] = runs[q]
      /\ runs'[r].finishedAt = clock' /\ clock' = clock + 1
      /\ runs'[r].status \in {"FAILED", "ROLLBACK_FAILED"} /\ liveAt' = liveAt
  BY FailTable, WriteFailureType DEF WriteFailure
<1> HIDE DEF r
<1>2. \A q \in DOMAIN runs : runs[q].finishedAt \in Nat /\ runs[q].finishedAt <= clock
  <2>1. \A q \in DOMAIN runs : runs[q] \in Runs
    BY DEF TypeOK
  <2>2. QED
    BY <2>1 DEF Runs, RowsAim, EndedInOrder
<1>3. clock \in Nat /\ clock' \in Nat /\ clock <= clock'
  <2>1. clock \in Nat
    BY DEF TypeOK
  <2>2. QED
    BY <1>1, <2>1
<1>4. \A n : AllReversible(n)' => AllReversible(n)
  BY <1>1 DEF AllReversible
<1>5. EndedInOrder'
  <2>1. ASSUME NEW q \in DOMAIN runs' PROVE runs'[q].finishedAt <= clock'
    <3>1. CASE q = r
      BY <1>1, <1>3, <3>1
    <3>2. CASE q # r
      <4>1. runs'[q].finishedAt \in Nat /\ runs'[q].finishedAt <= clock
        BY <1>1, <1>2, <2>1, <3>2
      <4>2. QED
        BY <1>3, <4>1
    <3>3. QED
      BY <3>1, <3>2
  <2>2. ASSUME NEW q \in Reversible', NEW p \in Reversible', q < p
        PROVE  runs'[q].finishedAt < runs'[p].finishedAt
    <3>1. /\ q \in Reversible /\ p \in Reversible
          /\ runs'[q] = runs[q] /\ runs'[p] = runs[p]
      BY <1>1, <2>2 DEF Reversible
    <3>2. QED
      BY <2>2, <3>1 DEF RowsAim, EndedInOrder
  <2>3. QED
    BY <2>1, <2>2 DEF EndedInOrder
<1>6. PreviousWasLive'
  <2>1. runs' # <<>>
    BY <1>1, TableFacts DEF TypeOK
  <2>2. ASSUME NEW q \in DOMAIN runs', AllReversible(q)'
        PROVE  runs'[q].previous = liveAt'[q]
    <3>1. q \in 1..q /\ q \in DOMAIN runs
      BY <1>1, <2>2, TableFacts
    <3>2. q # r /\ AllReversible(q)
      BY <1>1, <1>4, <2>2, <3>1 DEF AllReversible
    <3>3. QED
      BY <1>1, <3>1, <3>2 DEF RowsAim, PreviousWasLive
  <2>3. QED
    BY <2>1, <2>2 DEF PreviousWasLive
<1>7. RollbackRestoresLive'
  <2>1. ASSUME NEW q \in 2..Len(runs'), runs'[q].status = "ROLLED_BACK",
               \A p \in 1..(q - 1) : p \in Reversible'
        PROVE  runs'[q].deployed = liveAt'[q - 1]
    <3>1. q \in DOMAIN runs /\ q \in 2..Len(runs)
      BY <1>1, <2>1, TableFacts
    <3>2. q # r
      BY <1>1, <2>1
    <3>3. runs[q].status = "ROLLED_BACK" /\ \A p \in 1..(q - 1) : p \in Reversible
      BY <1>1, <2>1, <3>1, <3>2
    <3>4. runs[q].deployed = liveAt[q - 1]
      BY <3>1, <3>3 DEF RowsAim, RollbackRestoresLive
    <3>5. QED
      BY <1>1, <3>1, <3>2, <3>4
  <2>2. QED
    BY <2>1 DEF RollbackRestoresLive
<1>8. QED
  BY <1>1, <1>4, <1>5, <1>6, <1>7 DEF RowsAim

Aim == RowsAim /\ \A h \in Handlers : Aimed(h)

\* A handler's step as the rows and its own claims see it.
LEMMA AimStep ==
    ASSUME IInv, Aim, ~raced, NEW h \in Handlers, Start(h) \/ Advance(h)
    PROVE  RowsAim' /\ Aimed(h)'
<1>1. /\ TypeOK /\ PreviewsOnlyRead /\ RowsAim /\ Aimed(h)
      /\ SeqInv /\ TableSound /\ SeqAt(h)
  BY SeqParts DEF IInv, Aim, SeqInv
<1>2. CASE \/ Start(h) \/ CheckRunning(h) \/ ReadHistory(h) \/ ReadCurrent(h)
           \/ CommandFails(h)
  BY <1>1, <1>2, AimReads
<1>3. CASE \/ ReadPrevious(h) \/ Checkout(h) \/ Pull(h) \/ ComposeUp(h)
           \/ ProbeHealthy(h) \/ ReadDeployed(h)
  BY <1>1, <1>3, AimWorks
<1>4. CASE CreateRun(h)
  BY <1>1, <1>4, AimCreates
<1>5. CASE Succeed(h) \/ RecordFailure(h)
  <2>1. RowsAim'
    BY <1>1, <1>5, SucceedAim, FailAim DEF Succeed, RecordFailure
  <2>2. pc'[h] = "idle"
    BY <1>1, <1>5, ResumeFrame DEF Succeed, RecordFailure, Goto
  <2>3. QED
    BY <2>1, <2>2, RestAimNext
<1>6. CASE DatabaseFails(h)
  <2>1. pc'[h] \in {"idle", "failing"}
    BY <1>1, <1>6, ResumeFrame DEF DatabaseFails, Goto
  <2>2. CASE UNCHANGED table
    <3>1. UNCHANGED <<runs, clock, liveAt, head, stack>>
      BY <1>6, <2>2 DEF DatabaseFails
    <3>2. QED
      BY <1>1, <2>1, <3>1, SameTable, RestAimNext
  <2>3. RowsAim'
    BY <1>1, <1>6, <2>2, InsertAim, SucceedAim DEF DatabaseFails
  <2>4. QED
    BY <2>1, <2>3, RestAimNext
<1>7. QED
  BY <1>2, <1>3, <1>4, <1>5, <1>6 DEF Advance

\* The others: one of them may be busy only if the step leaves the tree and the stack
\* alone and writes at most a failure.
LEMMA AimOthers ==
    ASSUME IInv, Aim, ~raced, NEW h \in Handlers, Start(h) \/ Advance(h),
           NEW g \in Handlers, g # h
    PROVE  Aimed(g)'
<1>1. TypeOK /\ PreviewsOnlyRead /\ RowsAim /\ Aimed(g) /\ SeqInv
  BY SeqParts DEF IInv, Aim
<1>2. PICK to, l : Resume(h, to, l)
  BY DEF Start, Advance, CheckRunning, ReadHistory, ReadCurrent, CreateRun, ReadPrevious,
     Checkout, Pull, ComposeUp, ProbeHealthy, ReadDeployed, Succeed, RecordFailure,
     CommandFails, DatabaseFails, Goto
<1>3. pc'[g] = pc[g] /\ local'[g] = local[g] /\ (g \in Busy' <=> g \in Busy)
  <2>1. pc'[g] = pc[g] /\ local'[g] = local[g]
    BY <1>1, <1>2, ResumeFrame
  <2>2. QED
    BY <2>1 DEF Busy, Admitted
<1>4. CASE h \in Busy
  BY <1>1, <1>3, <1>4, RestAimNext DEF SeqInv
<1>5. CASE h \notin Busy
  <2>1. pc[h] \notin TryPcs \cup {"creating"}
    BY <1>1, <1>5 DEF Busy, Admitted, PreviewsOnlyRead
  <2>2. \/ UNCHANGED <<runs, clock, liveAt, head, stack>>
        \/ pc[h] = "failing" /\ WriteFailure(h) /\ UNCHANGED <<head, stack>>
    BY <2>1 DEF Start, Advance, CheckRunning, ReadHistory, ReadCurrent, CreateRun,
       ReadPrevious, Checkout, Pull, ComposeUp, ProbeHealthy, ReadDeployed, Succeed,
       RecordFailure, CommandFails, DatabaseFails, TryPcs, CommandPcs
  <2>3. /\ head' = head /\ liveAt' = liveAt /\ Len(runs') = Len(runs)
        /\ \A n : AllReversible(n)' => AllReversible(n)
    BY <1>1, <2>2, SameTable, FailAim
  <2>4. QED
    BY <1>1, <1>3, <2>3 DEF Aimed
<1>6. QED
  BY <1>4, <1>5

LEMMA AimNext ==
    ASSUME IInv, Aim, [Next]_vars, ~raced
    PROVE  Aim'
<1>1. TypeOK /\ RowsAim
  BY DEF IInv, Aim
<1>2. ASSUME NEW h \in Handlers, Start(h) \/ Advance(h) PROVE Aim'
  BY <1>2, AimStep, AimOthers DEF Aim
<1>3. CASE CrashAndRestart
  <2>1. RowsAim' /\ \A h \in Handlers : pc'[h] = "idle"
    BY <1>1, <1>3, SameTable DEF CrashAndRestart
  <2>2. QED
    BY <2>1, RestAimNext DEF Aim
<1>4. CASE UNCHANGED <<runs, clock, liveAt, head, stack, pc, local>>
  <2>1. RowsAim' /\ \A n : AllReversible(n)' <=> AllReversible(n)
    BY <1>1, <1>4, SameTable
  <2>2. ASSUME NEW h \in Handlers PROVE Aimed(h)'
    BY <1>4, <2>1, <2>2 DEF Aim, Aimed
  <2>3. QED
    BY <2>1, <2>2 DEF Aim
<1>5. QED
  BY <1>2, <1>3, <1>4 DEF Next, Discard, Push, vars

LEMMA AimInit == Init => Aim
<1> SUFFICES ASSUME Init PROVE Aim
  OBVIOUS
<1>1. runs = <<>> /\ head = stack /\ Reversible = {} /\ \A h \in Handlers : pc[h] = "idle"
  BY DEF Init, Reversible
<1>2. RowsAim
  BY <1>1 DEF RowsAim, EndedInOrder, PreviousWasLive, RollbackRestoresLive
<1>3. \A h \in Handlers : h \notin Busy
  BY <1>1, BusyFacts, PcFacts
<1>4. QED
  BY <1>2, <1>3, RestAim DEF Aim

\* As long as no two handlers slip through the check and no run failed, a rollback brings
\* up what was live when the run before it started, for any number of overlapping
\* handlers, runs, pushes, crashes and failed calls (latestReversible, rollbackTarget).
THEOREM RollbackRestores == Spec => []RollbackRestoresLive
<1>1. Init => (~raced => Aim)
  BY AimInit
<1>2. IInv /\ (~raced => Aim) /\ [Next]_vars => (~raced => Aim)'
  <2> SUFFICES ASSUME IInv, ~raced => Aim, [Next]_vars, ~raced' PROVE Aim'
    OBVIOUS
  <2>1. ~raced
    BY RacedStays DEF IInv
  <2>2. QED
    BY <2>1, AimNext
<1>3. (~raced => Aim) => RollbackRestoresLive
  BY DEF Aim, RowsAim, RollbackRestoresLive
<1>4. QED
  BY <1>1, <1>2, <1>3, Inductive, PTL DEF Spec
=============================================================================
