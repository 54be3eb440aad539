---------------------------- MODULE BackupsProofs -----------------------------
(***************************************************************************)
(* Theorems about Backups, for every set of handler slots, retention and   *)
(* number of backups, failures and ticks of the clock.                     *)
(***************************************************************************)
EXTENDS Backups, TLAPS

-----------------------------------------------------------------------------
(* The invariant.                                                            *)

Working == TryPcs \cup CatchPcs
Whole(id) == [by |-> id, state |-> "whole"]
Partial(id) == [by |-> id, state |-> "partial"]

\* Some handler is in the catch clause of backup id.
Caught(id) == \E h \in Handlers : pc[h] \in CatchPcs /\ Row(h) = id

\* What a handler at place p with locals c knows of its row and its file, as long as nobody
\* shares the name.
SoundAt(p, c) ==
    /\ p \in {"opening", "dumping", "measuring", "storing"} => rows[c.row].status = "RUNNING"
    /\ p \in {"scanning", "unlinking", "deleting"} => rows[c.row].status = "SUCCESS"
    /\ p = "dumping" /\ ~Shared(c.row) =>
          /\ files[c.name] \in {None, Partial(c.row)}
          /\ Young(c.row) => files[c.name] # None
    /\ p \in {"measuring", "storing", "scanning", "unlinking", "deleting"} /\ ~Shared(c.row) =>
          /\ files[c.name] \in {None, Whole(c.row)}
          /\ Young(c.row) => files[c.name] # None
    /\ p = "storing" /\ ~Shared(c.row) => c.read = Whole(c.row)
    /\ p \in {"unlinking", "deleting"} =>
          /\ \A i \in c.doomed : i \in DOMAIN rows /\ Expired(i)
          /\ c.todo \subseteq c.doomed
    /\ p \in CatchPcs /\ rows[c.row].status = "SUCCESS" => failures >= 1
    /\ p \in SendPcs =>
          /\ rows[c.row].status # "RUNNING"
          /\ ~Shared(c.row) => files[c.name] \in {None, Whole(c.row)}

Sound(h) == SoundAt(pc[h], call[h])

\* A successful row measured its own dump, and until it expires only its own catch clause,
\* or a second failure, takes the file away.
RowSound(id) ==
    rows[id].status = "SUCCESS" /\ ~Shared(id) =>
        /\ files[rows[id].name] \in {None, Whole(id)}
        /\ rows[id].sum = Whole(id)
        /\ rows[id].live /\ Young(id) /\ failures <= 1 /\ ~Caught(id) =>
              files[rows[id].name] # None

\* No two handlers work on one row.
Apart ==
    \A g, h \in Handlers :
        g # h /\ pc[g] \in Working /\ pc[h] \in Working => Row(g) # Row(h)

IInv ==
    /\ TypeOK
    /\ \A h \in Handlers : Sound(h)
    /\ \A id \in DOMAIN rows : RowSound(id)
    /\ Apart

-----------------------------------------------------------------------------
(* What a step of handler h may do to what others know.                      *)

Mine(h, id) == pc[h] \in Working /\ id = Row(h)

\* Rows keep name and creation, and only a handler's own row changes its status; a new one
\* is RUNNING.
RowsStep(h) ==
    /\ \A id \in DOMAIN rows :
          /\ id \in DOMAIN rows'
          /\ rows'[id].name = rows[id].name /\ rows'[id].created = rows[id].created
          /\ rows[id].status # "RUNNING" => rows'[id].status # "RUNNING"
          /\ rows'[id].live => rows[id].live
          /\ ~Mine(h, id) => rows'[id].status = rows[id].status /\ rows'[id].sum = rows[id].sum
    /\ \A id \in DOMAIN rows' : id \notin DOMAIN rows => rows'[id].status = "RUNNING"

\* A file is written by the dump of its name, and removed by a catch clause of its name or
\* with an expired row.
FilesStep(h) ==
    \A n \in Time :
        \/ files'[n] = files[n]
        \/ files'[n] = None /\ \E i \in DOMAIN rows : rows[i].name = n /\ ~Young(i)
        \/ n = File(h) /\ pc[h] \in {"opening", "dumping"}
        \/ n = File(h) /\ pc[h] = "clearing" /\ files'[n] = None

Frame(h) ==
    /\ \A g \in Handlers : g # h => pc'[g] = pc[g] /\ call'[g] = call[g]
    /\ RowsStep(h) /\ FilesStep(h)
    /\ now' >= now /\ failures' >= failures

-----------------------------------------------------------------------------
(* Building blocks.                                                          *)

LEMMA Typed ==
    ASSUME TypeOK
    PROVE  /\ now \in Nat /\ Retention \in Nat /\ failures \in Nat
           /\ Len(rows) \in Nat /\ DOMAIN rows = 1..Len(rows)
           /\ \A id \in DOMAIN rows :
                 /\ rows[id] \in Rows
                 /\ rows[id].name \in Time /\ rows[id].created \in Nat
                 /\ rows[id].live \in BOOLEAN
           /\ \A h \in Handlers : call[h] \in Calls /\ File(h) \in Time /\ Fits(h)
<1>1. /\ now \in Nat /\ Retention \in Nat /\ failures \in Nat
      /\ Len(rows) \in Nat /\ DOMAIN rows = 1..Len(rows)
  BY BackupsConstants DEF TypeOK, Time
<1>2. \A id \in DOMAIN rows : rows[id] \in Rows
  BY DEF TypeOK
<1>3. \A id \in DOMAIN rows : rows[id].name \in Time /\ rows[id].created \in Nat
                              /\ rows[id].live \in BOOLEAN
  BY <1>2, BackupsConstants DEF Rows, Time
<1>4. \A h \in Handlers : call[h] \in Calls /\ Fits(h)
  BY DEF TypeOK
<1>5. \A h \in Handlers : File(h) \in Time
  BY <1>4 DEF Calls, File
<1>6. QED
  BY <1>1, <1>2, <1>3, <1>4, <1>5

LEMMA BlankIsCall == Blank \in Calls
BY BackupsConstants DEF Blank, Calls, Time

\* Sharing lasts, youth does not.
LEMMA Aging ==
    ASSUME TypeOK, TypeOK', NEW h \in Handlers, RowsStep(h), now' >= now,
           NEW id \in DOMAIN rows
    PROVE  /\ Shared(id) => Shared(id)'
           /\ Young(id)' => Young(id)
           /\ Expired(id) => Expired(id)'
           /\ Expired(id) => ~Young(id)
<1>1. Shared(id) => Shared(id)'
  BY DEF Shared, RowsStep
<1>2. /\ now \in Nat /\ now' \in Nat /\ Retention \in Nat
      /\ rows[id].created \in Nat /\ rows'[id].created = rows[id].created
  BY Typed, BackupsConstants DEF TypeOK, Time, RowsStep
<1>3. QED
  BY <1>1, <1>2 DEF Young, Expired

\* A file that changed under the feet of another row went with that row's retention, or
\* by the hand of that row's own handler.
LEMMA FileOfRow ==
    ASSUME TypeOK, NEW h \in Handlers, FilesStep(h), NEW id \in DOMAIN rows, ~Shared(id)
    PROVE  LET n == rows[id].name
           IN  \/ files'[n] = files[n]
               \/ files'[n] = None /\ ~Young(id)
               \/ /\ Row(h) = id
                  /\ \/ pc[h] \in {"opening", "dumping"}
                     \/ pc[h] = "clearing" /\ files'[n] = None
<1>1. rows[id].name \in Time
  BY Typed
<1>2. \A i \in DOMAIN rows : rows[i].name = rows[id].name => i = id
  BY DEF Shared
<1>3. pc[h] \in {"opening", "dumping", "clearing"} =>
         Row(h) \in DOMAIN rows /\ rows[Row(h)].name = File(h)
  BY Typed DEF Fits, TryPcs, CatchPcs, Row, File
<1>4. QED
  BY <1>1, <1>2, <1>3 DEF FilesStep

LEMMA OthersSound ==
    ASSUME IInv, TypeOK', NEW h \in Handlers, Frame(h), NEW g \in Handlers, g # h
    PROVE  Sound(g)'
<1>0. PICK id : id = Row(g)
  OBVIOUS
<1>1. /\ TypeOK /\ Sound(g) /\ Sound(h) /\ Fits(g)
      /\ pc'[g] = pc[g] /\ call'[g] = call[g]
      /\ RowsStep(h) /\ FilesStep(h) /\ now' >= now /\ failures' >= failures
  BY DEF IInv, Frame, TypeOK
<1>2. Row(g)' = Row(g) /\ File(g)' = File(g)
  BY <1>1 DEF Row, File
<1>3. CASE pc[g] \notin Working \cup SendPcs
  BY <1>0, <1>1, <1>3 DEF Sound, SoundAt, Row, File, Working, TryPcs, CatchPcs
<1>4. CASE pc[g] \in Working \cup SendPcs
  <2>1. id \in DOMAIN rows /\ rows[id].name = File(g)
    BY <1>0, <1>1, <1>4 DEF Fits, Working, Row, File
  <2>2. /\ Shared(id) => Shared(id)'
        /\ Young(id)' => Young(id)
    BY <1>0, <1>1, <2>1, Aging
  <2>3. /\ rows'[id].name = File(g)
        /\ rows[id].status # "RUNNING" => rows'[id].status # "RUNNING"
    BY <1>0, <1>1, <2>1 DEF RowsStep
  <2>4. pc[g] \in Working => /\ rows'[id].status = rows[id].status
                             /\ ~(pc[h] \in Working /\ Row(h) = id)
    BY <1>0, <1>1, <2>1 DEF IInv, Apart, RowsStep, Mine
  <2>5. ~Shared(id) =>
           \/ files'[File(g)] = files[File(g)]
           \/ files'[File(g)] = None /\ ~Young(id)
           \/ /\ Row(h) = id
              /\ \/ pc[h] \in {"opening", "dumping"}
                 \/ pc[h] = "clearing" /\ files'[File(g)] = None
    BY <1>0, <1>1, <2>1, FileOfRow
  <2>6. pc[h] \in {"opening", "dumping"} => pc[h] \in Working /\ rows[Row(h)].status = "RUNNING"
    BY <1>1 DEF Sound, SoundAt, Row, Working, TryPcs
  <2>7. pc[h] = "clearing" => pc[h] \in Working
    BY DEF Working, CatchPcs
  <2>8. CASE pc[g] \in Working
    <3>1. ~Shared(id) => \/ files'[File(g)] = files[File(g)]
                         \/ files'[File(g)] = None /\ ~Young(id)
      BY <2>4, <2>5, <2>6, <2>7, <2>8
    <3>2. pc[g] \in {"unlinking", "deleting"} =>
             \A i \in call[g].doomed : i \in DOMAIN rows' /\ Expired(i)'
      <4>1. pc[g] \in {"unlinking", "deleting"} =>
               \A i \in call[g].doomed : i \in DOMAIN rows /\ Expired(i)
        BY <1>0, <1>1 DEF Sound, SoundAt, Row, File
      <4>2. QED
        BY <4>1, <1>1, Aging DEF RowsStep
    <3>3. failures \in Nat /\ failures' \in Nat
      BY <1>0, <1>1, Typed, BackupsConstants DEF TypeOK
    <3>4. pc[g] \in CatchPcs /\ rows'[id].status = "SUCCESS" => failures' >= 1
      BY <1>0, <1>1, <2>4, <2>8, <3>3 DEF Sound, SoundAt, Row, File
    <3>5. pc[g] \notin SendPcs
      BY <2>8 DEF Working, TryPcs, CatchPcs, SendPcs
    <3>6. /\ pc[g] \in {"opening", "dumping", "measuring", "storing"} =>
                rows'[id].status = "RUNNING"
          /\ pc[g] \in {"scanning", "unlinking", "deleting"} => rows'[id].status = "SUCCESS"
      BY <1>0, <1>1, <2>4, <2>8 DEF Sound, SoundAt, Row, File
    <3>7. pc[g] = "dumping" /\ ~Shared(id)' =>
             /\ files'[File(g)] \in {None, Partial(id)}
             /\ Young(id)' => files'[File(g)] # None
      BY <1>0, <1>1, <2>2, <3>1 DEF Sound, SoundAt, Row, File
    <3>8. pc[g] \in {"measuring", "storing", "scanning", "unlinking", "deleting"}
          /\ ~Shared(id)' =>
             /\ files'[File(g)] \in {None, Whole(id)}
             /\ Young(id)' => files'[File(g)] # None
      BY <1>0, <1>1, <2>2, <3>1 DEF Sound, SoundAt, Row, File
    <3>9. pc[g] = "storing" /\ ~Shared(id)' => call'[g].read = Whole(id)
      BY <1>0, <1>1, <2>2 DEF Sound, SoundAt, Row, File
    <3>10. pc[g] \in {"unlinking", "deleting"} => call'[g].todo \subseteq call'[g].doomed
      BY <1>0, <1>1 DEF Sound, SoundAt, Row, File
    <3>11. QED
      BY <1>0, <1>1, <1>2, <3>2, <3>4, <3>5, <3>6, <3>7, <3>8, <3>9, <3>10
         DEF Sound, SoundAt, Row, File, Whole, Partial
  <2>9. CASE pc[g] \in SendPcs
    <3>1. pc[g] \notin Working
      BY <2>9 DEF Working, TryPcs, CatchPcs, SendPcs
    <3>2. rows[id].status # "RUNNING" /\ (~Shared(id) => files[File(g)] \in {None, Whole(id)})
      BY <1>0, <1>1, <2>9 DEF Sound, SoundAt, Row, File
    <3>3. rows'[id].status # "RUNNING"
      BY <2>3, <3>2
    <3>4. ~Shared(id)' => files'[File(g)] \in {None, Whole(id)}
      BY <2>2, <2>5, <2>6, <3>2
    <3>5. QED
      BY <1>0, <1>1, <1>2, <2>9, <3>1, <3>3, <3>4
         DEF Sound, SoundAt, Row, File, Working, TryPcs, CatchPcs, SendPcs, Whole
  <2>10. QED
    BY <1>4, <2>8, <2>9
<1>5. QED
  BY <1>3, <1>4

\* Rows other than the handler's own stay sound.
LEMMA RowsSound ==
    ASSUME IInv, TypeOK', NEW h \in Handlers, Frame(h), NEW id \in DOMAIN rows', ~Mine(h, id)
    PROVE  RowSound(id)'
<1>1. /\ TypeOK /\ RowsStep(h) /\ FilesStep(h) /\ now' >= now /\ failures' >= failures
      /\ \A g \in Handlers : g # h => pc'[g] = pc[g] /\ call'[g] = call[g]
  BY DEF IInv, Frame
<1>2. CASE id \notin DOMAIN rows
  <2>1. rows'[id].status = "RUNNING"
    BY <1>1, <1>2 DEF RowsStep
  <2>2. QED
    BY <2>1 DEF RowSound
<1>3. CASE id \in DOMAIN rows
  <2>1. /\ Shared(id) => Shared(id)'
        /\ Young(id)' => Young(id)
    BY <1>1, <1>3, Aging
  <2>2. /\ rows'[id].status = rows[id].status /\ rows'[id].sum = rows[id].sum
        /\ rows'[id].name = rows[id].name /\ (rows'[id].live => rows[id].live)
    BY <1>1, <1>3 DEF RowsStep
  <2>3. ~Shared(id) => \/ files'[rows[id].name] = files[rows[id].name]
                       \/ files'[rows[id].name] = None /\ ~Young(id)
    <3>1. pc[h] \in {"opening", "dumping", "clearing"} => Row(h) # id
      BY DEF Mine, Working, TryPcs, CatchPcs
    <3>2. QED
      BY <1>1, <1>3, <3>1, FileOfRow
  <2>4. Caught(id) => Caught(id)'
    <3>1. ASSUME NEW g \in Handlers, pc[g] \in CatchPcs, Row(g) = id
          PROVE  pc'[g] \in CatchPcs /\ Row(g)' = id
      <4>1. g # h
        BY <3>1 DEF Mine, Working
      <4>2. QED
        BY <1>1, <3>1, <4>1 DEF Row
    <3>2. QED
      BY <3>1 DEF Caught
  <2>5. failures' <= 1 => failures <= 1
    BY <1>1, Typed, BackupsConstants DEF TypeOK
  <2>6. RowSound(id)
    BY <1>3 DEF IInv
  <2>7. QED
    BY <2>1, <2>2, <2>3, <2>4, <2>5, <2>6 DEF RowSound, Whole
<1>4. QED
  BY <1>2, <1>3

\* A step of one handler keeps the invariant when it keeps its own knowledge, its own row
\* sound, and works on no row of another.
LEMMA StepKeeps ==
    ASSUME IInv, TypeOK', NEW h \in Handlers, Frame(h), Sound(h)',
           \A id \in DOMAIN rows : Mine(h, id) => RowSound(id)',
           pc'[h] \in Working =>
              (pc[h] \in Working /\ Row(h)' = Row(h)) \/ Row(h)' \notin DOMAIN rows
    PROVE  IInv'
<1>1. \A g \in Handlers : Sound(g)'
  BY OthersSound
<1>2. \A id \in DOMAIN rows' : RowSound(id)'
  <2>1. ASSUME NEW id \in DOMAIN rows', Mine(h, id) PROVE id \in DOMAIN rows
    BY <2>1, Typed DEF Mine, IInv, Fits, Working, Row
  <2>2. QED
    BY <2>1, RowsSound
<1>3. Apart'
  <2>1. ASSUME NEW g \in Handlers, g # h, pc'[g] \in Working, pc'[h] \in Working
        PROVE  Row(g)' # Row(h)'
    <3>1. pc[g] \in Working /\ Row(g)' = Row(g)
      BY <2>1 DEF Frame, Row
    <3>2. Row(g) \in DOMAIN rows
      BY <3>1, Typed DEF IInv, Fits, Working, Row
    <3>3. QED
      BY <2>1, <3>1, <3>2 DEF IInv, Apart
  <2>2. ASSUME NEW f \in Handlers, NEW g \in Handlers, f # g, f # h, g # h,
               pc'[f] \in Working, pc'[g] \in Working
        PROVE  Row(f)' # Row(g)'
    BY <2>2 DEF IInv, Apart, Frame, Row
  <2>3. QED
    BY <2>1, <2>2 DEF Apart
<1>4. QED
  BY <1>1, <1>2, <1>3 DEF IInv
-----------------------------------------------------------------------------
(* Moves of one handler.                                                     *)

\* What a handler needs of its locals at its next place.
FitsAt(p, c) ==
    /\ p = "idle" => c = Blank
    /\ p \in Working \cup SendPcs => c.row \in DOMAIN rows /\ rows[c.row].name = c.name
    /\ p = "storing" => c.read # None

LEMMA FitsMeans ==
    ASSUME NEW h \in Handlers
    PROVE  Fits(h) <=> FitsAt(pc[h], call[h])
BY DEF Fits, FitsAt, Working

LEMMA MoveType ==
    ASSUME TypeOK, NEW h \in Handlers, NEW to \in Pcs, NEW c \in Calls, Goto(h, to, c),
           RowsStep(h), FitsAt(to, c)'
    PROVE  /\ pc' \in [Handlers -> Pcs] /\ call' \in [Handlers -> Calls]
           /\ pc'[h] = to /\ call'[h] = c
           /\ \A g \in Handlers : g # h => pc'[g] = pc[g] /\ call'[g] = call[g]
           /\ \A g \in Handlers : Fits(g)'
<1>1. /\ pc' \in [Handlers -> Pcs] /\ call' \in [Handlers -> Calls]
      /\ pc'[h] = to /\ call'[h] = c
      /\ \A g \in Handlers : g # h => pc'[g] = pc[g] /\ call'[g] = call[g]
  BY DEF TypeOK, Goto
<1>2. Fits(h)'
  BY <1>1 DEF Fits, FitsAt, Working
<1>3. ASSUME NEW g \in Handlers, g # h PROVE Fits(g)'
  <2>1. Fits(g)
    BY DEF TypeOK
  <2>2. QED
    BY <1>1, <1>3, <2>1 DEF Fits, RowsStep
<1>4. QED
  BY <1>1, <1>2, <1>3

\* The general step: the handler moves, what it changes is its own, and it and its row are
\* sound afterwards.
LEMMA MoveKeeps ==
    ASSUME IInv, NEW h \in Handlers, NEW to \in Pcs, NEW c \in Calls, Goto(h, to, c),
           RowsStep(h), FilesStep(h), now' = now,
           rows' \in Seq(Rows), files' \in [Time -> Contents \cup {None}],
           started' \in 0..MaxBackups, failures' \in 0..MaxFailures, failures' >= failures,
           FitsAt(to, c)', SoundAt(to, c)',
           \A id \in DOMAIN rows : Mine(h, id) => RowSound(id)',
           to \in Working => (pc[h] \in Working /\ c.row = Row(h)) \/ c.row \notin DOMAIN rows
    PROVE  IInv'
<1>1. TypeOK /\ now' \in Nat /\ now' >= now
  BY Typed DEF IInv
<1>2. /\ pc' \in [Handlers -> Pcs] /\ call' \in [Handlers -> Calls]
      /\ pc'[h] = to /\ call'[h] = c
      /\ \A g \in Handlers : g # h => pc'[g] = pc[g] /\ call'[g] = call[g]
      /\ \A g \in Handlers : Fits(g)'
  BY <1>1, MoveType
<1>3. TypeOK'
  BY <1>1, <1>2 DEF TypeOK
<1>4. Frame(h)
  BY <1>1, <1>2 DEF Frame
<1>5. Sound(h)'
  BY <1>2 DEF Sound
<1>6. Row(h)' = c.row
  BY <1>2 DEF Row
<1>7. QED
  BY <1>2, <1>3, <1>4, <1>5, <1>6, StepKeeps

\* A step that leaves rows and files alone.
LEMMA QuietKeeps ==
    ASSUME IInv, NEW h \in Handlers, NEW to \in Pcs, NEW c \in Calls, Goto(h, to, c),
           UNCHANGED <<now, rows, files>>,
           started' \in 0..MaxBackups, failures' \in 0..MaxFailures, failures' >= failures,
           FitsAt(to, c), SoundAt(to, c) \/ (to \in CatchPcs /\ failures' >= 1),
           to \in Working => pc[h] \in Working /\ c.row = Row(h),
           pc[h] \in CatchPcs /\ to \notin CatchPcs =>
              ~rows[Row(h)].live \/ rows[Row(h)].status # "SUCCESS" \/ failures' >= 2
    PROVE  IInv'
<1>1. /\ TypeOK /\ rows \in Seq(Rows) /\ files \in [Time -> Contents \cup {None}]
      /\ failures \in Nat /\ failures' \in Nat
  BY Typed, BackupsConstants DEF IInv, TypeOK
<1>2. RowsStep(h) /\ FilesStep(h)
  BY DEF RowsStep, FilesStep
<1>3. FitsAt(to, c)'
  BY DEF FitsAt
<1>4. SoundAt(to, c)'
  <2>1. CASE SoundAt(to, c)
    BY <1>1, <2>1 DEF SoundAt, Shared, Young, Expired, Whole, Partial
  <2>2. CASE to \in CatchPcs /\ failures' >= 1
    BY <2>2 DEF SoundAt, CatchPcs, SendPcs
  <2>3. QED
    BY <2>1, <2>2
<1>5. ASSUME NEW id \in DOMAIN rows, Mine(h, id) PROVE RowSound(id)'
  <2>0. pc[h] \in Working /\ id = Row(h)
    BY <1>5 DEF Mine
  <2>1. id \in DOMAIN rows
    OBVIOUS
  <2>2. RowSound(id)
    BY <2>1 DEF IInv
  <2>3. /\ Shared(id)' = Shared(id) /\ Young(id)' = Young(id) /\ rows' = rows /\ files' = files
        /\ (failures' <= 1 => failures <= 1)
    BY <1>1 DEF Shared, Young
  <2>4. \/ Caught(id) => Caught(id)'
        \/ ~rows[id].live \/ rows[id].status # "SUCCESS" \/ failures' >= 2
    <3>1. CASE to \in CatchPcs
      <4>1. pc'[h] = to /\ call'[h] = c
        BY <1>1 DEF Goto, TypeOK
      <4>2. c.row = id
        BY <2>0, <3>1 DEF Working
      <4>3. QED
        BY <3>1, <4>1, <4>2 DEF Caught, Row
    <3>2. CASE to \notin CatchPcs /\ pc[h] \in CatchPcs
      BY <2>0, <3>2
    <3>3. CASE pc[h] \notin CatchPcs
      <4>1. ASSUME NEW g \in Handlers, pc[g] \in CatchPcs, Row(g) = id
            PROVE  pc'[g] \in CatchPcs /\ Row(g)' = id
        <5>1. g # h
          BY <3>3, <4>1
        <5>2. QED
          BY <1>1, <4>1, <5>1 DEF Goto, Row, TypeOK
      <4>2. QED
        BY <4>1 DEF Caught
    <3>4. QED
      BY <3>1, <3>2, <3>3
  <2>5. ~(failures' >= 2) <=> failures' <= 1
    BY <1>1
  <2>6. RowSound(id)'
    BY <2>2, <2>3, <2>4, <2>5 DEF RowSound, Whole
  <2>7. QED
    BY <2>6
<1>6. QED
  BY <1>1, <1>2, <1>3, <1>4, <1>5, MoveKeeps
-----------------------------------------------------------------------------
(* Steps that leave rows and files alone.                                    *)

LEMMA Own ==
    ASSUME IInv, NEW h \in Handlers
    PROVE  /\ TypeOK /\ call[h] \in Calls
           /\ FitsAt(pc[h], call[h]) /\ SoundAt(pc[h], call[h])
           /\ Row(h) = call[h].row /\ File(h) = call[h].name
           /\ started \in 0..MaxBackups /\ failures \in 0..MaxFailures
           /\ failures \in Nat /\ failures >= failures
           /\ pc[h] \in Working \cup SendPcs => Row(h) \in DOMAIN rows
<1>1. TypeOK /\ Sound(h) /\ Fits(h)
  BY DEF IInv, TypeOK
<1>2. FitsAt(pc[h], call[h])
  BY <1>1, FitsMeans
<1>3. QED
  BY <1>1, <1>2, Typed DEF TypeOK, Sound, Row, File, FitsAt

LEMMA FailuresGrow ==
    ASSUME TypeOK, failures < MaxFailures, failures' = failures + 1
    PROVE  failures' \in 0..MaxFailures /\ failures' >= failures /\ failures' >= 1
BY BackupsConstants DEF TypeOK

\* A handler ends.
LEMMA FinishKeeps ==
    ASSUME IInv, NEW h \in Handlers, Finish(h), UNCHANGED <<now, rows, files, started>>,
           failures' \in 0..MaxFailures, failures' >= failures,
           pc[h] \in CatchPcs =>
              ~rows[Row(h)].live \/ rows[Row(h)].status # "SUCCESS" \/ failures' >= 2
    PROVE  IInv'
<1>1. Goto(h, "idle", Blank) /\ "idle" \in Pcs
  BY DEF Finish, Pcs
<1>2. FitsAt("idle", Blank) /\ SoundAt("idle", Blank) /\ "idle" \notin Working
  BY DEF FitsAt, SoundAt, Working, TryPcs, CatchPcs, SendPcs
<1>3. QED
  BY <1>1, <1>2, BlankIsCall, QuietKeeps, Own

\* createBackup returns.
LEMMA ReturnKeeps ==
    ASSUME IInv, NEW h \in Handlers, pc[h] \in {"scanning", "deleting"}, Return(h),
           UNCHANGED <<now, rows, files, started, failures>>
    PROVE  IInv'
<1>1. pc[h] \notin CatchPcs
  BY DEF CatchPcs
<1>2. CASE Finish(h)
  BY <1>1, <1>2, FinishKeeps, Own
<1>3. CASE Goto(h, "sending", [call[h] EXCEPT !.doomed = {}])
  <2>1. PICK c : c = [call[h] EXCEPT !.doomed = {}]
    OBVIOUS
  <2>2. c \in Calls /\ c.row = call[h].row /\ c.name = call[h].name
    BY <2>1, Own DEF Calls
  <2>3. FitsAt("sending", c)
    BY <2>2, Own DEF FitsAt, Working, TryPcs, SendPcs
  <2>4. SoundAt("sending", c)
    BY <2>2, Own DEF SoundAt, CatchPcs, SendPcs
  <2>5. Goto(h, "sending", c) /\ "sending" \in Pcs /\ "sending" \notin Working
    BY <1>3, <2>1 DEF Pcs, SendPcs, Working, TryPcs, CatchPcs
  <2>6. QED
    BY <1>1, <2>2, <2>3, <2>4, <2>5, QuietKeeps, Own
<1>4. QED
  BY <1>2, <1>3 DEF Return

\* Into the catch clause, after an error that counts or on a row that is still RUNNING.
LEMMA CatchKeeps ==
    ASSUME IInv, NEW h \in Handlers, pc[h] \in TryPcs, NEW c \in Calls,
           c.row = call[h].row, c.name = call[h].name, Goto(h, "clearing", c),
           UNCHANGED <<now, rows, files, started>>,
           failures' \in 0..MaxFailures, failures' >= failures,
           rows[Row(h)].status = "RUNNING" \/ failures' >= 1
    PROVE  IInv'
<1>1. "clearing" \in Pcs /\ pc[h] \in Working /\ pc[h] \notin CatchPcs /\ "clearing" \in CatchPcs
  BY DEF Pcs, CatchPcs, Working, TryPcs
<1>2. FitsAt("clearing", c)
  BY <1>1, Own DEF FitsAt
<1>3. SoundAt("clearing", c) \/ failures' >= 1
  BY Own DEF SoundAt, SendPcs
<1>4. QED
  BY <1>1, <1>2, <1>3, QuietKeeps, Own

LEMMA QuietCreate ==
    ASSUME IInv, NEW h \in Handlers,
           Start(h) \/ DumpFails(h) \/ Measure(h)
    PROVE  IInv'
<1>1. CASE Start(h)
  <2>1. PICK c : c = [Blank EXCEPT !.name = now]
    OBVIOUS
  <2>2. c \in Calls
    BY <2>1, BlankIsCall, Own DEF Calls, TypeOK
  <2>3. "inserting" \in Pcs /\ "inserting" \notin Working \cup SendPcs
    BY DEF Pcs, Working, TryPcs, CatchPcs, SendPcs
  <2>4. FitsAt("inserting", c) /\ SoundAt("inserting", c)
    BY <2>3 DEF FitsAt, SoundAt, Working
  <2>5. started' \in 0..MaxBackups /\ pc[h] \notin CatchPcs
    BY <1>1, Own, BackupsConstants DEF Start, CatchPcs
  <2>6. Goto(h, "inserting", c) /\ UNCHANGED <<now, rows, files, failures>>
    BY <1>1, <2>1 DEF Start
  <2>7. QED
    BY <2>2, <2>3, <2>4, <2>5, <2>6, QuietKeeps, Own
<1>2. CASE DumpFails(h)
  <2>1. /\ pc[h] \in {"opening", "dumping"} /\ Goto(h, "clearing", call[h])
        /\ UNCHANGED <<now, rows, files, started, failures>>
    BY <1>2 DEF DumpFails
  <2>2. rows[Row(h)].status = "RUNNING"
    BY <2>1, Own DEF SoundAt
  <2>3. QED
    BY <2>1, <2>2, CatchKeeps, Own DEF TryPcs
<1>3. CASE Measure(h)
  <2>1. pc[h] = "measuring" /\ UNCHANGED <<now, rows, files, started, failures>>
    BY <1>3 DEF Measure
  <2>2. rows[Row(h)].status = "RUNNING"
    BY <2>1, Own DEF SoundAt
  <2>3. CASE Goto(h, "clearing", call[h])
    BY <2>1, <2>2, <2>3, CatchKeeps, Own DEF TryPcs
  <2>4. CASE /\ files[File(h)] # None
             /\ Goto(h, "storing", [call[h] EXCEPT !.read = files[File(h)]])
    <3>1. PICK c : c = [call[h] EXCEPT !.read = files[File(h)]]
      OBVIOUS
    <3>2. files[File(h)] \in Contents \cup {None}
      BY Own, Typed DEF TypeOK
    <3>3. c \in Calls /\ c.row = call[h].row /\ c.name = call[h].name /\ c.read = files[File(h)]
      BY <3>1, <3>2, Own DEF Calls
    <3>4. pc[h] \in Working /\ pc[h] \notin CatchPcs /\ "storing" \in Pcs
      BY <2>1 DEF Working, TryPcs, CatchPcs, Pcs
    <3>5. FitsAt("storing", c)
      BY <2>4, <3>3, <3>4, Own DEF FitsAt
    <3>6. SoundAt("storing", c)
      BY <2>1, <2>4, <3>3, Own DEF SoundAt, CatchPcs, SendPcs
    <3>7. Goto(h, "storing", c)
      BY <2>4, <3>1
    <3>8. QED
      BY <2>1, <3>3, <3>4, <3>5, <3>6, <3>7, QuietKeeps, Own
  <2>5. QED
    BY <1>3, <2>3, <2>4 DEF Measure
<1>4. QED
  BY <1>1, <1>2, <1>3

\* A handler goes on with the unlinking.
LEMMA AfterUnlinkKeeps ==
    ASSUME IInv, NEW h \in Handlers, pc[h] = "unlinking", NEW id, AfterUnlink(h, id)
    PROVE  \E to \in {"unlinking", "deleting"}, c \in Calls :
              /\ Goto(h, to, c) /\ to \in Pcs /\ to \in Working
              /\ c.row = Row(h) /\ c.name = File(h)
              /\ FitsAt(to, c) /\ SoundAt(to, c)
<1>1. PICK to : to = IF call[h].todo = {id} THEN "deleting" ELSE "unlinking"
  OBVIOUS
<1>2. PICK c : c = [call[h] EXCEPT !.todo = @ \ {id}]
  OBVIOUS
<1>3. /\ c \in Calls /\ c.row = call[h].row /\ c.name = call[h].name
      /\ c.doomed = call[h].doomed /\ c.todo \subseteq call[h].todo
  BY <1>2, Own DEF Calls
<1>4. to \in {"unlinking", "deleting"} /\ to \in Pcs /\ to \in Working /\ pc[h] \in Working
  BY <1>1 DEF Pcs, Working, TryPcs
<1>5. FitsAt(to, c)
  BY <1>3, <1>4, Own DEF FitsAt
<1>6. SoundAt(to, c)
  BY <1>3, <1>4, Own DEF SoundAt, CatchPcs, SendPcs
<1>7. Goto(h, to, c)
  BY <1>1, <1>2 DEF AfterUnlink
<1>8. QED
  BY <1>3, <1>4, <1>5, <1>6, <1>7, Own

LEMMA QuietPrune ==
    ASSUME IInv, NEW h \in Handlers,
           FindExpired(h) \/ (\E id \in call[h].todo : UnlinkFails(h, id))
    PROVE  IInv'
<1>1. CASE FindExpired(h)
  <2> DEFINE D == {id \in Live : Expired(id)}
  <2>1. /\ pc[h] = "scanning" /\ UNCHANGED <<now, rows, files, started, failures>>
        /\ Return(h) \/ Goto(h, "unlinking", [call[h] EXCEPT !.doomed = D, !.todo = D])
    BY <1>1 DEF FindExpired
  <2>2. CASE Return(h)
    BY <2>1, <2>2, ReturnKeeps
  <2>3. CASE Goto(h, "unlinking", [call[h] EXCEPT !.doomed = D, !.todo = D])
    <3>1. PICK c : c = [call[h] EXCEPT !.doomed = D, !.todo = D]
      OBVIOUS
    <3>2. \A i \in D : i \in DOMAIN rows /\ i \in Nat /\ Expired(i)
      BY Own, Typed DEF Live
    <3> HIDE DEF D
    <3>3. c \in Calls /\ c.row = call[h].row /\ c.name = call[h].name /\ c.doomed = D /\ c.todo = D
      BY <3>1, <3>2, Own DEF Calls
    <3>4. pc[h] \in Working /\ pc[h] \notin CatchPcs /\ "unlinking" \in Pcs
      BY <2>1 DEF Working, TryPcs, CatchPcs, Pcs
    <3>5. FitsAt("unlinking", c)
      BY <3>3, <3>4, Own DEF FitsAt
    <3>6. SoundAt("unlinking", c)
      BY <2>1, <3>2, <3>3, Own DEF SoundAt, CatchPcs, SendPcs
    <3>7. Goto(h, "unlinking", c)
      BY <2>3, <3>1
    <3>8. QED
      BY <2>1, <3>3, <3>4, <3>5, <3>6, <3>7, QuietKeeps, Own
  <2>4. QED
    BY <2>1, <2>2, <2>3
<1>2. ASSUME NEW id \in call[h].todo, UnlinkFails(h, id) PROVE IInv'
  <2>1. /\ pc[h] = "unlinking" /\ AfterUnlink(h, id)
        /\ UNCHANGED <<now, rows, files, started>>
        /\ failures < MaxFailures /\ failures' = failures + 1
    BY <1>2 DEF UnlinkFails
  <2>2. PICK to \in {"unlinking", "deleting"}, c \in Calls :
              /\ Goto(h, to, c) /\ to \in Pcs /\ to \in Working
              /\ c.row = Row(h) /\ FitsAt(to, c) /\ SoundAt(to, c)
    BY <2>1, AfterUnlinkKeeps
  <2>3. pc[h] \in Working /\ pc[h] \notin CatchPcs
    BY <2>1 DEF Working, TryPcs, CatchPcs
  <2>4. QED
    BY <2>1, <2>2, <2>3, QuietKeeps, Own, FailuresGrow
<1>3. QED
  BY <1>1, <1>2

LEMMA DeliverStep ==
    ASSUME IInv, NEW h \in Handlers, Deliver(h)
    PROVE  IInv'
<1>1. CASE Request(h)
  <2>1. "finding" \in Pcs /\ "finding" \notin Working \cup SendPcs
    BY DEF Pcs, Working, TryPcs, CatchPcs, SendPcs
  <2>2. FitsAt("finding", Blank) /\ SoundAt("finding", Blank)
    BY <2>1 DEF FitsAt, SoundAt, Working
  <2>3. /\ Goto(h, "finding", Blank) /\ UNCHANGED <<now, rows, files, started, failures>>
        /\ pc[h] \notin CatchPcs
    BY <1>1 DEF Request, CatchPcs
  <2>4. QED
    BY <2>1, <2>2, <2>3, QuietKeeps, Own, BlankIsCall
<1>2. ASSUME NEW id \in DOMAIN rows, FindLatest(h, id) PROVE IInv'
  <2>1. PICK c : c = [Blank EXCEPT !.row = id, !.name = rows[id].name]
    OBVIOUS
  <2>2. c \in Calls /\ c.row = id /\ c.name = rows[id].name
    <3>1. id \in Nat /\ rows[id].name \in Time
      BY Own, Typed
    <3>2. QED
      BY <2>1, <3>1, BlankIsCall DEF Calls
  <2>3. "checking" \in Pcs /\ "checking" \notin Working /\ "checking" \in SendPcs
    BY DEF Pcs, Working, TryPcs, CatchPcs, SendPcs
  <2>4. RowSound(id) /\ rows[id].status = "SUCCESS"
    BY <1>2 DEF IInv, FindLatest, Successes
  <2>5. FitsAt("checking", c)
    BY <2>2, <2>3 DEF FitsAt
  <2>6. ~Shared(id) => files[rows[id].name] \in {None, Whole(id)}
    BY <2>4 DEF RowSound
  <2>7. SoundAt("checking", c)
    BY <2>2, <2>4, <2>6 DEF SoundAt, CatchPcs
  <2>8. /\ Goto(h, "checking", c) /\ UNCHANGED <<now, rows, files, started, failures>>
        /\ pc[h] \notin CatchPcs
    BY <1>2, <2>1 DEF FindLatest, CatchPcs
  <2>9. QED
    BY <2>2, <2>3, <2>5, <2>7, <2>8, QuietKeeps, Own
<1>3. CASE CheckFile(h)
  <2>1. /\ pc[h] = "checking" /\ Goto(h, "sending", call[h])
        /\ UNCHANGED <<now, rows, files, started, failures>>
    BY <1>3 DEF CheckFile
  <2>2. /\ "sending" \in Pcs /\ "sending" \notin Working /\ pc[h] \notin CatchPcs
    BY <2>1 DEF Pcs, Working, TryPcs, CatchPcs, SendPcs
  <2>3. FitsAt("sending", call[h]) /\ SoundAt("sending", call[h])
    BY <2>1, Own DEF FitsAt, SoundAt, SendPcs, CatchPcs
  <2>4. QED
    BY <2>1, <2>2, <2>3, QuietKeeps, Own
<1>4. CASE EndDelivery(h)
  <2>1. /\ Finish(h) /\ pc[h] \notin CatchPcs
        /\ UNCHANGED <<now, rows, files, started, failures>>
    BY <1>4 DEF EndDelivery, SendPcs, CatchPcs
  <2>2. QED
    BY <2>1, FinishKeeps, Own
<1>5. QED
  BY <1>1, <1>2, <1>3, <1>4 DEF Deliver
-----------------------------------------------------------------------------
(* Steps that change rows or files.                                          *)

\* A row is updated by its own handler.
LEMMA SettleType ==
    ASSUME IInv, NEW h \in Handlers, pc[h] \in Working,
           NEW status \in {"SUCCESS", "FAILED"}, NEW sum \in Contents \cup {None},
           Settle(h, status, sum), now' = now, NEW id, id = Row(h)
    PROVE  /\ rows' \in Seq(Rows) /\ files' = files /\ RowsStep(h) /\ FilesStep(h)
           /\ id \in DOMAIN rows /\ DOMAIN rows' = DOMAIN rows
           /\ rows'[id].status = status /\ rows'[id].sum = sum
           /\ rows'[id].name = rows[id].name /\ rows'[id].live = rows[id].live
           /\ Shared(id)' = Shared(id) /\ Young(id)' = Young(id)
<1>1. /\ TypeOK /\ rows \in Seq(Rows) /\ id \in DOMAIN rows
      /\ Len(rows) \in Nat /\ DOMAIN rows = 1..Len(rows) /\ now \in Time
      /\ \A i \in DOMAIN rows : rows[i] \in Rows
  BY Own, Typed DEF TypeOK
<1> DEFINE new == [rows[id] EXCEPT !.status = status, !.sum = sum, !.finished = now]
<1>2. /\ rows' = [rows EXCEPT ![id] = new] /\ files' = files
  BY DEF Settle
<1>3. /\ new \in Rows /\ new.status = status /\ new.sum = sum /\ new.name = rows[id].name
      /\ new.live = rows[id].live /\ new.created = rows[id].created
  BY <1>1 DEF Rows
<1> HIDE DEF new
<1>4. /\ rows' \in Seq(Rows) /\ DOMAIN rows' = DOMAIN rows /\ rows'[id] = new
      /\ \A i \in DOMAIN rows : i # id => rows'[i] = rows[i]
  BY <1>1, <1>2, <1>3
<1>5. \A i \in DOMAIN rows : rows'[i].name = rows[i].name /\ rows'[i].created = rows[i].created
                              /\ rows'[i].live = rows[i].live
  BY <1>3, <1>4
<1>6. RowsStep(h)
  BY <1>3, <1>4, <1>5 DEF RowsStep, Mine
<1>7. FilesStep(h)
  BY <1>2 DEF FilesStep
<1>8. Shared(id)' = Shared(id) /\ Young(id)' = Young(id)
  BY <1>1, <1>4, <1>5 DEF Shared, Young
<1>9. QED
  BY <1>1, <1>2, <1>3, <1>4, <1>5, <1>6, <1>7, <1>8

\* The row says SUCCESS: the handler goes on, or a failed call sends it to the catch clause.
LEMMA StoreKeeps ==
    ASSUME IInv, NEW h \in Handlers, pc[h] = "storing",
           Settle(h, "SUCCESS", call[h].read), UNCHANGED <<now, started>>,
           failures' \in 0..MaxFailures, failures' >= failures,
           NEW to \in {"scanning", "clearing"}, Goto(h, to, [call[h] EXCEPT !.read = None]),
           to = "clearing" => failures' >= 1
    PROVE  IInv'
<1>0. PICK id : id = Row(h)
  OBVIOUS
<1>1. PICK c : c = [call[h] EXCEPT !.read = None]
  OBVIOUS
<1>2. /\ c \in Calls /\ c.row = id /\ c.name = File(h) /\ Goto(h, to, c)
      /\ call[h].read \in Contents \cup {None}
  BY <1>0, <1>1, Own DEF Calls
<1>3. pc[h] \in Working /\ pc[h] \notin CatchPcs /\ to \in Pcs /\ to \in Working
  BY DEF Working, TryPcs, CatchPcs, Pcs
<1>4. /\ rows' \in Seq(Rows) /\ files' = files /\ RowsStep(h) /\ FilesStep(h)
      /\ id \in DOMAIN rows /\ DOMAIN rows' = DOMAIN rows
      /\ rows'[id].status = "SUCCESS" /\ rows'[id].sum = call[h].read
      /\ rows'[id].name = rows[id].name
      /\ Shared(id)' = Shared(id) /\ Young(id)' = Young(id)
  BY <1>0, <1>2, <1>3, SettleType
<1>5. ~Shared(id) => /\ files[File(h)] \in {None, Whole(id)}
                     /\ Young(id) => files[File(h)] # None
                     /\ call[h].read = Whole(id)
  BY <1>0, Own DEF SoundAt
<1>6. rows[id].name = File(h) /\ FitsAt(to, c)'
  BY <1>0, <1>2, <1>3, <1>4, Own DEF FitsAt
<1>7. SoundAt(to, c)'
  BY <1>2, <1>4, <1>5 DEF SoundAt, CatchPcs, SendPcs, Whole
<1>8. RowSound(id)'
  BY <1>4, <1>5, <1>6 DEF RowSound, Whole
<1>9. \A i \in DOMAIN rows : Mine(h, i) => RowSound(i)'
  BY <1>0, <1>8 DEF Mine
<1>10. files' \in [Time -> Contents \cup {None}] /\ started' \in 0..MaxBackups
  BY <1>4, Own DEF TypeOK
<1>11. QED
  BY <1>0, <1>2, <1>3, <1>4, <1>6, <1>7, <1>9, <1>10, MoveKeeps

\* The row says FAILED and the handler ends.
LEMMA FailedKeeps ==
    ASSUME IInv, NEW h \in Handlers, pc[h] = "failing",
           Settle(h, "FAILED", rows[Row(h)].sum), Finish(h), UNCHANGED <<now, started>>,
           failures' \in 0..MaxFailures, failures' >= failures
    PROVE  IInv'
<1>0. PICK id : id = Row(h)
  OBVIOUS
<1>1. pc[h] \in Working /\ "idle" \in Pcs /\ "idle" \notin Working \cup SendPcs
  BY DEF Working, TryPcs, CatchPcs, SendPcs, Pcs
<1>2. id \in DOMAIN rows /\ rows[id].sum \in Contents \cup {None}
  BY <1>0, <1>1, Own, Typed DEF Rows
<1>3. /\ rows' \in Seq(Rows) /\ files' = files /\ RowsStep(h) /\ FilesStep(h)
      /\ rows'[id].status = "FAILED"
  BY <1>0, <1>1, <1>2, SettleType
<1>4. FitsAt("idle", Blank)' /\ SoundAt("idle", Blank)'
  BY <1>1 DEF FitsAt, SoundAt, Working, Blank
<1>5. \A i \in DOMAIN rows : Mine(h, i) => RowSound(i)'
  BY <1>0, <1>3 DEF Mine, RowSound
<1>6. files' \in [Time -> Contents \cup {None}] /\ started' \in 0..MaxBackups
  BY <1>3, Own DEF TypeOK
<1>7. QED
  BY <1>1, <1>3, <1>4, <1>5, <1>6, BlankIsCall, MoveKeeps DEF Finish

\* A new row is nobody's and RUNNING.
LEMMA InsertKeeps ==
    ASSUME IInv, NEW h \in Handlers, pc[h] = "inserting", InsertRow(h),
           UNCHANGED <<now, started>>, failures' \in 0..MaxFailures, failures' >= failures,
           \/ Goto(h, "opening", [call[h] EXCEPT !.row = Len(rows) + 1])
           \/ Finish(h)
    PROVE  IInv'
<1> DEFINE new == [name |-> File(h), status |-> "RUNNING", created |-> now,
                   finished |-> None, sum |-> None, live |-> TRUE]
<1>1. PICK n : n = Len(rows) + 1
  OBVIOUS
<1>2. rows' = Append(rows, new) /\ files' = files
  BY DEF InsertRow
<1>3. /\ new \in Rows /\ new.status = "RUNNING" /\ new.name = File(h)
      /\ rows \in Seq(Rows) /\ DOMAIN rows = 1..(n - 1) /\ n \in Nat \ {0}
  <2>1. /\ File(h) \in Time /\ now \in Time /\ rows \in Seq(Rows)
        /\ Len(rows) \in Nat /\ DOMAIN rows = 1..Len(rows)
    BY Own, Typed DEF TypeOK
  <2>2. new \in Rows /\ new.status = "RUNNING" /\ new.name = File(h)
    BY <2>1 DEF Rows
  <2>3. DOMAIN rows = 1..(n - 1) /\ n \in Nat \ {0}
    BY <1>1, <2>1
  <2>4. QED
    BY <2>1, <2>2, <2>3
<1> HIDE DEF new
<1>4. /\ rows' \in Seq(Rows) /\ DOMAIN rows' = 1..n /\ rows'[n] = new
      /\ \A i \in 1..(n - 1) : rows'[i] = rows[i]
  BY <1>1, <1>2, <1>3
<1>5. RowsStep(h) /\ FilesStep(h)
  BY <1>2, <1>3, <1>4 DEF RowsStep, FilesStep
<1>6. files' \in [Time -> Contents \cup {None}] /\ started' \in 0..MaxBackups
  BY <1>2, Own DEF TypeOK
<1>7. pc[h] \notin Working
  BY DEF Working, TryPcs, CatchPcs
<1>8. \A i \in DOMAIN rows : ~Mine(h, i)
  BY <1>7 DEF Mine
<1>9. CASE Goto(h, "opening", [call[h] EXCEPT !.row = Len(rows) + 1])
  <2>1. PICK c : c = [call[h] EXCEPT !.row = n]
    OBVIOUS
  <2>2. c \in Calls /\ c.row = n /\ c.name = File(h) /\ Goto(h, "opening", c)
    <3>1. call[h] \in Calls /\ File(h) = call[h].name /\ n \in Nat
      BY <1>3, Own
    <3>2. c \in Calls /\ c.row = n /\ c.name = call[h].name
      BY <2>1, <3>1 DEF Calls
    <3>3. QED
      BY <1>1, <1>9, <2>1, <3>1, <3>2
  <2>3. FitsAt("opening", c)'
    BY <1>3, <1>4, <2>2 DEF FitsAt
  <2>4. SoundAt("opening", c)'
    BY <1>3, <1>4, <2>2 DEF SoundAt, CatchPcs, SendPcs
  <2>5. "opening" \in Pcs /\ c.row \notin DOMAIN rows
    BY <1>3, <2>2 DEF Pcs, TryPcs
  <2>6. QED
    BY <1>4, <1>5, <1>6, <1>8, <2>2, <2>3, <2>4, <2>5, MoveKeeps
<1>10. CASE Finish(h)
  <2>1. "idle" \in Pcs /\ "idle" \notin Working \cup SendPcs
    BY DEF Working, TryPcs, CatchPcs, SendPcs, Pcs
  <2>2. FitsAt("idle", Blank)' /\ SoundAt("idle", Blank)'
    BY <2>1 DEF FitsAt, SoundAt, Working, Blank
  <2>3. QED
    BY <1>4, <1>5, <1>6, <1>8, <1>10, <2>1, <2>2, BlankIsCall, MoveKeeps DEF Finish
<1>11. QED
  BY <1>9, <1>10

\* A handler of the same file on another row makes the name shared.
LEMMA DumpsAlone ==
    ASSUME IInv, NEW h \in Handlers, pc[h] = "opening", ~Shared(Row(h))
    PROVE  Dumping(File(h)) = {}
<1>1. ASSUME NEW g \in Handlers, pc[g] = "dumping", File(g) = File(h) PROVE FALSE
  <2>1. g # h /\ pc[g] \in Working /\ pc[h] \in Working
    BY <1>1 DEF Working, TryPcs
  <2>2. Row(g) # Row(h)
    BY <2>1 DEF IInv, Apart
  <2>3. /\ Row(g) \in DOMAIN rows /\ rows[Row(g)].name = File(g)
        /\ Row(h) \in DOMAIN rows /\ rows[Row(h)].name = File(h)
    BY <2>1, Own DEF FitsAt
  <2>4. QED
    BY <1>1, <2>2, <2>3 DEF Shared
<1>2. QED
  BY <1>1 DEF Dumping

\* Writing one's own file.
LEMMA WriteKeeps ==
    ASSUME IInv, NEW h \in Handlers, NEW to \in {"dumping", "measuring"},
           pc[h] \in {"opening", "dumping"}, Goto(h, to, call[h]),
           NEW f \in Contents \cup {None}, files' = [files EXCEPT ![File(h)] = f],
           UNCHANGED <<now, rows, started, failures>>,
           NEW id, id = Row(h),
           ~Shared(id) => /\ f \in {None, IF to = "dumping" THEN Partial(id) ELSE Whole(id)}
                          /\ Young(id) => f # None
    PROVE  IInv'
<1>1. PICK c : c = call[h]
  OBVIOUS
<1>2. c \in Calls /\ c.row = id /\ c.name = File(h) /\ Goto(h, to, c)
  BY <1>1, Own
<1>3. pc[h] \in Working /\ pc[h] \notin CatchPcs /\ to \in Pcs /\ to \in Working
  BY DEF Working, TryPcs, CatchPcs, Pcs
<1>4. files \in [Time -> Contents \cup {None}] /\ rows \in Seq(Rows) /\ File(h) \in Time
  BY Own, Typed DEF TypeOK
<1>5. /\ files' \in [Time -> Contents \cup {None}] /\ files'[File(h)] = f
      /\ \A n \in Time : n # File(h) => files'[n] = files[n]
  BY <1>4
<1>6. RowsStep(h) /\ FilesStep(h)
  BY <1>5 DEF RowsStep, FilesStep
<1>7. FitsAt(to, c)'
  BY <1>2, <1>3, Own DEF FitsAt
<1>8. rows[id].status = "RUNNING"
  BY Own DEF SoundAt
<1>9. Shared(id)' = Shared(id) /\ Young(id)' = Young(id)
  BY DEF Shared, Young
<1>10. SoundAt(to, c)'
  BY <1>2, <1>5, <1>8, <1>9 DEF SoundAt, CatchPcs, SendPcs, Whole, Partial
<1>11. \A i \in DOMAIN rows : Mine(h, i) => RowSound(i)'
  BY <1>8 DEF Mine, RowSound
<1>12. QED
  BY <1>2, <1>3, <1>4, <1>5, <1>6, <1>7, <1>10, <1>11, MoveKeeps, Own

LEMMA OpenStep ==
    ASSUME IInv, NEW h \in Handlers, Open(h)
    PROVE  IInv'
<1>0. PICK id : id = Row(h)
  OBVIOUS
<1>1. PICK f : f = [by |-> Row(h), state |-> IF Dumping(File(h)) = {} THEN "partial" ELSE "mixed"]
  OBVIOUS
<1>2. /\ pc[h] = "opening" /\ files' = [files EXCEPT ![File(h)] = f]
      /\ Goto(h, "dumping", call[h]) /\ UNCHANGED <<now, rows, started, failures>>
  BY <1>1 DEF Open
<1>3. id \in Nat \ {0}
  BY <1>0, <1>2, Own, Typed DEF Working, TryPcs
<1>4. f \in Contents /\ f # None
  BY <1>0, <1>1, <1>3, NoContent DEF Contents
<1>5. ~Shared(id) => f = Partial(id)
  BY <1>0, <1>1, <1>2, DumpsAlone DEF Partial
<1>6. QED
  BY <1>0, <1>2, <1>4, <1>5, WriteKeeps

LEMMA DumpDoneStep ==
    ASSUME IInv, NEW h \in Handlers, DumpDone(h)
    PROVE  IInv'
<1>0. PICK id : id = Row(h)
  OBVIOUS
<1>1. /\ pc[h] = "dumping" /\ Goto(h, "measuring", call[h])
      /\ UNCHANGED <<now, rows, started, failures>>
      /\ files' = IF files[File(h)] = Partial(id)
                    THEN [files EXCEPT ![File(h)].state = "whole"] ELSE files
  BY <1>0 DEF DumpDone, Partial
<1>2. /\ files \in [Time -> Contents \cup {None}] /\ File(h) \in Time
      /\ id \in Nat \ {0}
  BY <1>0, <1>1, Own, Typed DEF TypeOK, Working, TryPcs
<1>3. ~Shared(id) => /\ files[File(h)] \in {None, Partial(id)}
                     /\ Young(id) => files[File(h)] # None
  BY <1>0, <1>1, Own DEF SoundAt
<1>4. /\ Whole(id) \in Contents /\ Partial(id) \in Contents
      /\ Whole(id) # None /\ Partial(id) # None
  BY <1>2, NoContent DEF Whole, Partial, Contents
<1>5. CASE files[File(h)] = Partial(id)
  <2>1. files' = [files EXCEPT ![File(h)] = Whole(id)]
    <3>1. [Partial(id) EXCEPT !.state = "whole"] = Whole(id)
      BY DEF Whole, Partial
    <3>2. files' = [files EXCEPT ![File(h)] = [files[File(h)] EXCEPT !.state = "whole"]]
      BY <1>1, <1>5
    <3>3. QED
      BY <1>5, <3>1, <3>2
  <2>2. QED
    BY <1>0, <1>1, <1>4, <2>1, WriteKeeps
<1>6. CASE files[File(h)] # Partial(id)
  <2>1. PICK f : f = files[File(h)]
    OBVIOUS
  <2>2. f \in Contents \cup {None} /\ files' = [files EXCEPT ![File(h)] = f]
    BY <1>1, <1>2, <1>6, <2>1
  <2>3. ~Shared(id) => f = None /\ ~Young(id)
    BY <1>3, <1>6, <2>1
  <2>4. QED
    BY <1>0, <1>1, <2>2, <2>3, WriteKeeps
<1>7. QED
  BY <1>5, <1>6
-----------------------------------------------------------------------------
(* Retention.                                                                *)

LEMMA StoreStep ==
    ASSUME IInv, NEW h \in Handlers, Store(h)
    PROVE  IInv'
<1>1. pc[h] = "storing" /\ UNCHANGED <<now, started, failures>>
  BY DEF Store
<1>2. CASE /\ Settle(h, "SUCCESS", call[h].read)
           /\ Goto(h, "scanning", [call[h] EXCEPT !.read = None])
  BY <1>1, <1>2, StoreKeeps, Own
<1>3. CASE /\ Goto(h, "clearing", [call[h] EXCEPT !.read = None])
           /\ UNCHANGED <<rows, files>>
  <2>1. PICK c : c = [call[h] EXCEPT !.read = None]
    OBVIOUS
  <2>2. c \in Calls /\ c.row = call[h].row /\ c.name = call[h].name /\ Goto(h, "clearing", c)
    BY <1>3, <2>1, Own DEF Calls
  <2>3. rows[Row(h)].status = "RUNNING"
    BY <1>1, Own DEF SoundAt
  <2>4. pc[h] \in TryPcs
    BY <1>1 DEF TryPcs
  <2>5. QED
    BY <1>1, <1>3, <2>2, <2>3, <2>4, CatchKeeps, Own
<1>4. QED
  BY <1>2, <1>3 DEF Store

\* A file goes with its expired row.
LEMMA UnlinkStep ==
    ASSUME IInv, NEW h \in Handlers, NEW d \in call[h].todo, Unlink(h, d)
    PROVE  IInv'
<1>0. PICK n : n = rows[d].name
  OBVIOUS
<1>1. /\ pc[h] = "unlinking" /\ AfterUnlink(h, d)
      /\ files' = [files EXCEPT ![n] = None] /\ UNCHANGED <<now, rows, started, failures>>
  BY <1>0 DEF Unlink, Remove
<1>2. /\ d \in DOMAIN rows /\ Expired(d)
      /\ TypeOK /\ files \in [Time -> Contents \cup {None}] /\ rows \in Seq(Rows)
  BY <1>1, Own DEF SoundAt, TypeOK
<1>3. n \in Time /\ ~Young(d)
  BY <1>0, <1>2, Typed DEF Expired, Young
<1>4. /\ files' \in [Time -> Contents \cup {None}] /\ files'[n] = None
      /\ \A m \in Time : m # n => files'[m] = files[m]
  BY <1>1, <1>2, <1>3
<1>5. RowsStep(h) /\ FilesStep(h)
  BY <1>0, <1>1, <1>2, <1>3, <1>4 DEF RowsStep, FilesStep
<1>6. PICK to \in {"unlinking", "deleting"}, c \in Calls :
            /\ Goto(h, to, c) /\ to \in Pcs /\ to \in Working
            /\ c.row = Row(h) /\ c.name = File(h)
            /\ FitsAt(to, c) /\ SoundAt(to, c)
  BY <1>1, AfterUnlinkKeeps
<1>7. PICK id : id = Row(h)
  OBVIOUS
<1>8. /\ pc[h] \in Working /\ id \in DOMAIN rows /\ rows[id].name = File(h)
      /\ File(h) \in Time
  BY <1>1, <1>7, Own, Typed DEF FitsAt, Working, TryPcs
<1>9. ~Shared(id) => \/ files'[File(h)] = files[File(h)]
                     \/ files'[File(h)] = None /\ ~Young(id)
  BY <1>0, <1>2, <1>3, <1>4, <1>8 DEF Shared
<1>10. Shared(id)' = Shared(id) /\ Young(id)' = Young(id) /\ \A i : Expired(i)' = Expired(i)
  BY <1>1 DEF Shared, Young, Expired
<1>11. FitsAt(to, c)'
  BY <1>1, <1>6 DEF FitsAt
<1>12. SoundAt(to, c)'
  BY <1>1, <1>6, <1>7, <1>9, <1>10 DEF SoundAt, CatchPcs, SendPcs, Whole
<1>13. RowSound(id) /\ Caught(id)' = Caught(id)
  <2>1. RowSound(id)
    BY <1>8 DEF IInv
  <2>2. /\ \A g \in Handlers : g # h => pc'[g] = pc[g] /\ call'[g] = call[g]
        /\ pc'[h] = to
    BY <1>2, <1>6 DEF Goto, TypeOK
  <2>3. pc[h] \notin CatchPcs /\ to \notin CatchPcs
    BY <1>1 DEF CatchPcs
  <2>4. \A g \in Handlers : (pc'[g] \in CatchPcs /\ Row(g)' = id)
                            <=> (pc[g] \in CatchPcs /\ Row(g) = id)
    BY <2>2, <2>3 DEF Row
  <2>5. QED
    BY <2>1, <2>4 DEF Caught
<1>14. RowSound(id)'
  BY <1>1, <1>8, <1>9, <1>10, <1>13 DEF RowSound, Whole
<1>15. \A i \in DOMAIN rows : Mine(h, i) => RowSound(i)'
  BY <1>7, <1>14 DEF Mine
<1>16. QED
  BY <1>1, <1>2, <1>4, <1>5, <1>6, <1>7, <1>8, <1>11, <1>12, <1>15, MoveKeeps, Own

\* Whose catch clause it is is not forgotten by a handler outside it.
LEMMA CaughtStays ==
    ASSUME TypeOK, NEW h \in Handlers, NEW to, NEW c, Goto(h, to, c), pc[h] \notin CatchPcs,
           NEW id, Caught(id)
    PROVE  Caught(id)'
<1>1. PICK g \in Handlers : pc[g] \in CatchPcs /\ Row(g) = id
  BY DEF Caught
<1>2. pc'[g] = pc[g] /\ call'[g] = call[g]
  BY <1>1 DEF Goto, TypeOK
<1>3. QED
  BY <1>1, <1>2 DEF Caught, Row

LEMMA DeleteType ==
    ASSUME IInv, NEW h \in Handlers, pc[h] = "deleting", DeleteRows(h), now' = now
    PROVE  /\ rows' \in Seq(Rows) /\ files' = files /\ RowsStep(h) /\ FilesStep(h)
           /\ DOMAIN rows' = DOMAIN rows
           /\ \A i \in DOMAIN rows :
                 /\ rows'[i].name = rows[i].name /\ rows'[i].status = rows[i].status
                 /\ rows'[i].sum = rows[i].sum /\ rows'[i].created = rows[i].created
                 /\ rows'[i].live => rows[i].live
                 /\ rows[i].live /\ ~rows'[i].live => Expired(i)
<1>1. /\ Len(rows) \in Nat /\ DOMAIN rows = 1..Len(rows)
      /\ \A i \in DOMAIN rows : rows[i] \in Rows
      /\ \A i \in call[h].doomed : i \in DOMAIN rows /\ Expired(i)
  BY Own, Typed DEF SoundAt
<1>2. /\ rows' = [i \in DOMAIN rows |->
                    IF i \in call[h].doomed THEN [rows[i] EXCEPT !.live = FALSE] ELSE rows[i]]
      /\ files' = files
  BY DEF DeleteRows
<1>3. ASSUME NEW i \in DOMAIN rows
      PROVE  /\ rows'[i] \in Rows
             /\ rows'[i].name = rows[i].name /\ rows'[i].status = rows[i].status
             /\ rows'[i].sum = rows[i].sum /\ rows'[i].created = rows[i].created
             /\ rows'[i].live => rows[i].live
             /\ rows[i].live /\ ~rows'[i].live => Expired(i)
  <2>1. rows[i] \in Rows
    BY <1>1
  <2>2. CASE i \in call[h].doomed
    <3>1. rows'[i] = [rows[i] EXCEPT !.live = FALSE]
      BY <1>2, <2>2
    <3>2. QED
      BY <1>1, <2>1, <2>2, <3>1 DEF Rows
  <2>3. CASE i \notin call[h].doomed
    BY <1>2, <2>1, <2>3
  <2>4. QED
    BY <2>2, <2>3
<1>4. DOMAIN rows' = DOMAIN rows
  BY <1>2
<1>5. rows' \in Seq(Rows)
  <2>1. rows' \in [1..Len(rows) -> Rows]
    BY <1>1, <1>2, <1>3
  <2>2. QED
    BY <1>1, <2>1
<1>6. RowsStep(h)
  BY <1>3, <1>4 DEF RowsStep
<1>7. FilesStep(h)
  BY <1>2 DEF FilesStep
<1>8. QED
  BY <1>2, <1>3, <1>4, <1>5, <1>6, <1>7

\* Expired rows are deleted: the handler ends, sends the file, or a failed call sends it to
\* the catch clause.
LEMMA DeleteKeeps ==
    ASSUME IInv, NEW h \in Handlers, pc[h] = "deleting", DeleteRows(h),
           UNCHANGED <<now, started>>,
           failures' \in 0..MaxFailures, failures' >= failures,
           NEW to \in {"idle", "sending", "clearing"}, NEW c \in Calls, Goto(h, to, c),
           to = "idle" => c = Blank,
           to # "idle" => c.row = Row(h) /\ c.name = File(h),
           to = "clearing" => failures' >= 1
    PROVE  IInv'
<1>0. PICK id : id = Row(h)
  OBVIOUS
<1>1. /\ pc[h] \in Working /\ pc[h] \notin CatchPcs /\ to \in Pcs
      /\ TypeOK /\ id \in DOMAIN rows /\ rows[id].name = File(h)
  BY <1>0, Own DEF Working, TryPcs, CatchPcs, SendPcs, Pcs, FitsAt
<1>2. /\ rows' \in Seq(Rows) /\ files' = files /\ RowsStep(h) /\ FilesStep(h)
      /\ DOMAIN rows' = DOMAIN rows
      /\ \A i \in DOMAIN rows :
            /\ rows'[i].name = rows[i].name /\ rows'[i].status = rows[i].status
            /\ rows'[i].sum = rows[i].sum /\ rows'[i].created = rows[i].created
            /\ rows'[i].live => rows[i].live
  BY DeleteType
<1>3. Shared(id)' = Shared(id) /\ Young(id)' = Young(id)
  BY <1>1, <1>2 DEF Shared, Young
<1>4. FitsAt(to, c)'
  BY <1>0, <1>1, <1>2 DEF FitsAt, Working, TryPcs, CatchPcs, SendPcs
<1>5. rows[id].status = "SUCCESS" /\ (~Shared(id) => files[File(h)] \in {None, Whole(id)})
  BY <1>0, Own DEF SoundAt
<1>6. SoundAt(to, c)'
  BY <1>0, <1>1, <1>2, <1>3, <1>5 DEF SoundAt, CatchPcs, SendPcs, Whole
<1>7. Caught(id) => Caught(id)'
  BY <1>1, CaughtStays
<1>8. RowSound(id) /\ (failures' <= 1 => failures <= 1)
  <2>1. failures \in Nat /\ failures' \in Nat
    BY Own, BackupsConstants
  <2>2. QED
    BY <1>1, <2>1 DEF IInv
<1>9. RowSound(id)'
  BY <1>1, <1>2, <1>3, <1>7, <1>8 DEF RowSound, Whole
<1>10. \A i \in DOMAIN rows : Mine(h, i) => RowSound(i)'
  BY <1>0, <1>9 DEF Mine
<1>11. /\ files' \in [Time -> Contents \cup {None}] /\ started' \in 0..MaxBackups
  BY <1>2, Own DEF TypeOK
<1>12. to \in Working => pc[h] \in Working /\ c.row = Row(h)
  BY <1>1 DEF Working, TryPcs, CatchPcs
<1>13. QED
  BY <1>1, <1>2, <1>4, <1>6, <1>10, <1>11, <1>12, MoveKeeps

LEMMA DeleteExpiredStep ==
    ASSUME IInv, NEW h \in Handlers, DeleteExpired(h)
    PROVE  IInv'
<1>1. /\ pc[h] = "deleting" /\ DeleteRows(h) /\ Return(h)
      /\ UNCHANGED <<now, started, failures>>
  BY DEF DeleteExpired
<1>2. CASE Finish(h)
  BY <1>1, <1>2, DeleteKeeps, Own, BlankIsCall DEF Finish
<1>3. CASE Goto(h, "sending", [call[h] EXCEPT !.doomed = {}])
  <2>1. PICK c : c = [call[h] EXCEPT !.doomed = {}]
    OBVIOUS
  <2>2. c \in Calls /\ c.row = Row(h) /\ c.name = File(h) /\ Goto(h, "sending", c)
    BY <1>3, <2>1, Own DEF Calls
  <2>3. QED
    BY <1>1, <2>2, DeleteKeeps, Own
<1>4. QED
  BY <1>1, <1>2, <1>3 DEF Return
-----------------------------------------------------------------------------
(* The catch clause.                                                         *)

LEMMA ClearStep ==
    ASSUME IInv, NEW h \in Handlers, Clear(h)
    PROVE  IInv'
<1>0. PICK id : id = Row(h)
  OBVIOUS
<1>1. PICK c : c = call[h]
  OBVIOUS
<1>2. /\ pc[h] = "clearing" /\ Goto(h, "failing", c) /\ c \in Calls
      /\ files' = [files EXCEPT ![File(h)] = None]
      /\ UNCHANGED <<now, rows, started, failures>>
      /\ c.row = id /\ c.name = File(h)
  BY <1>0, <1>1, Own DEF Clear, Remove
<1>3. /\ pc[h] \in Working /\ "failing" \in Pcs /\ "failing" \in Working
      /\ "failing" \in CatchPcs /\ pc[h] \in CatchPcs
  BY <1>2 DEF Working, CatchPcs, Pcs
<1>4. /\ TypeOK /\ files \in [Time -> Contents \cup {None}] /\ rows \in Seq(Rows)
      /\ File(h) \in Time /\ id \in DOMAIN rows /\ rows[id].name = File(h)
  BY <1>0, <1>3, Own, Typed DEF TypeOK, FitsAt
<1>5. /\ files' \in [Time -> Contents \cup {None}] /\ files'[File(h)] = None
      /\ \A n \in Time : n # File(h) => files'[n] = files[n]
  BY <1>2, <1>4
<1>6. RowsStep(h) /\ FilesStep(h)
  BY <1>2, <1>5 DEF RowsStep, FilesStep
<1>7. FitsAt("failing", c)'
  BY <1>2, <1>3, <1>4 DEF FitsAt
<1>8. SoundAt("failing", c)'
  <2>1. rows[id].status = "SUCCESS" => failures >= 1
    BY <1>0, <1>3, Own DEF SoundAt
  <2>2. QED
    BY <1>2, <2>1 DEF SoundAt, CatchPcs, SendPcs
<1>9. Caught(id)'
  BY <1>2, <1>3, <1>4 DEF Goto, TypeOK, Caught, Row
<1>10. RowSound(id) /\ Shared(id)' = Shared(id)
  BY <1>2, <1>4 DEF IInv, Shared
<1>11. RowSound(id)'
  BY <1>2, <1>4, <1>5, <1>9, <1>10 DEF RowSound, Whole
<1>12. \A i \in DOMAIN rows : Mine(h, i) => RowSound(i)'
  BY <1>0, <1>11 DEF Mine
<1>13. QED
  BY <1>0, <1>2, <1>3, <1>4, <1>5, <1>6, <1>7, <1>8, <1>12, MoveKeeps, Own

LEMMA ClearFailsStep ==
    ASSUME IInv, NEW h \in Handlers, ClearFails(h)
    PROVE  IInv'
<1>1. /\ pc[h] = "clearing" /\ Goto(h, "failing", call[h])
      /\ failures < MaxFailures /\ failures' = failures + 1
      /\ UNCHANGED <<now, rows, files, started>>
  BY DEF ClearFails
<1>2. /\ pc[h] \in Working /\ "failing" \in Pcs /\ "failing" \in CatchPcs
  BY <1>1 DEF Working, CatchPcs, Pcs
<1>3. FitsAt("failing", call[h])
  BY <1>2, Own DEF FitsAt
<1>4. failures' \in 0..MaxFailures /\ failures' >= failures /\ failures' >= 1
  BY <1>1, Own, FailuresGrow
<1>5. QED
  BY <1>1, <1>2, <1>3, <1>4, QuietKeeps, Own

LEMMA MarkFailedStep ==
    ASSUME IInv, NEW h \in Handlers, MarkFailed(h)
    PROVE  IInv'
<1>1. pc[h] = "failing" /\ Finish(h) /\ UNCHANGED <<now, started, failures>>
  BY DEF MarkFailed
<1>2. CASE Settle(h, "FAILED", rows[Row(h)].sum)
  BY <1>1, <1>2, FailedKeeps, Own
<1>3. CASE Row(h) \notin Live /\ UNCHANGED <<rows, files>>
  <2>1. Row(h) \in DOMAIN rows
    BY <1>1, Own DEF Working, CatchPcs
  <2>2. ~rows[Row(h)].live
    BY <1>3, <2>1 DEF Live
  <2>3. QED
    BY <1>1, <1>3, <2>2, FinishKeeps, Own
<1>4. QED
  BY <1>2, <1>3 DEF MarkFailed
-----------------------------------------------------------------------------
(* Failures and time.                                                        *)

LEMMA ThrowStep ==
    ASSUME IInv, NEW h \in Handlers, Throw(h)
    PROVE  IInv'
<1>1. /\ UNCHANGED <<now, started>> /\ failures < MaxFailures /\ failures' = failures + 1
      /\ TypeOK /\ failures \in Nat
      /\ failures' \in 0..MaxFailures /\ failures' >= failures /\ failures' >= 1
  BY Own, FailuresGrow DEF Throw
<1>2. ASSUME pc[h] = "inserting", InsertRow(h) \/ UNCHANGED <<rows, files>>, Finish(h)
      PROVE  IInv'
  <2>1. pc[h] \notin CatchPcs
    BY <1>2 DEF CatchPcs
  <2>2. CASE InsertRow(h)
    BY <1>1, <1>2, <2>2, InsertKeeps
  <2>3. CASE UNCHANGED <<rows, files>>
    BY <1>1, <1>2, <2>1, <2>3, FinishKeeps
  <2>4. QED
    BY <1>2, <2>2, <2>3
<1>3. ASSUME pc[h] \in {"measuring", "scanning", "deleting"}, UNCHANGED <<rows, files>>,
             Goto(h, "clearing", call[h])
      PROVE  IInv'
  BY <1>1, <1>3, CatchKeeps, Own DEF TryPcs
<1>4. ASSUME pc[h] = "storing",
             \/ Settle(h, "SUCCESS", call[h].read)
             \/ UNCHANGED <<rows, files>>,
             Goto(h, "clearing", [call[h] EXCEPT !.read = None])
      PROVE  IInv'
  <2>1. CASE Settle(h, "SUCCESS", call[h].read)
    BY <1>1, <1>4, <2>1, StoreKeeps
  <2>2. CASE UNCHANGED <<rows, files>>
    <3>1. PICK c : c = [call[h] EXCEPT !.read = None]
      OBVIOUS
    <3>2. c \in Calls /\ c.row = call[h].row /\ c.name = call[h].name /\ Goto(h, "clearing", c)
      BY <1>4, <3>1, Own DEF Calls
    <3>3. QED
      BY <1>1, <1>4, <2>2, <3>2, CatchKeeps DEF TryPcs
  <2>3. QED
    BY <1>4, <2>1, <2>2
<1>5. ASSUME pc[h] = "deleting", DeleteRows(h), Goto(h, "clearing", call[h])
      PROVE  IInv'
  BY <1>1, <1>5, DeleteKeeps, Own
<1>6. ASSUME pc[h] = "failing",
             \/ Settle(h, "FAILED", rows[Row(h)].sum)
             \/ UNCHANGED <<rows, files>>,
             Finish(h)
      PROVE  IInv'
  <2>1. CASE Settle(h, "FAILED", rows[Row(h)].sum)
    BY <1>1, <1>6, <2>1, FailedKeeps
  <2>2. CASE UNCHANGED <<rows, files>>
    <3>1. pc[h] \in CatchPcs
      BY <1>6 DEF CatchPcs
    <3>2. rows[Row(h)].status = "SUCCESS" => failures >= 1
      BY <3>1, Own DEF SoundAt
    <3>3. rows[Row(h)].status # "SUCCESS" \/ failures' >= 2
      BY <1>1, <3>2
    <3>4. QED
      BY <1>1, <1>6, <2>2, <3>3, FinishKeeps
  <2>3. QED
    BY <1>6, <2>1, <2>2
<1>7. QED
  BY <1>2, <1>3, <1>4, <1>5, <1>6 DEF Throw

LEMMA CrashStep ==
    ASSUME IInv, CrashAndRestart
    PROVE  IInv'
<1>1. /\ pc' = [h \in Handlers |-> "idle"] /\ call' = [h \in Handlers |-> Blank]
      /\ UNCHANGED <<now, rows, files, started>>
      /\ failures < MaxFailures /\ failures' = failures + 1
      /\ TypeOK /\ failures \in Nat
      /\ failures' \in 0..MaxFailures
  BY Typed, FailuresGrow DEF CrashAndRestart, IInv
<1>2. \A h \in Handlers : pc'[h] = "idle" /\ call'[h] = Blank
  BY <1>1
<1>3. TypeOK'
  <2>1. pc' \in [Handlers -> Pcs] /\ call' \in [Handlers -> Calls]
    BY <1>1, BlankIsCall DEF Pcs
  <2>2. \A h \in Handlers : Fits(h)'
    BY <1>2 DEF Fits, TryPcs, CatchPcs, SendPcs
  <2>3. QED
    BY <1>1, <2>1, <2>2 DEF TypeOK
<1>4. \A h \in Handlers : Sound(h)'
  BY <1>2 DEF Sound, SoundAt, CatchPcs, SendPcs
<1>5. ASSUME NEW id \in DOMAIN rows PROVE RowSound(id)'
  <2>1. RowSound(id) /\ Shared(id)' = Shared(id) /\ Young(id)' = Young(id)
    BY <1>1 DEF IInv, Shared, Young
  <2>2. Caught(id) /\ rows[id].status = "SUCCESS" => failures >= 1
    <3>1. ASSUME NEW g \in Handlers, pc[g] \in CatchPcs, Row(g) = id,
                 rows[id].status = "SUCCESS"
          PROVE  failures >= 1
      BY <3>1, Own DEF SoundAt
    <3>2. QED
      BY <3>1 DEF Caught
  <2>3. rows[id].status = "SUCCESS" /\ failures' <= 1 => failures <= 1 /\ ~Caught(id)
    BY <1>1, <2>2
  <2>4. QED
    BY <1>1, <2>1, <2>3 DEF RowSound, Whole
<1>6. Apart'
  BY <1>2 DEF Apart, Working, TryPcs, CatchPcs
<1>7. QED
  BY <1>1, <1>3, <1>4, <1>5, <1>6 DEF IInv

LEMMA TickStep ==
    ASSUME IInv, Tick
    PROVE  IInv'
<1>1. /\ now < MaxTime /\ now' = now + 1
      /\ rows' = rows /\ files' = files /\ pc' = pc /\ call' = call
      /\ started' = started /\ failures' = failures
      /\ TypeOK /\ now \in Nat /\ Retention \in Nat
  BY Typed DEF Tick, IInv
<1>2. TypeOK'
  <2>1. now' \in Time
    BY <1>1, BackupsConstants DEF TypeOK, Time
  <2>2. \A h \in Handlers : Fits(h)'
    BY <1>1 DEF TypeOK, Fits
  <2>3. QED
    BY <1>1, <2>1, <2>2 DEF TypeOK
<1>3. \A i \in DOMAIN rows :
         /\ Shared(i)' = Shared(i) /\ (Young(i)' => Young(i)) /\ (Expired(i) => Expired(i)')
  <2>1. \A i \in DOMAIN rows : rows[i].created \in Nat
    BY <1>1, Typed
  <2>2. QED
    BY <1>1, <2>1 DEF Shared, Young, Expired
<1>4. ASSUME NEW h \in Handlers PROVE Sound(h)'
  <2>1. PICK p : p = pc[h]
    OBVIOUS
  <2>2. PICK c : c = call[h]
    OBVIOUS
  <2>3. SoundAt(p, c) /\ pc'[h] = p /\ call'[h] = c
    BY <1>1, <2>1, <2>2, Own
  <2>4. p \in Working \cup SendPcs => c.row \in DOMAIN rows
    BY <2>1, <2>2, Own
  <2>5. SoundAt(p, c)'
    BY <1>1, <1>3, <2>3, <2>4
       DEF SoundAt, Working, TryPcs, CatchPcs, SendPcs, Whole, Partial
  <2>6. QED
    BY <2>3, <2>5 DEF Sound
<1>5. ASSUME NEW id \in DOMAIN rows PROVE RowSound(id)'
  <2>1. Caught(id)' = Caught(id) /\ RowSound(id)
    BY <1>1 DEF Caught, Row, IInv
  <2>2. QED
    BY <1>1, <1>3, <2>1 DEF RowSound, Whole
<1>6. Apart'
  BY <1>1 DEF IInv, Apart, Row
<1>7. QED
  BY <1>1, <1>2, <1>4, <1>5, <1>6 DEF IInv
-----------------------------------------------------------------------------
(* The invariant holds.                                                      *)

LEMMA InitInv == Init => IInv
<1> SUFFICES ASSUME Init PROVE IInv
  OBVIOUS
<1>1. TypeOK
  <2>1. now \in Time /\ rows \in Seq(Rows) /\ started \in 0..MaxBackups /\ failures \in 0..MaxFailures
    BY BackupsConstants DEF Init, Time
  <2>2. files \in [Time -> Contents \cup {None}] /\ pc \in [Handlers -> Pcs]
    BY DEF Init, Pcs
  <2>3. call \in [Handlers -> Calls]
    BY BlankIsCall DEF Init
  <2>4. \A h \in Handlers : Fits(h)
    BY DEF Init, Fits, TryPcs, CatchPcs, SendPcs
  <2>5. QED
    BY <2>1, <2>2, <2>3, <2>4 DEF TypeOK
<1>2. \A h \in Handlers : Sound(h)
  BY DEF Init, Sound, SoundAt, CatchPcs, SendPcs
<1>3. DOMAIN rows = {}
  BY DEF Init
<1>4. Apart
  BY DEF Init, Apart, Working, TryPcs, CatchPcs
<1>5. QED
  BY <1>1, <1>2, <1>3, <1>4 DEF IInv

LEMMA StutterInv ==
    ASSUME IInv, UNCHANGED vars
    PROVE  IInv'
<1>1. /\ now' = now /\ rows' = rows /\ files' = files /\ pc' = pc /\ call' = call
      /\ started' = started /\ failures' = failures
  BY DEF vars
<1>2. TypeOK'
  BY <1>1 DEF IInv, TypeOK, Fits
<1>3. \A h \in Handlers : Sound(h)'
  BY <1>1 DEF IInv, Sound, SoundAt, Shared, Young, Expired
<1>4. \A id \in DOMAIN rows' : RowSound(id)'
  BY <1>1 DEF IInv, RowSound, Shared, Young, Caught, Row
<1>5. Apart'
  BY <1>1 DEF IInv, Apart, Row
<1>6. QED
  BY <1>2, <1>3, <1>4, <1>5 DEF IInv

LEMMA NextInv == IInv /\ [Next]_vars => IInv'
<1> SUFFICES ASSUME IInv, [Next]_vars PROVE IInv'
  OBVIOUS
<1>1. ASSUME NEW h \in Handlers, Create(h) PROVE IInv'
  <2>1. CASE Insert(h)
    <3>1. /\ pc[h] = "inserting" /\ InsertRow(h) /\ UNCHANGED <<now, started, failures>>
          /\ Goto(h, "opening", [call[h] EXCEPT !.row = Len(rows) + 1])
      BY <2>1 DEF Insert
    <3>2. QED
      BY <3>1, InsertKeeps, Own
  <2>2. QED
    BY <1>1, <2>1, QuietCreate, OpenStep, DumpDoneStep, StoreStep DEF Create
<1>2. ASSUME NEW h \in Handlers, Prune(h) PROVE IInv'
  BY <1>2, QuietPrune, UnlinkStep, DeleteExpiredStep DEF Prune
<1>3. ASSUME NEW h \in Handlers, Catch(h) PROVE IInv'
  BY <1>3, ClearStep, ClearFailsStep, MarkFailedStep DEF Catch
<1>4. QED
  BY <1>1, <1>2, <1>3, DeliverStep, ThrowStep, CrashStep, TickStep, StutterInv DEF Next

\* IInv is an invariant of the specification.
THEOREM Invariance == Spec => []IInv
<1>1. QED
  BY InitInv, NextInv, PTL DEF Spec

\* Types, and the locals a handler needs where it is.
THEOREM TypeCorrect == Spec => []TypeOK
<1>1. IInv => TypeOK
  BY DEF IInv
<1>2. QED
  BY <1>1, Invariance, PTL

\* No single failed call, crash or foreign retention run takes the file of a successful
\* backup, for any number of handlers, backups and failures elsewhere in the run's past.
THEOREM OneFailureLosesNothing == Spec => []LosingASuccessTakesTwo
<1>1. IInv => LosingASuccessTakesTwo
  <2> SUFFICES ASSUME IInv, failures <= 1, NEW id \in Lost PROVE FALSE
    BY DEF LosingASuccessTakesTwo
  <2>1. /\ id \in DOMAIN rows /\ rows[id].live /\ rows[id].status = "SUCCESS"
        /\ ~Shared(id) /\ Young(id) /\ ~Caught(id)
        /\ files[rows[id].name] # Whole(id) \/ rows[id].sum # files[rows[id].name]
    BY DEF Lost, Successes, Live, Caught, Whole
  <2>2. files[rows[id].name] = Whole(id) /\ rows[id].sum = Whole(id)
    BY <2>1 DEF IInv, RowSound
  <2>3. QED
    BY <2>1, <2>2
<1>2. QED
  BY <1>1, Invariance, PTL

\* What is sent is whole, or gone, or of a second two backups began in.
THEOREM WhatIsSentIsWhole == Spec => []DeliveriesAreWhole
<1>1. IInv => DeliveriesAreWhole
  <2> SUFFICES ASSUME IInv, NEW h \in Handlers, pc[h] \in SendPcs, ~Shared(Row(h))
               PROVE  files[File(h)] \in {None, Whole(Row(h))}
    BY DEF DeliveriesAreWhole, Whole
  <2>1. QED
    BY Own DEF SoundAt
<1>2. QED
  BY <1>1, Invariance, PTL
-----------------------------------------------------------------------------
(* What disappears.                                                          *)

Spares ==
    /\ \A id \in DOMAIN rows : rows[id].live /\ ~rows'[id].live => ~Young(id)
    /\ \A n \in Time : files[n] # None /\ files'[n] = None =>
          \/ \E id \in DOMAIN rows : rows[id].name = n /\ ~Young(id)
          \/ \E h \in Handlers : pc[h] = "clearing" /\ File(h) = n

LEMMA ExpiredIsOld ==
    ASSUME IInv, NEW id \in DOMAIN rows, Expired(id)
    PROVE  ~Young(id)
<1>1. now \in Nat /\ Retention \in Nat /\ rows[id].created \in Nat
  BY Typed DEF IInv
<1>2. QED
  BY <1>1 DEF Expired, Young

LEMMA InsertSpares == ASSUME IInv, NEW h \in Handlers, InsertRow(h) PROVE Spares
<1>1. rows \in Seq(Rows) /\ Len(rows) \in Nat /\ DOMAIN rows = 1..Len(rows)
  BY Typed DEF IInv, TypeOK
<1>2. \A i \in DOMAIN rows : rows'[i] = rows[i]
  BY <1>1 DEF InsertRow
<1>3. QED
  BY <1>2 DEF InsertRow, Spares

LEMMA SettleSpares ==
    ASSUME IInv, NEW h \in Handlers, NEW status, NEW sum, Settle(h, status, sum)
    PROVE  Spares
<1>1. \A i \in DOMAIN rows : rows[i] \in Rows
  BY Typed DEF IInv
<1>2. \A i \in DOMAIN rows : rows'[i].live = rows[i].live
  BY <1>1 DEF Settle, Rows
<1>3. QED
  BY <1>2 DEF Settle, Spares

LEMMA DeleteSpares ==
    ASSUME IInv, NEW h \in Handlers, pc[h] = "deleting", DeleteRows(h), now' = now
    PROVE  Spares
BY DeleteType, ExpiredIsOld DEF Spares

LEMMA WriteSpares ==
    ASSUME IInv, NEW h \in Handlers, NEW f \in Contents, rows' = rows,
           files' = [files EXCEPT ![File(h)] = f]
    PROVE  Spares
<1>1. files \in [Time -> Contents \cup {None}] /\ f # None
  BY NoContent DEF IInv, TypeOK
<1>2. QED
  BY <1>1 DEF Spares

LEMMA StepSpares ==
    ASSUME IInv, [Next]_vars
    PROVE  Spares
<1>1. CASE UNCHANGED <<rows, files>>
  BY <1>1 DEF Spares
<1>2. ASSUME NEW h \in Handlers, Create(h) PROVE Spares
  <2>1. CASE Insert(h)
    BY <2>1, InsertSpares DEF Insert
  <2>2. CASE Open(h)
    <3>1. PICK f : f = [by |-> Row(h), state |-> IF Dumping(File(h)) = {} THEN "partial" ELSE "mixed"]
      OBVIOUS
    <3>2. Row(h) \in Nat \ {0}
      BY <2>2, Own, Typed DEF Open, Working, TryPcs
    <3>3. f \in Contents
      BY <3>1, <3>2 DEF Contents
    <3>4. rows' = rows /\ files' = [files EXCEPT ![File(h)] = f]
      BY <2>2, <3>1 DEF Open
    <3>5. QED
      BY <3>3, <3>4, WriteSpares
  <2>3. CASE DumpDone(h)
    <3>1. CASE files' = files
      BY <2>3, <3>1 DEF DumpDone, Spares
    <3>2. CASE files' = [files EXCEPT ![File(h)].state = "whole"]
                /\ files[File(h)] = Partial(Row(h))
      <4>1. [Partial(Row(h)) EXCEPT !.state = "whole"] = Whole(Row(h))
        BY DEF Partial, Whole
      <4>2. files' = [files EXCEPT ![File(h)] = Whole(Row(h))]
        BY <3>2, <4>1
      <4>3. Row(h) \in Nat \ {0}
        BY <2>3, Own, Typed DEF DumpDone, Working, TryPcs
      <4>4. Whole(Row(h)) \in Contents
        BY <4>3 DEF Whole, Contents
      <4>5. QED
        BY <2>3, <4>2, <4>4, WriteSpares DEF DumpDone
    <3>3. QED
      BY <2>3, <3>1, <3>2 DEF DumpDone, Partial
  <2>4. CASE Store(h)
    BY <1>1, <2>4, SettleSpares DEF Store
  <2>5. CASE Start(h) \/ DumpFails(h) \/ Measure(h)
    BY <1>1, <2>5 DEF Start, DumpFails, Measure
  <2>6. QED
    BY <1>2, <2>1, <2>2, <2>3, <2>4, <2>5 DEF Create
<1>3. ASSUME NEW h \in Handlers, Prune(h) PROVE Spares
  <2>1. CASE FindExpired(h)
    BY <1>1, <2>1 DEF FindExpired
  <2>2. ASSUME NEW d \in call[h].todo, Unlink(h, d) PROVE Spares
    <3>1. /\ pc[h] = "unlinking" /\ rows' = rows
          /\ files' = [files EXCEPT ![rows[d].name] = None]
      BY <2>2 DEF Unlink, Remove
    <3>2. d \in DOMAIN rows /\ Expired(d)
      BY <3>1, Own DEF SoundAt
    <3>3. ~Young(d) /\ files \in [Time -> Contents \cup {None}]
      BY <3>2, ExpiredIsOld DEF IInv, TypeOK
    <3>4. QED
      BY <3>1, <3>2, <3>3 DEF Spares
  <2>3. ASSUME NEW d \in call[h].todo, UnlinkFails(h, d) PROVE Spares
    BY <1>1, <2>3 DEF UnlinkFails
  <2>4. CASE DeleteExpired(h)
    BY <2>4, DeleteSpares DEF DeleteExpired
  <2>5. QED
    BY <1>3, <2>1, <2>2, <2>3, <2>4 DEF Prune
<1>4. ASSUME NEW h \in Handlers, Catch(h) PROVE Spares
  <2>1. CASE Clear(h)
    <3>1. /\ pc[h] = "clearing" /\ rows' = rows /\ files' = [files EXCEPT ![File(h)] = None]
          /\ files \in [Time -> Contents \cup {None}]
      BY <2>1 DEF Clear, Remove, IInv, TypeOK
    <3>2. QED
      BY <3>1 DEF Spares
  <2>2. CASE ClearFails(h)
    BY <1>1, <2>2 DEF ClearFails
  <2>3. CASE MarkFailed(h)
    BY <1>1, <2>3, SettleSpares DEF MarkFailed
  <2>4. QED
    BY <1>4, <2>1, <2>2, <2>3 DEF Catch
<1>5. ASSUME NEW h \in Handlers, Deliver(h) PROVE Spares
  BY <1>1, <1>5 DEF Deliver, Request, FindLatest, CheckFile, EndDelivery
<1>6. ASSUME NEW h \in Handlers, Throw(h) PROVE Spares
  BY <1>1, <1>6, InsertSpares, SettleSpares, DeleteSpares DEF Throw
<1>7. QED
  BY <1>1, <1>2, <1>3, <1>4, <1>5, <1>6 DEF Next, CrashAndRestart, Tick, vars

\* A row is deleted only when it has expired; a file disappears only with an expired row of
\* its name or by the catch clause of a backup of that name.
THEOREM TheYoungAreSpared == Spec => RetentionSparesTheYoung
<1>1. IInv /\ [Next]_vars => [Spares]_vars
  BY StepSpares
<1>2. Spec => [][Spares]_vars
  BY <1>1, Invariance, PTL DEF Spec
<1>3. QED
  BY <1>2, PTL DEF RetentionSparesTheYoung, Spares

-----------------------------------------------------------------------------
(* What is left behind.                                                      *)

LEMMA MakingStays ==
    ASSUME TypeOK, NEW h \in Handlers, NEW to, NEW c, Goto(h, to, c), NEW id, Making(id),
           pc[h] \in InPlay /\ Row(h) = id => to \in InPlay /\ c.row = id
    PROVE  Making(id)'
<1>1. PICK g \in Handlers : pc[g] \in InPlay /\ Row(g) = id
  BY DEF Making
<1>2. CASE g = h
  <2>1. pc'[h] = to /\ call'[h] = c
    BY DEF Goto, TypeOK
  <2>2. QED
    BY <1>1, <1>2, <2>1 DEF Making, Row
<1>3. CASE g # h
  <2>1. pc'[g] = pc[g] /\ call'[g] = call[g]
    BY <1>3 DEF Goto, TypeOK
  <2>2. QED
    BY <1>1, <2>1 DEF Making, Row
<1>4. QED
  BY <1>2, <1>3

LEMMA BusyStays ==
    ASSUME TypeOK, NEW h \in Handlers, NEW to, NEW c, Goto(h, to, c), NEW id, Busy(id),
           pc[h] \in Working /\ Row(h) = id => to \in Working /\ c.row = id
    PROVE  Busy(id)'
<1>1. PICK g \in Handlers : pc[g] \in Working /\ Row(g) = id
  BY DEF Busy, Working
<1>2. CASE g = h
  <2>1. pc'[h] = to /\ call'[h] = c
    BY DEF Goto, TypeOK
  <2>2. QED
    BY <1>1, <1>2, <2>1 DEF Busy, Row, Working
<1>3. CASE g # h
  <2>1. pc'[g] = pc[g] /\ call'[g] = call[g]
    BY <1>3 DEF Goto, TypeOK
  <2>2. QED
    BY <1>1, <2>1 DEF Busy, Row, Working
<1>4. QED
  BY <1>2, <1>3

\* A file is gone, still its old writer's, or just opened by a backup at work.
Rewritten ==
    \A n \in Time :
        \/ files'[n] = None
        \/ files[n] # None /\ files'[n].by = files[n].by
        \/ \E id \in DOMAIN rows : files'[n].by = id /\ rows[id].name = n /\ Making(id)'

\* What a step of h must keep of each row for everything to be tidy after it.
KeepsRow(h, id) ==
    /\ id \in DOMAIN rows' /\ rows'[id].name = rows[id].name
    /\ Outlasted(id) => Outlasted(id)'
    /\ HasFile(id)' /\ Making(id) =>
          \/ Making(id)'
          \/ rows'[id].status = "SUCCESS" /\ rows'[id].live /\ (Expired(id) => Outlasted(id)')
    /\ HasFile(id)' /\ rows[id].status = "SUCCESS" /\ (rows[id].live \/ Outlasted(id)) =>
          Making(id)' \/ (rows'[id].status = "SUCCESS" /\ (rows'[id].live \/ Outlasted(id)'))

LEMMA TidyStep ==
    ASSUME IInv, failures = 0, Tidy, NEW h \in Handlers, NEW to, NEW c, Goto(h, to, c),
           Rewritten, \A id \in DOMAIN rows : KeepsRow(h, id),
           Emptied(h)', \A id \in Live' : rows'[id].status = "RUNNING" => Busy(id)'
    PROVE  Tidy'
<1>1. /\ WriterAnswers /\ TypeOK
      /\ \A g \in Handlers : Emptied(g) /\ Sound(g)
  BY DEF Tidy, IInv
<1>2. WriterAnswers'
  <2> SUFFICES ASSUME NEW n \in Time, files'[n] # None, NEW id, id = files'[n].by
               PROVE  /\ id \in DOMAIN rows' /\ rows'[id].name = n
                      /\ \/ Making(id)'
                         \/ /\ rows'[id].status = "SUCCESS"
                            /\ rows'[id].live \/ Outlasted(id)'
    BY DEF WriterAnswers
  <2>1. CASE files[n] # None /\ files'[n].by = files[n].by
    <3>1. /\ id \in DOMAIN rows /\ rows[id].name = n
          /\ \/ Making(id)
             \/ rows[id].status = "SUCCESS" /\ (rows[id].live \/ Outlasted(id))
      BY <1>1, <2>1 DEF WriterAnswers
    <3>2. KeepsRow(h, id)
      BY <3>1
    <3>3. HasFile(id)'
      BY <3>1, <3>2 DEF HasFile, KeepsRow
    <3>4. QED
      BY <3>1, <3>2, <3>3 DEF KeepsRow
  <2>2. CASE id \in DOMAIN rows /\ rows[id].name = n /\ Making(id)'
    BY <2>2 DEF KeepsRow
  <2>3. QED
    BY <2>1, <2>2 DEF Rewritten
<1>3. ASSUME NEW g \in Handlers, g # h PROVE Emptied(g)'
  <2>1. pc'[g] = pc[g] /\ call'[g] = call[g]
    BY <1>1, <1>3 DEF Goto, TypeOK
  <2>2. ASSUME pc[g] \in {"unlinking", "deleting"}, NEW id \in call[g].doomed \ call[g].todo,
               HasFile(id)'
        PROVE  Making(id)' \/ Outlasted(id)'
    <3>1. id \in DOMAIN rows /\ Expired(id)
      BY <1>1, <2>2 DEF Sound, SoundAt
    <3>2. KeepsRow(h, id)
      BY <3>1
    <3>3. rows[id].name \in Time
      BY <1>1, <3>1, Typed
    <3>4. HasFile(id) \/ Making(id)'
      <4>1. rows'[id].name = rows[id].name
        BY <3>2 DEF KeepsRow
      <4>2. files'[rows[id].name] # None /\ files'[rows[id].name].by = id
        BY <2>2, <4>1 DEF HasFile
      <4>3. QED
        BY <3>3, <4>2 DEF HasFile, Rewritten
    <3>5. HasFile(id) => Making(id) \/ Outlasted(id)
      BY <1>1, <2>2 DEF Emptied
    <3>6. QED
      BY <2>2, <3>1, <3>2, <3>4, <3>5 DEF KeepsRow
  <2>3. pc[g] = "deleting" => call[g].todo = {}
    BY <1>1 DEF Emptied
  <2>4. QED
    BY <2>1, <2>2, <2>3 DEF Emptied
<1>4. QED
  BY <1>2, <1>3 DEF Tidy

\* A step that leaves the rows alone.
LEMMA TidyFiles ==
    ASSUME IInv, failures = 0, Tidy, NEW h \in Handlers, NEW to, NEW c, Goto(h, to, c),
           rows' = rows, Rewritten, Emptied(h)',
           pc[h] \in InPlay =>
              (to \in InPlay /\ c.row = Row(h)) \/ files'[rows[Row(h)].name] = None,
           pc[h] \in Working =>
              \/ to \in Working /\ c.row = Row(h)
              \/ ~rows[Row(h)].live \/ rows[Row(h)].status # "RUNNING"
    PROVE  Tidy'
<1>1. TypeOK
  BY DEF IInv
<1>2. ASSUME NEW id \in DOMAIN rows PROVE KeepsRow(h, id)
  <2>1. Outlasted(id)' <=> Outlasted(id)
    BY DEF Outlasted
  <2>2. HasFile(id)' /\ Making(id) => Making(id)'
    BY <1>1, MakingStays DEF HasFile
  <2>3. QED
    BY <2>1, <2>2 DEF KeepsRow
<1>3. \A id \in Live' : rows'[id].status = "RUNNING" => Busy(id)'
  BY <1>1, BusyStays DEF Tidy, Live
<1>4. QED
  BY <1>2, <1>3, TidyStep

\* A step that leaves rows and files alone.
LEMMA TidyQuiet ==
    ASSUME IInv, failures = 0, Tidy, NEW h \in Handlers, NEW to, NEW c, Goto(h, to, c),
           rows' = rows, files' = files,
           to \in {"unlinking", "deleting"} => to = "unlinking" /\ c.doomed \ c.todo = {},
           pc[h] \in InPlay => to \in InPlay /\ c.row = Row(h),
           pc[h] \in Working =>
              \/ to \in Working /\ c.row = Row(h)
              \/ ~rows[Row(h)].live \/ rows[Row(h)].status # "RUNNING"
    PROVE  Tidy'
<1>1. pc'[h] = to /\ call'[h] = c
  BY DEF IInv, TypeOK, Goto
<1>2. Emptied(h)'
  BY <1>1 DEF Emptied
<1>3. Rewritten
  BY DEF Rewritten
<1>4. QED
  BY <1>2, <1>3, TidyFiles

LEMMA PlacesInPlay ==
    /\ InPlay \subseteq Working
    /\ "clearing" \in InPlay /\ "dumping" \in InPlay /\ "storing" \in InPlay
    /\ "measuring" \in InPlay
    /\ \A p \in {"opening", "scanning", "unlinking", "deleting", "failing", "idle", "inserting",
                  "finding", "checking", "sending"} : p \notin InPlay
    /\ \A p \in {"idle", "inserting", "finding", "checking", "sending"} : p \notin Working
    /\ \A p \in {"opening", "scanning", "unlinking", "deleting", "failing"} : p \in Working
BY DEF InPlay, Working, TryPcs, CatchPcs

LEMMA TidyCreate ==
    ASSUME IInv, failures = 0, Tidy, NEW h \in Handlers,
           Start(h) \/ Open(h) \/ DumpDone(h) \/ DumpFails(h) \/ Measure(h)
    PROVE  Tidy'
<1> USE PlacesInPlay
<1>1. CASE Start(h)
  BY <1>1, TidyQuiet DEF Start
<1>2. CASE DumpFails(h)
  BY <1>2, TidyQuiet, Own DEF DumpFails
<1>3. CASE Measure(h)
  <2>1. CASE Goto(h, "clearing", call[h])
    BY <1>3, <2>1, TidyQuiet, Own DEF Measure
  <2>2. ASSUME NEW c, c = [call[h] EXCEPT !.read = files[File(h)]], Goto(h, "storing", c)
        PROVE  Tidy'
    <3>1. c.row = Row(h)
      BY <2>2, Own DEF Calls
    <3>2. QED
      BY <1>3, <2>2, <3>1, TidyQuiet DEF Measure
  <2>3. QED
    BY <1>3, <2>1, <2>2 DEF Measure
<1>4. CASE Open(h)
  <2>1. pc[h] = "opening" /\ Goto(h, "dumping", call[h]) /\ rows' = rows
    BY <1>4 DEF Open
  <2>2. /\ Row(h) \in DOMAIN rows /\ rows[Row(h)].name = File(h) /\ Row(h) = call[h].row
        /\ pc'[h] = "dumping" /\ call'[h] = call[h]
    BY <2>1, Own DEF FitsAt, Goto, TypeOK
  <2>3. PICK f : f = [by |-> Row(h), state |-> IF Dumping(File(h)) = {} THEN "partial" ELSE "mixed"]
    OBVIOUS
  <2>4. f.by = Row(h) /\ files' = [files EXCEPT ![File(h)] = f] /\ files \in [Time -> Contents \cup {None}]
    BY <1>4, <2>3, Own DEF Open, TypeOK
  <2>5. PICK id : id = Row(h)
    OBVIOUS
  <2>6. Rewritten
    <3>1. Making(id)'
      BY <2>2, <2>5, PlacesInPlay DEF Making, Row
    <3>2. ASSUME NEW n \in Time, n # File(h) PROVE files'[n] = files[n]
      BY <2>4, <3>2
    <3>3. files'[File(h)] = f
      BY <2>1, <2>4, Own, Typed
    <3>4. QED
      BY <2>2, <2>4, <2>5, <3>1, <3>2, <3>3 DEF Rewritten
  <2>7. Emptied(h)'
    BY <2>2 DEF Emptied
  <2>8. QED
    BY <2>1, <2>2, <2>6, <2>7, TidyFiles
<1>5. CASE DumpDone(h)
  <2>1. /\ pc[h] = "dumping" /\ Goto(h, "measuring", call[h]) /\ rows' = rows
        /\ files \in [Time -> Contents \cup {None}] /\ Row(h) = call[h].row
    BY <1>5, Own DEF DumpDone, TypeOK
  <2>2. CASE files' = files
    BY <2>1, <2>2, TidyQuiet
  <2>3. CASE /\ files[File(h)] = Partial(Row(h))
             /\ files' = [files EXCEPT ![File(h)].state = "whole"]
    <3>1. [Partial(Row(h)) EXCEPT !.state = "whole"] = Whole(Row(h))
      BY DEF Partial, Whole
    <3>2. files' = [files EXCEPT ![File(h)] = Whole(Row(h))]
      BY <2>3, <3>1
    <3>3. Partial(Row(h)) # None
      <4>1. Row(h) \in Nat \ {0}
        BY <2>1, Own, Typed
      <4>2. Partial(Row(h)) \in Contents
        BY <4>1 DEF Partial, Contents
      <4>3. QED
        BY <4>2, NoContent
    <3>4. Partial(Row(h)).by = Row(h) /\ Whole(Row(h)).by = Row(h)
      BY DEF Partial, Whole
    <3>5. Rewritten
      BY <2>1, <2>3, <3>2, <3>3, <3>4 DEF Rewritten
    <3>6. pc'[h] = "measuring"
      BY <2>1, Own DEF Goto, TypeOK
    <3>7. Emptied(h)'
      BY <3>6 DEF Emptied
    <3>8. QED
      BY <2>1, <3>5, <3>7, TidyFiles
  <2>4. QED
    BY <1>5, <2>2, <2>3 DEF DumpDone, Partial
<1>6. QED
  BY <1>1, <1>2, <1>3, <1>4, <1>5

\* Settling a row: what becomes of it, and that the others stay.
LEMMA SettleRow ==
    ASSUME IInv, NEW h \in Handlers, pc[h] \in Working, NEW status, NEW sum,
           Settle(h, status, sum)
    PROVE  /\ DOMAIN rows' = DOMAIN rows /\ files' = files /\ Row(h) \in DOMAIN rows
           /\ \A i \in DOMAIN rows : i # Row(h) => rows'[i] = rows[i]
           /\ LET r == rows'[Row(h)]
              IN  /\ r.status = status /\ r.finished = now
                  /\ r.name = rows[Row(h)].name /\ r.live = rows[Row(h)].live
                  /\ r.created = rows[Row(h)].created
<1>1. PICK id : id = Row(h)
  OBVIOUS
<1>2. id \in DOMAIN rows /\ rows[id] \in Rows
  BY <1>1, Own, Typed
<1>3. PICK r : r = [rows[id] EXCEPT !.status = status, !.sum = sum, !.finished = now]
  OBVIOUS
<1>4. rows' = [rows EXCEPT ![id] = r] /\ files' = files
  BY <1>1, <1>3 DEF Settle
<1>5. /\ r.status = status /\ r.finished = now /\ r.name = rows[id].name
      /\ r.live = rows[id].live /\ r.created = rows[id].created
  BY <1>2, <1>3 DEF Rows
<1>6. QED
  BY <1>1, <1>2, <1>4, <1>5

\* A handler that settles its row.
LEMMA TidySettle ==
    ASSUME IInv, failures = 0, Tidy, NEW h \in Handlers, pc[h] \in {"storing", "failing"},
           NEW status \in {"SUCCESS", "FAILED"}, NEW sum, Settle(h, status, sum),
           (pc[h] = "storing") <=> (status = "SUCCESS"), Row(h) \in Live,
           NEW to \in {"scanning", "idle"}, NEW c, Goto(h, to, c)
    PROVE  Tidy'
<1>0. PICK id : id = Row(h)
  OBVIOUS
<1>1. /\ TypeOK /\ pc[h] \in Working /\ rows[id].live /\ rows[id].status # "SUCCESS"
  <2>1. pc[h] \in Working /\ TypeOK /\ rows[id].live
    BY <1>0, PlacesInPlay, Own DEF Live
  <2>2. SoundAt(pc[h], call[h]) /\ call[h].row = id
    BY <1>0, Own
  <2>3. rows[id].status # "SUCCESS"
    BY <2>2 DEF SoundAt, CatchPcs
  <2>4. QED
    BY <2>1, <2>3
<1>2. /\ DOMAIN rows' = DOMAIN rows /\ files' = files /\ id \in DOMAIN rows
      /\ \A i \in DOMAIN rows : i # id => rows'[i] = rows[i]
      /\ rows'[id].status = status /\ rows'[id].finished = now
      /\ rows'[id].name = rows[id].name /\ rows'[id].live /\ rows'[id].created = rows[id].created
  BY <1>0, <1>1, SettleRow
<1>3. ASSUME NEW i \in DOMAIN rows PROVE KeepsRow(h, i)
  <2>1. CASE i # id
    <3>1. Making(i) => Making(i)'
      BY <1>0, <1>1, <2>1, MakingStays
    <3>2. rows'[i] = rows[i]
      BY <1>2, <2>1
    <3>3. Outlasted(i)' <=> Outlasted(i)
      BY <3>2 DEF Outlasted
    <3>4. QED
      BY <1>2, <3>1, <3>2, <3>3 DEF KeepsRow
  <2>2. CASE i = id /\ status = "SUCCESS"
    <3>1. Expired(i) => Outlasted(i)'
      BY <1>2, <2>2 DEF Expired, Outlasted
    <3>2. ~Outlasted(i)
      BY <1>1, <2>2 DEF Outlasted
    <3>3. QED
      BY <1>1, <1>2, <2>2, <3>1, <3>2 DEF KeepsRow
  <2>3. CASE i = id /\ status = "FAILED"
    <3>1. pc[h] = "failing"
      BY <2>3
    <3>2. Making(i) => Making(i)'
      BY <1>1, <3>1, PlacesInPlay, MakingStays
    <3>3. ~Outlasted(i)
      BY <1>1, <2>3 DEF Outlasted
    <3>4. QED
      BY <1>1, <1>2, <2>3, <3>2, <3>3 DEF KeepsRow
  <2>4. QED
    BY <2>1, <2>2, <2>3
<1>4. Rewritten
  BY <1>2 DEF Rewritten
<1>5. pc'[h] = to
  BY <1>1 DEF Goto, TypeOK
<1>6. Emptied(h)'
  BY <1>5 DEF Emptied
<1>7. ASSUME NEW i \in Live', rows'[i].status = "RUNNING" PROVE Busy(i)'
  <2>1. i \in DOMAIN rows /\ i # id
    BY <1>2, <1>7 DEF Live
  <2>2. i \in Live /\ rows[i].status = "RUNNING"
    BY <1>2, <1>7, <2>1 DEF Live
  <2>3. Busy(i)
    BY <2>2 DEF Tidy
  <2>4. QED
    BY <1>0, <1>1, <2>1, <2>3, BusyStays
<1>8. QED
  BY <1>3, <1>4, <1>6, <1>7, TidyStep

LEMMA TidyStore ==
    ASSUME IInv, failures = 0, Tidy, NEW h \in Handlers, Store(h)
    PROVE  Tidy'
<1>0. PICK c : c = [call[h] EXCEPT !.read = None]
  OBVIOUS
<1>1. pc[h] = "storing" /\ c.row = Row(h)
  BY <1>0, Own DEF Store, Calls
<1>2. CASE Row(h) \in Live /\ Settle(h, "SUCCESS", call[h].read) /\ Goto(h, "scanning", c)
  BY <1>1, <1>2, TidySettle
<1>3. CASE UNCHANGED <<rows, files>> /\ Goto(h, "clearing", c)
  BY <1>1, <1>3, PlacesInPlay, TidyQuiet
<1>4. QED
  BY <1>0, <1>2, <1>3 DEF Store

LEMMA TidyInsert ==
    ASSUME IInv, failures = 0, Tidy, NEW h \in Handlers, Insert(h)
    PROVE  Tidy'
<1>0. PICK c, new : /\ c = [call[h] EXCEPT !.row = Len(rows) + 1]
                    /\ rows' = Append(rows, new) /\ new.live /\ files' = files
  BY DEF Insert, InsertRow
<1>1. /\ TypeOK /\ pc[h] = "inserting" /\ Goto(h, "opening", c) /\ c.row = Len(rows) + 1
      /\ rows \in Seq(Rows) /\ Len(rows) \in Nat /\ DOMAIN rows = 1..Len(rows)
  BY <1>0, Own, Typed DEF Insert, Calls, TypeOK
<1>2. /\ \A i \in DOMAIN rows : i \in DOMAIN rows' /\ rows'[i] = rows[i]
      /\ \A i \in DOMAIN rows' : i \in DOMAIN rows \/ i = Len(rows) + 1
  BY <1>0, <1>1
<1>3. pc'[h] = "opening" /\ call'[h] = c
  BY <1>1 DEF Goto, TypeOK
<1>4. ASSUME NEW i \in DOMAIN rows PROVE KeepsRow(h, i)
  <2>1. Making(i) => Making(i)'
    BY <1>1, PlacesInPlay, MakingStays
  <2>2. rows'[i] = rows[i]
    BY <1>2
  <2>3. Outlasted(i)' <=> Outlasted(i)
    BY <2>2 DEF Outlasted
  <2>4. QED
    BY <1>2, <2>1, <2>2, <2>3 DEF KeepsRow
<1>5. Rewritten
  BY <1>0 DEF Rewritten
<1>6. Emptied(h)'
  BY <1>3 DEF Emptied
<1>7. ASSUME NEW i \in Live', rows'[i].status = "RUNNING" PROVE Busy(i)'
  <2>1. CASE i = Len(rows) + 1
    BY <1>1, <1>3, <2>1, PlacesInPlay DEF Busy, Row, Working
  <2>2. CASE i \in DOMAIN rows
    <3>1. i \in Live /\ rows[i].status = "RUNNING"
      BY <1>2, <1>7, <2>2 DEF Live
    <3>2. Busy(i)
      BY <3>1 DEF Tidy
    <3>3. QED
      BY <1>1, <3>2, PlacesInPlay, BusyStays
  <2>3. QED
    BY <1>2, <1>7, <2>1, <2>2 DEF Live
<1>8. QED
  BY <1>1, <1>4, <1>5, <1>6, <1>7, TidyStep

LEMMA TidyUnlink ==
    ASSUME IInv, failures = 0, Tidy, NEW h \in Handlers, NEW d \in call[h].todo, Unlink(h, d)
    PROVE  Tidy'
<1>0. PICK c, to : /\ to = IF call[h].todo = {d} THEN "deleting" ELSE "unlinking"
                   /\ c = [call[h] EXCEPT !.todo = @ \ {d}]
  OBVIOUS
<1>1. /\ TypeOK /\ pc[h] = "unlinking" /\ Goto(h, to, c) /\ rows' = rows
      /\ files' = [files EXCEPT ![rows[d].name] = None]
      /\ files \in [Time -> Contents \cup {None}]
  BY <1>0, Own DEF Unlink, AfterUnlink, Remove, TypeOK
<1>2. /\ c.row = Row(h) /\ c.doomed = call[h].doomed /\ c.todo = call[h].todo \ {d}
      /\ \A i \in call[h].doomed : i \in DOMAIN rows
      /\ call[h].todo \subseteq call[h].doomed
  BY <1>0, <1>1, Own DEF Calls, SoundAt
<1>3. pc'[h] = to /\ call'[h] = c
  BY <1>1 DEF Goto, TypeOK
<1>4. \A n \in Time : files'[n] = IF n = rows[d].name THEN None ELSE files[n]
  BY <1>1
<1>5. Rewritten
  BY <1>4 DEF Rewritten
<1>6. Emptied(h)'
  <2>1. to = "deleting" => c.todo = {}
    BY <1>0, <1>2
  <2>2. ASSUME NEW i \in c.doomed \ c.todo, HasFile(i)' PROVE Making(i)' \/ Outlasted(i)'
    <3>1. i \in DOMAIN rows /\ rows[i].name \in Time
      BY <1>1, <1>2, Typed
    <3>2. i # d /\ HasFile(i)
      BY <1>1, <1>4, <2>2, <3>1 DEF HasFile
    <3>3. Making(i) \/ Outlasted(i)
      BY <1>1, <1>2, <2>2, <3>2 DEF Tidy, Emptied
    <3>4. Making(i) => Making(i)'
      BY <1>1, PlacesInPlay, MakingStays
    <3>5. QED
      BY <1>1, <3>3, <3>4 DEF Outlasted
  <2>3. QED
    BY <1>3, <2>1, <2>2 DEF Emptied
<1>7. to \in Working
  BY <1>0, PlacesInPlay
<1>8. QED
  BY <1>1, <1>2, <1>5, <1>6, <1>7, PlacesInPlay, TidyFiles

\* The end of a backup whose row says SUCCESS.
LEMMA TidyReturn ==
    ASSUME IInv, NEW h \in Handlers, Return(h)
    PROVE  \E to \in {"idle", "sending"}, c \in Calls : Goto(h, to, c)
<1>1. [call[h] EXCEPT !.doomed = {}] \in Calls
  BY Own DEF Calls
<1>2. QED
  BY <1>1, BlankIsCall DEF Return, Finish

LEMMA TidyPrune ==
    ASSUME IInv, failures = 0, Tidy, NEW h \in Handlers, FindExpired(h) \/ DeleteExpired(h)
    PROVE  Tidy'
<1>1. CASE FindExpired(h)
  <2>1. /\ pc[h] = "scanning" /\ rows' = rows /\ files' = files
        /\ rows[Row(h)].status # "RUNNING"
    BY <1>1, Own DEF FindExpired, SoundAt
  <2>2. CASE Return(h)
    BY <2>1, <2>2, TidyReturn, PlacesInPlay, TidyQuiet
  <2>3. ASSUME NEW D, Goto(h, "unlinking", [call[h] EXCEPT !.doomed = D, !.todo = D])
        PROVE  Tidy'
    <3>1. PICK c : c = [call[h] EXCEPT !.doomed = D, !.todo = D]
      OBVIOUS
    <3>2. c.doomed \ c.todo = {}
      BY <3>1, Own DEF Calls
    <3>3. QED
      BY <2>1, <2>3, <3>1, <3>2, PlacesInPlay, TidyQuiet
  <2>4. QED
    BY <1>1, <2>2, <2>3 DEF FindExpired
<1>2. CASE DeleteExpired(h)
  <2>1. /\ TypeOK /\ pc[h] = "deleting" /\ DeleteRows(h) /\ files' = files
        /\ rows[Row(h)].status = "SUCCESS" /\ Row(h) \in DOMAIN rows
    BY <1>2, Own, PlacesInPlay DEF DeleteExpired, DeleteRows, SoundAt
  <2>2. PICK to \in {"idle", "sending"}, c \in Calls : Goto(h, to, c)
    BY <1>2, TidyReturn DEF DeleteExpired
  <2>3. /\ DOMAIN rows' = DOMAIN rows
        /\ \A i \in DOMAIN rows :
              /\ rows'[i].name = rows[i].name /\ rows'[i].status = rows[i].status
              /\ rows'[i].created = rows[i].created /\ rows'[i].finished = rows[i].finished
              /\ rows'[i].live => rows[i].live
              /\ rows[i].live /\ ~rows'[i].live => i \in call[h].doomed
    <3>1. rows' = [i \in DOMAIN rows |->
                     IF i \in call[h].doomed THEN [rows[i] EXCEPT !.live = FALSE] ELSE rows[i]]
      BY <2>1 DEF DeleteRows
    <3>2. \A i \in DOMAIN rows : rows[i] \in Rows
      BY <2>1, Typed
    <3>3. QED
      BY <3>1, <3>2 DEF Rows
  <2>4. ASSUME NEW i \in DOMAIN rows PROVE KeepsRow(h, i)
    <3>1. Outlasted(i)' <=> Outlasted(i)
      BY <2>3 DEF Outlasted
    <3>2. Making(i) => Making(i)'
      BY <2>1, <2>2, PlacesInPlay, MakingStays
    <3>3. HasFile(i)' <=> HasFile(i)
      BY <2>1, <2>3 DEF HasFile
    <3>4. i \in call[h].doomed /\ HasFile(i) => Making(i) \/ Outlasted(i)
      BY <2>1 DEF Tidy, Emptied
    <3>5. QED
      BY <2>3, <3>1, <3>2, <3>3, <3>4 DEF KeepsRow
  <2>5. Rewritten
    BY <2>1 DEF Rewritten
  <2>6. pc'[h] = to
    BY <2>1, <2>2 DEF Goto, TypeOK
  <2>7. Emptied(h)'
    BY <2>6 DEF Emptied
  <2>8. ASSUME NEW i \in Live', rows'[i].status = "RUNNING" PROVE Busy(i)'
    <3>1. i \in Live /\ rows[i].status = "RUNNING" /\ i # Row(h)
      BY <2>1, <2>3, <2>8 DEF Live
    <3>2. Busy(i)
      BY <3>1 DEF Tidy
    <3>3. QED
      BY <2>1, <2>2, <3>1, <3>2, BusyStays
  <2>9. QED
    BY <2>2, <2>4, <2>5, <2>7, <2>8, TidyStep
<1>3. QED
  BY <1>1, <1>2

LEMMA TidyCatch ==
    ASSUME IInv, failures = 0, Tidy, NEW h \in Handlers, Clear(h) \/ MarkFailed(h)
    PROVE  Tidy'
<1>1. CASE Clear(h)
  <2>1. /\ TypeOK /\ pc[h] = "clearing" /\ Goto(h, "failing", call[h]) /\ rows' = rows
        /\ files' = [files EXCEPT ![File(h)] = None]
        /\ files \in [Time -> Contents \cup {None}] /\ call[h].row = Row(h)
    BY <1>1, Own DEF Clear, Remove, TypeOK
  <2>2. rows[Row(h)].name = File(h) /\ File(h) \in Time
    BY <2>1, Own, Typed, PlacesInPlay DEF FitsAt
  <2>3. \A n \in Time : files'[n] = IF n = File(h) THEN None ELSE files[n]
    BY <2>1
  <2>4. Rewritten
    BY <2>3 DEF Rewritten
  <2>5. pc'[h] = "failing"
    BY <2>1 DEF Goto, TypeOK
  <2>6. Emptied(h)'
    BY <2>5 DEF Emptied
  <2>7. QED
    BY <2>1, <2>2, <2>3, <2>4, <2>6, PlacesInPlay, TidyFiles
<1>2. CASE MarkFailed(h)
  <2>1. pc[h] = "failing" /\ Goto(h, "idle", Blank)
    BY <1>2 DEF MarkFailed, Finish
  <2>2. CASE Row(h) \in Live /\ Settle(h, "FAILED", rows[Row(h)].sum)
    BY <2>1, <2>2, TidySettle
  <2>3. CASE Row(h) \notin Live /\ UNCHANGED <<rows, files>>
    <3>1. ~rows[Row(h)].live
      BY <2>1, <2>3, Own, PlacesInPlay DEF Live
    <3>2. QED
      BY <2>1, <2>3, <3>1, PlacesInPlay, TidyQuiet
  <2>4. QED
    BY <1>2, <2>2, <2>3 DEF MarkFailed
<1>3. QED
  BY <1>1, <1>2

LEMMA TidyDeliver ==
    ASSUME IInv, failures = 0, Tidy, NEW h \in Handlers, Deliver(h)
    PROVE  Tidy'
<1>1. CASE Request(h)
  BY <1>1, PlacesInPlay, TidyQuiet DEF Request
<1>2. ASSUME NEW id \in DOMAIN rows, FindLatest(h, id) PROVE Tidy'
  BY <1>2, PlacesInPlay, TidyQuiet DEF FindLatest
<1>3. CASE CheckFile(h)
  BY <1>3, PlacesInPlay, TidyQuiet DEF CheckFile
<1>4. CASE EndDelivery(h)
  BY <1>4, PlacesInPlay, TidyQuiet DEF EndDelivery, Finish, SendPcs
<1>5. QED
  BY <1>1, <1>2, <1>3, <1>4 DEF Deliver

LEMMA NextTidy == IInv /\ Tidy /\ [Next]_vars => Tidy'
<1> SUFFICES ASSUME IInv, Tidy, [Next]_vars, failures' = 0 PROVE Tidy'
  BY DEF Tidy
<1>0. failures \in Nat
  BY Typed DEF IInv
<1>1. CASE UNCHANGED vars \/ Tick
  <2>1. UNCHANGED <<rows, files, pc, call, failures>>
    BY <1>1 DEF vars, Tick
  <2>2. QED
    BY <2>1 DEF Tidy, WriterAnswers, Emptied, HasFile, Making, Outlasted, Live, Busy, Row
<1>2. ASSUME NEW h \in Handlers, Create(h) PROVE Tidy'
  <2>1. failures = 0
    BY <1>2 DEF Create, Start, Insert, Open, DumpDone, DumpFails, Measure, Store
  <2>2. QED
    BY <1>2, <2>1, TidyCreate, TidyInsert, TidyStore DEF Create
<1>3. ASSUME NEW h \in Handlers, Prune(h) PROVE Tidy'
  <2>1. \A d : ~UnlinkFails(h, d)
    BY <1>0 DEF UnlinkFails
  <2>2. failures = 0
    BY <1>3, <2>1 DEF Prune, FindExpired, Unlink, DeleteExpired
  <2>3. QED
    BY <1>3, <2>1, <2>2, TidyPrune, TidyUnlink DEF Prune
<1>4. ASSUME NEW h \in Handlers, Catch(h) PROVE Tidy'
  <2>1. ~ClearFails(h)
    BY <1>0 DEF ClearFails
  <2>2. failures = 0
    BY <1>4, <2>1 DEF Catch, Clear, MarkFailed
  <2>3. QED
    BY <1>4, <2>1, <2>2, TidyCatch DEF Catch
<1>5. ASSUME NEW h \in Handlers, Deliver(h) PROVE Tidy'
  <2>1. failures = 0
    BY <1>5 DEF Deliver, Request, FindLatest, CheckFile, EndDelivery
  <2>2. QED
    BY <1>5, <2>1, TidyDeliver
<1>6. \A h \in Handlers : ~Throw(h)
  BY <1>0 DEF Throw
<1>7. ~CrashAndRestart
  BY <1>0 DEF CrashAndRestart
<1>8. QED
  BY <1>1, <1>2, <1>3, <1>4, <1>5, <1>6, <1>7 DEF Next

\* As long as no call fails and nothing crashes, no file is left without a row or a backup at
\* work, unless its backup outlasted its retention, and no RUNNING row without its backup
\* (createBackup, its catch clause, pruneExpiredBackups).
THEOREM TidyWithoutFailures == Spec => []NothingIsLeftBehind
<1>1. Init => Tidy
  <2>1. Init => WriterAnswers
    BY DEF Init, WriterAnswers
  <2>2. Init => \A h \in Handlers : Emptied(h)
    BY DEF Init, Emptied
  <2>3. QED
    BY <2>1, <2>2 DEF Init, Tidy, Live
<1>2. IInv /\ Tidy => NothingIsLeftBehind
  <2> SUFFICES ASSUME IInv, Tidy, failures = 0 PROVE NothingIsLeftBehind
    BY DEF NothingIsLeftBehind
  <2>1. ASSUME NEW n \in Time, files[n] # None
        PROVE  \/ \E id \in DOMAIN rows :
                    /\ rows[id].name = n
                    /\ (rows[id].live /\ rows[id].status # "FAILED") \/ Outlasted(id)
               \/ \E h \in Handlers : pc[h] \in TryPcs \cup CatchPcs /\ File(h) = n
    <3>1. PICK id \in DOMAIN rows :
             /\ rows[id].name = n
             /\ \/ Making(id)
                \/ rows[id].status = "SUCCESS" /\ (rows[id].live \/ Outlasted(id))
      BY <2>1 DEF Tidy, WriterAnswers
    <3>2. CASE Making(id)
      <4>1. PICK h \in Handlers : pc[h] \in InPlay /\ Row(h) = id
        BY <3>2 DEF Making
      <4>2. pc[h] \in TryPcs \cup CatchPcs
        BY <4>1, PlacesInPlay DEF Working
      <4>3. File(h) = n
        BY <3>1, <4>1, Own, PlacesInPlay DEF FitsAt
      <4>4. QED
        BY <4>2, <4>3
    <3>3. QED
      BY <3>1, <3>2
  <2>2. QED
    BY <2>1 DEF Tidy, NothingIsLeftBehind
<1>3. QED
  BY Invariance, InitInv, NextInv, NextTidy, <1>1, <1>2, PTL DEF Spec
================================================================================
