----------------------------- MODULE ImportJobs ------------------------------
(***************************************************************************)
(* Bulk imports: an upload is spooled to a file and queued as a job, and   *)
(* any number of workers claim jobs and insert their rows in batches.  A   *)
(* row that cannot be imported must cost that row only, and a row that is  *)
(* already there, from another job or an earlier upload, is skipped.       *)
(***************************************************************************)
EXTENDS Integers, FiniteSets, SequencesExt, Bisection

CONSTANTS
    Job,
    Row,            \* lines of the files
    File,           \* the lines of each job's file, without the header
    Headless,       \* jobs whose file lacks a required column
    Order,
    OrderOf,        \* the order id of each line
    Bad,            \* lines of a wrong width or that fail the schema
    Unlinked,       \* lines with an unknown tracking code
    Poison,         \* lines that the database refuses
    Worker,         \* ticks that may be in progress
    BatchSize,      \* BATCH_SIZE
    ProgressEvery,  \* PROGRESS_EVERY_ROWS
    MaxLosses,      \* bound on crashes and failing statements
    NULL

\* What a row of ImportJob holds, but for its file and its campaign.
Counts == [total : Nat, imported : Nat, skipped : Nat, failed : Nat]
JobRow == [status : {"PENDING", "PROCESSING", "COMPLETED", "FAILED"},
           counts : Counts]

ImportAssumption ==
    /\ File \in [Job -> Seq(Row)]
    /\ OrderOf \in [Row -> Order]
    /\ Headless \subseteq Job
    /\ Bad \cup Unlinked \cup Poison \subseteq Row
    /\ BatchSize \in Nat \ {0}
    /\ ProgressEvery \in Nat \ {0}
    /\ MaxLosses \in Nat
    /\ NULL \notin JobRow

VARIABLES
    file,           \* files in the spool directory
    job,            \* the ImportJob rows
    created,        \* the jobs with a row, oldest first
    conversion,     \* order ids of the conversions
    worker,         \* the job each tick works on, and its locals
    losses

vars == <<file, job, created, conversion, worker, losses>>

NoCounts == [total |-> 0, imported |-> 0, skipped |-> 0, failed |-> 0]

\* batch holds the lines read, work the slices to insert, failed the lines that
\* could not be, and committed and inserted what the batch did.
IdleWorker ==
    [step |-> "idle", job |-> NULL, pos |-> 0, counts |-> NoCounts,
     progressAt |-> 0, batch |-> <<>>, work |-> <<>>, failed |-> <<>>,
     committed |-> 0, inserted |-> 0]

Local ==
    [step : {"idle", "found", "claimed", "reading", "flushing", "inserting",
             "failing", "discarding"},
     job : Job \cup {NULL}, pos : Nat, counts : Counts, progressAt : Nat,
     batch : Seq(Row), work : Seq(Seq(Row)), failed : Seq(Row),
     committed : Nat, inserted : Nat]

TypeOK ==
    /\ file \subseteq Job
    /\ job \in [Job -> JobRow \cup {NULL}]
    /\ created \in Seq(Job)
    /\ conversion \subseteq Order
    /\ worker \in [Worker -> Local]
    /\ losses \in Nat

Init ==
    /\ file = {}
    /\ job = [j \in Job |-> NULL]
    /\ created = <<>>
    /\ conversion = {}
    /\ worker = [w \in Worker |-> IdleWorker]
    /\ losses = 0

Loses == losses < MaxLosses /\ losses' = losses + 1
SetCounts(j, counts) == job' = [job EXCEPT ![j].counts = counts]

-----------------------------------------------------------------------------
\* importService.enqueue: the file is spooled, then the row created.
Spool(j) ==
    /\ j \notin file
    /\ job[j] = NULL
    /\ file' = file \cup {j}
    /\ UNCHANGED <<job, created, conversion, worker, losses>>

Enqueue(j) ==
    /\ j \in file
    /\ job[j] = NULL
    /\ job' = [job EXCEPT ![j] = [status |-> "PENDING", counts |-> NoCounts]]
    /\ created' = Append(created, j)
    /\ UNCHANGED <<file, conversion, worker, losses>>

\* The upload is refused, or the row cannot be created.
EnqueueFails(j) ==
    /\ j \in file
    /\ job[j] = NULL
    /\ Loses
    /\ file' = file \ {j}
    /\ UNCHANGED <<job, created, conversion, worker>>

-----------------------------------------------------------------------------
\* runNextImportJob.

Pending == {i \in DOMAIN created : job[created[i]].status = "PENDING"}

\* The oldest waiting job.
Find(w) ==
    /\ worker[w] = IdleWorker
    /\ \E i \in Pending :
          /\ \A k \in Pending : i <= k
          /\ worker' = [worker EXCEPT ![w].step = "found", ![w].job = created[i]]
    /\ UNCHANGED <<file, job, created, conversion, losses>>

\* Mutant: the claim does not look at the status.
ClaimAnyway(w) ==
    LET j == worker[w].job
    IN
    /\ worker[w].step = "found"
    /\ job' = [job EXCEPT ![j].status = "PROCESSING"]
    /\ worker' = [worker EXCEPT ![w].step = "claimed"]
    /\ UNCHANGED <<file, created, conversion, losses>>

Claim(w) ==
    LET j == worker[w].job
    IN
    /\ worker[w].step = "found"
    /\ IF job[j].status = "PENDING"
       THEN /\ job' = [job EXCEPT ![j].status = "PROCESSING"]
            /\ worker' = [worker EXCEPT ![w].step = "claimed"]
       ELSE /\ worker' = [worker EXCEPT ![w] = IdleWorker]
            /\ UNCHANGED job
    /\ UNCHANGED <<file, created, conversion, losses>>

\* The header is read.
Open(w) ==
    /\ worker[w].step = "claimed"
    /\ worker' = [worker EXCEPT ![w].step =
          IF worker[w].job \in Headless \/ worker[w].job \notin file
          THEN "failing" ELSE "reading"]
    /\ UNCHANGED <<file, job, created, conversion, losses>>

AtEnd(l) == l.pos = Len(File[l.job])

\* The next line joins the batch or is recorded as an error, and the progress
\* is saved when the batch is not due.
ReadRow(w) ==
    LET l == worker[w]
        row == File[l.job][l.pos + 1]
        counts == [l.counts EXCEPT !.total = @ + 1,
                                   !.failed = IF row \in Bad THEN @ + 1 ELSE @]
        batch == IF row \in Bad THEN l.batch ELSE Append(l.batch, row)
        full == Len(batch) >= BatchSize
        due == counts.total - l.progressAt >= ProgressEvery
    IN
    /\ l.step = "reading"
    /\ ~AtEnd(l)
    /\ worker' = [worker EXCEPT ![w] =
          [l EXCEPT !.pos = @ + 1, !.counts = counts, !.batch = batch,
                    !.step = IF full THEN "flushing" ELSE "reading",
                    !.progressAt = IF due THEN counts.total ELSE @]]
    /\ IF due /\ ~full THEN SetCounts(l.job, counts) ELSE UNCHANGED job
    /\ UNCHANGED <<file, created, conversion, losses>>

\* What is left after the last line.
LastFlush(w) ==
    /\ worker[w].step = "reading"
    /\ AtEnd(worker[w])
    /\ worker[w].batch # <<>>
    /\ worker' = [worker EXCEPT ![w].step = "flushing"]
    /\ UNCHANGED <<file, job, created, conversion, losses>>

\* prepared: the lines of a batch that have a link.
Linked(batch) ==
    LET upTo[n \in 0..Len(batch)] ==
            IF n = 0 THEN <<>>
            ELSE IF batch[n] \in Unlinked THEN upTo[n - 1]
            ELSE Append(upTo[n - 1], batch[n])
    IN  upTo[Len(batch)]

\* flush: lines without a link are recorded, the others are inserted.
Flush(w) ==
    LET l == worker[w]
        linked == Linked(l.batch)
    IN
    /\ l.step = "flushing"
    /\ worker' = [worker EXCEPT ![w] =
          [l EXCEPT !.step = "inserting", !.batch = <<>>,
                    !.counts.failed = @ + Len(l.batch) - Len(linked),
                    !.work = IF linked = <<>> THEN <<>> ELSE <<linked>>,
                    !.failed = <<>>, !.committed = 0, !.inserted = 0]]
    /\ UNCHANGED <<file, job, created, conversion, losses>>

Orders(slice) == {OrderOf[r] : r \in ToSet(slice)}

\* createMany with skipDuplicates, of a slice.
Insert(w) ==
    LET l == worker[w]
        slice == Head(l.work)
    IN
    /\ l.step = "inserting"
    /\ l.work # <<>>
    /\ ToSet(slice) \cap Poison = {}
    /\ conversion' = conversion \cup Orders(slice)
    /\ worker' = [worker EXCEPT ![w] =
          [l EXCEPT !.work = Tail(@), !.committed = @ + Len(slice),
                    !.inserted = @ + Cardinality(Orders(slice) \ conversion)]]
    /\ UNCHANGED <<file, job, created, losses>>

InsertFails(w) ==
    LET l == worker[w]
    IN
    /\ l.step = "inserting"
    /\ l.work # <<>>
    /\ \/ /\ ToSet(Head(l.work)) \cap Poison # {}
          /\ UNCHANGED losses
       \/ Loses
    /\ worker' = [worker EXCEPT ![w] = Bisect(l)]
    /\ UNCHANGED <<file, job, created, conversion>>

Tally(l) ==
    [l.counts EXCEPT !.imported = @ + l.inserted,
                     !.skipped = @ + l.committed - l.inserted,
                     !.failed = @ + Len(l.failed)]

\* The batch is counted, and the counts are saved.
FlushDone(w) ==
    LET l == worker[w]
    IN
    /\ l.step = "inserting"
    /\ l.work = <<>>
    /\ SetCounts(l.job, Tally(l))
    /\ worker' = [worker EXCEPT ![w] =
          [l EXCEPT !.step = "reading", !.counts = Tally(l), !.failed = <<>>,
                    !.committed = 0, !.inserted = 0]]
    /\ UNCHANGED <<file, created, conversion, losses>>

\* complete.
Complete(w) ==
    LET l == worker[w]
    IN
    /\ l.step = "reading"
    /\ AtEnd(l)
    /\ l.batch = <<>>
    /\ job' = [job EXCEPT ![l.job] =
          [status |-> "COMPLETED", counts |-> l.counts]]
    /\ worker' = [worker EXCEPT ![w].step = "discarding"]
    /\ UNCHANGED <<file, created, conversion, losses>>

\* The file cannot be read on, or a query of the import throws; if it is the one
\* that saves the counts of a batch, the batch has been counted by then.
ImportFails(w) ==
    LET l == worker[w]
    IN
    /\ \/ l.step = "flushing"
       \/ l.step = "inserting" /\ l.work = <<>>
       \/ l.step = "reading"
    /\ Loses
    /\ worker' = [worker EXCEPT ![w] =
          [l EXCEPT !.step = "failing", !.counts = Tally(l), !.failed = <<>>,
                    !.committed = 0, !.inserted = 0]]
    /\ UNCHANGED <<file, job, created, conversion>>

\* fail, or an update that throws as well and leaves the job PROCESSING.
Fail(w) ==
    LET l == worker[w]
    IN
    /\ l.step = "failing"
    /\ \/ /\ job' = [job EXCEPT ![l.job] =
                [status |-> "FAILED", counts |-> l.counts]]
          /\ UNCHANGED losses
       \/ /\ Loses
          /\ UNCHANGED job
    /\ worker' = [worker EXCEPT ![w].step = "discarding"]
    /\ UNCHANGED <<file, created, conversion>>

\* Whatever came of the job, its file goes, or its removal fails.
Discard(w) ==
    /\ worker[w].step = "discarding"
    /\ \/ /\ file' = file \ {worker[w].job}
          /\ UNCHANGED losses
       \/ /\ Loses
          /\ UNCHANGED file
    /\ worker' = [worker EXCEPT ![w] = IdleWorker]
    /\ UNCHANGED <<job, created, conversion>>

\* The worker dies.  Nothing claims a PROCESSING job again.
Crash(w) ==
    /\ worker[w] # IdleWorker
    /\ Loses
    /\ worker' = [worker EXCEPT ![w] = IdleWorker]
    /\ UNCHANGED <<file, job, created, conversion>>

-----------------------------------------------------------------------------
Next ==
    \/ \E j \in Job : Spool(j) \/ Enqueue(j) \/ EnqueueFails(j)
    \/ \E w \in Worker :
          \/ Find(w) \/ Claim(w) \/ Open(w) \/ ReadRow(w) \/ LastFlush(w)
          \/ Flush(w) \/ Insert(w) \/ InsertFails(w) \/ FlushDone(w)
          \/ Complete(w) \/ ImportFails(w) \/ Fail(w) \/ Discard(w)
          \/ Crash(w)

Spec == Init /\ [][Next]_vars

-----------------------------------------------------------------------------
\* A worker owns the job that it has claimed.
Owns(w) == worker[w].step \notin {"idle", "found"}

\* What a job has counted as imported, in its row or in its worker.
ImportedBy(j) ==
    LET ws == {w \in Worker : Owns(w) /\ worker[w].job = j}
    IN  IF job[j] = NULL THEN 0
        ELSE IF ws = {} THEN job[j].counts.imported
        ELSE LET l == worker[CHOOSE w \in ws : TRUE]
             IN  l.counts.imported + l.inserted

\* Every conversion is counted as imported by one job, whatever the files have
\* in common and however the workers overlap: a job has one worker, a line that
\* is already there is skipped, and a slice that fails leaves nothing.  What a
\* crash can do is leave conversions that no job counted.
ImportsAccountedFor ==
    LET imported == SumFunctionOnSet([j \in Job |-> ImportedBy(j)], Job)
    IN  /\ imported <= Cardinality(conversion)
        /\ losses = 0 => imported = Cardinality(conversion)

\* A job that completes has imported or skipped every line but the ones that
\* cannot be imported, and its counts say so; without failing statements a line
\* fails only for a reason of its own.
OnlyBadRowsFail ==
    \A j \in Job : job[j] # NULL /\ job[j].status = "COMPLETED" =>
        LET counts == job[j].counts
            bad == {i \in DOMAIN File[j] :
                       File[j][i] \in Bad \cup Unlinked \cup Poison}
        IN
        /\ counts.total = Len(File[j])
        /\ counts.total = counts.imported + counts.skipped + counts.failed
        /\ counts.failed \in Cardinality(bad)..(Cardinality(bad) + losses)
        /\ losses = 0 => {OrderOf[File[j][i]] : i \in DOMAIN File[j] \ bad}
                             \subseteq conversion

-----------------------------------------------------------------------------
\* The invariant of the proofs.

Importing == {"claimed", "reading", "flushing", "inserting"}

\* A job that was claimed has one worker, and nobody writes to it but that one.
JobsAreOwned ==
    /\ \A i \in DOMAIN created : job[created[i]] # NULL
    /\ \A j \in Job : job[j] # NULL /\ job[j].status = "PENDING"
                          => job[j].counts = NoCounts
    /\ \A w \in Worker :
          /\ worker[w].step = "idle" => worker[w] = IdleWorker
          /\ worker[w].step = "found"
                => worker[w] = [IdleWorker EXCEPT !.step = "found", !.job = worker[w].job]
          /\ worker[w].step # "idle"
                => worker[w].job \in Job /\ job[worker[w].job] # NULL
          /\ Owns(w) => job[worker[w].job].status # "PENDING"
          /\ worker[w].step \in Importing \cup {"failing"}
                => job[worker[w].job].status = "PROCESSING"
    /\ \A v, w \in Worker :
          Owns(v) /\ Owns(w) /\ worker[v].job = worker[w].job => v = w

Unfit == Bad \cup Unlinked \cup Poison
ReadBy(l) == SubSeq(File[l.job], 1, l.pos)

\* The lines read that could not be imported, and those at hand that cannot.
Refused(l) == l.counts.failed + Len(l.failed) + Occurs(l.batch, Unfit)
                + OccursIn(l.work, Unfit)

\* The lines that can be imported and are of an order.
Sought(o) == {r \in Row \ Unfit : OrderOf[r] = o}

\* Every line that was read is counted or at hand, and a line that can be
\* imported is, unless something was lost, at hand or in the table.
LinesAccountedFor(l) ==
    /\ l.pos = l.counts.total /\ l.pos <= Len(File[l.job])
    /\ l.step = "claimed" => l.pos = 0 /\ l.counts = NoCounts /\ l.batch = <<>>
    /\ l.step # "inserting" => /\ l.work = <<>> /\ l.failed = <<>>
                                /\ l.committed = 0 /\ l.inserted = 0
    /\ l.step = "inserting" => l.batch = <<>>
    /\ l.inserted <= l.committed
    /\ l.pos = l.counts.imported + l.counts.skipped + l.counts.failed
                 + l.committed + Len(l.failed)
                 + Occurs(l.batch, Row) + OccursIn(l.work, Row)
    /\ Occurs(l.batch, Bad) = 0 /\ OccursIn(l.work, Bad \cup Unlinked) = 0
    /\ Refused(l) - losses <= Occurs(ReadBy(l), Unfit)
    /\ Occurs(ReadBy(l), Unfit) <= Refused(l)
    /\ losses = 0 => \A o \in Order \ conversion :
          Occurs(ReadBy(l), Sought(o)) > 0
              => Occurs(l.batch, Sought(o)) + OccursIn(l.work, Sought(o)) > 0

\* What a job's row says it imported, its worker has counted.
RowsFollowWorkers ==
    \A w \in Worker : Owns(w) =>
        LET l == worker[w]
            counts == job[l.job].counts
        IN  /\ counts.imported <= l.counts.imported + l.inserted
            /\ l.step \in {"failing", "discarding"} => l.inserted = 0
            /\ l.step = "discarding" /\ losses = 0
                   => counts.imported = l.counts.imported

ImportInv ==
    /\ TypeOK
    /\ JobsAreOwned
    /\ \A w \in Worker : worker[w].step \in Importing => LinesAccountedFor(worker[w])
    /\ RowsFollowWorkers
    /\ ImportsAccountedFor
    /\ OnlyBadRowsFail
=============================================================================
