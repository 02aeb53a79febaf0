------------------------------- MODULE Period -------------------------------
(***************************************************************************)
(* One period of one account: the directory of its source files, the       *)
(* requests that fill it (upload_period, load_sample), the background      *)
(* closes that read it (do_close, loop.run, run_close), the job file each  *)
(* of them keeps for the page that polls it (progress.Tracker), the        *)
(* records they seal, and the audit that reads the files again             *)
(* (service.reverify).  Nothing orders uploads and closes: a close reads   *)
(* every file twice, once for its rows and once for its digest, while the  *)
(* event loop may be writing it.                                           *)
(*                                                                         *)
(* A file's bytes are the request that wrote them last, whose bytes those  *)
(* may leave behind, and whether somebody is still writing.  Deciding      *)
(* (block to post) is a function of the rows, which Matching and Record    *)
(* model; how a record is written is DecisionLog's.                        *)
(***************************************************************************)
EXTENDS Naturals, Sequences, FiniteSets

CONSTANTS
    Sources,    \* the loop's source files, in the order they are ingested
    Stages,     \* the pipeline, ingest to record (progress.STAGES)
    Uploads,    \* requests to upload files, each with bytes of its own
    Unreadable, \* the uploads whose bytes no reader can read
    Sample,     \* the bytes of the shipped example
    Nobody,     \* nothing: no bytes, no digest
    Jobs,       \* threads that run background closes
    Auditor,    \* the thread that re-verifies
    MaxCloses,  \* bound: closes started
    MaxDeaths   \* bound: deaths of the process

ASSUME PeriodAssumption ==
    /\ Sources \in Seq(STRING) /\ Len(Sources) > 0
    /\ Stages \in Seq(STRING) /\ Len(Stages) > 1
    /\ Stages[1] = "ingest" /\ Stages[Len(Stages)] = "record"
    /\ Unreadable \subseteq Uploads
    /\ Sample \notin Uploads /\ Nobody \notin Uploads \cup {Sample}
    /\ Auditor \notin Jobs
    /\ MaxCloses \in Nat /\ MaxDeaths \in Nat

VARIABLES
    dir,        \* does the period's directory exist?
    files,      \* its files
    uploads,    \* uploads[u]: [state, attached]: its request, the files not yet written
    sampling,   \* the files load_sample has yet to copy
    writing,    \* writing[w]: the file that an upload, or load_sample, has open
    pc,         \* where each background close, and the audit, is
    at,         \* at[t]: which source t is reading
    rows,       \* rows[t]: the bytes the rows of t were parsed from
    digests,    \* digests[t]: the bytes its digests were computed from
    job,        \* job[j]: the job file of j's last close
    records,    \* the decision logs, one per run id: [id, state, digests, rows, calm]
    verdict,    \* what the audit found: [of, holds]
    deaths,     \* deaths, against MaxDeaths
    closes,     \* closes started, against MaxCloses
    died,       \* history: the closes that a death of the process cut short
    unsaid,     \* history: the closes whose failure no job file could take
    disturbed,  \* history: the threads that read a file while it was being written
    performed,  \* performed[j]: history, the stages whose work j has done
    sealed      \* history: every record that was sealed

directory == <<dir, files, uploads, sampling, writing>>
reading == <<at, rows, digests, disturbed>>
closing == <<job, unsaid, records, performed, sealed>>
history == <<deaths, died, closes>>
vars == <<directory, pc, reading, closing, verdict, history>>

Names == {Sources[i] : i \in DOMAIN Sources}
Threads == Jobs \cup {Auditor}
Writers == Uploads \cup {Sample}

\* `rest`: whose bytes follow where those of `from` end.
Bytes == [from : Writers \cup {Nobody}, rest : Writers \cup {Nobody},
          state : {"writing", "half", "whole"}]
Nothing == [from |-> Nobody, rest |-> Nobody, state |-> "whole"]
StageNames == {Stages[i] : i \in DOMAIN Stages}
NoJob == [state |-> "none", current |-> 0, stages |-> [s \in StageNames |-> "waiting"]]

Init ==
    /\ dir = FALSE /\ files = [s \in Names |-> Nothing]
    /\ uploads = [u \in Uploads |-> [state |-> "none", attached |-> {}]]
    /\ sampling = {} /\ writing = [w \in Writers |-> {}]
    /\ pc = [t \in Threads |-> "off"] /\ at = [t \in Threads |-> 0]
    /\ rows = [t \in Threads |-> [s \in Names |-> Nothing]]
    /\ digests = rows
    /\ job = [j \in Jobs |-> NoJob] /\ unsaid = {}
    /\ records = {} /\ verdict = [of |-> {}, holds |-> FALSE]
    /\ deaths = 0 /\ died = {} /\ closes = 0 /\ disturbed = {}
    /\ performed = [j \in Jobs |-> {}] /\ sealed = {}
-----------------------------------------------------------------------------
(* The directory. *)

Missing == {s \in Names : files[s] = Nothing}

\* The threads between the two reads of source s.
Between(s) == {t \in Threads : pc[t] = "digest" /\ Sources[at[t]] = s}

\* A file changes under whoever is reading it.
Put(s, bytes) ==
    /\ files' = [files EXCEPT ![s] = bytes]
    /\ disturbed' = disturbed \cup Between(s)

\* Opening a file to write it empties it.
Open(w, s) ==
    /\ writing' = [writing EXCEPT ![w] = {s}]
    /\ Put(s, [from |-> w, rest |-> Nobody, state |-> "writing"])

\* The bytes are in, or the disk takes no more of them.  Over a file that another
\* request has opened or filled since, they may leave some of its bytes behind; and
\* while that request still writes, so does the file change.
Fill(w, s, state) ==
    /\ s \in writing[w]
    /\ writing' = [writing EXCEPT ![w] = {}]
    /\ \E rest \in IF files[s].from = w THEN {Nobody} ELSE {Nobody, files[s].from} :
         Put(s, [from |-> w, rest |-> rest,
                 state |-> IF \E v \in Writers \ {w} : s \in writing[v]
                           THEN "writing" ELSE state])

\* upload_period, up to the first file: the form is in, the directory made.
BeginUpload(u, attached) ==
    /\ uploads[u].state = "none"
    /\ uploads' = [uploads EXCEPT ![u] = [state |-> "open", attached |-> attached]]
    /\ dir' = TRUE
    /\ UNCHANGED <<files, sampling, writing, pc, reading, closing, verdict, history>>

\* The event loop runs one upload at a time between awaits, and no write_bytes awaits.
LoopIsFree == \A u \in Uploads : writing[u] = {}

OpenFile(u, s) ==
    /\ uploads[u].state = "open" /\ LoopIsFree /\ dir
    /\ s \in uploads[u].attached
    /\ Open(u, s)
    /\ UNCHANGED <<dir, uploads, sampling, pc, at, rows, digests, closing, verdict, history>>

FillFile(u, s) ==
    /\ Fill(u, s, "whole")
    /\ uploads' = [uploads EXCEPT ![u].attached = @ \ {s}]
    /\ UNCHANGED <<dir, sampling, pc, at, rows, digests, closing, verdict, history>>

\* The request ends on the OSError; what it has written stays.
BreakFile(u, s) ==
    /\ Fill(u, s, "half")
    /\ uploads' = [uploads EXCEPT ![u] = [state |-> "over", attached |-> {}]]
    /\ UNCHANGED <<dir, sampling, pc, at, rows, digests, closing, verdict, history>>

\* All are written; or the next one is too large or cannot be opened, and what was
\* written before it stays; or none was attached, and a directory left empty is removed.
EndUpload(u) ==
    /\ uploads[u].state = "open" /\ LoopIsFree
    /\ uploads' = [uploads EXCEPT ![u] = [state |-> "over", attached |-> {}]]
    /\ dir' = (dir /\ (Missing # Names \/ uploads[u].attached # {}))
    /\ UNCHANGED <<files, sampling, writing, pc, reading, closing, verdict, history>>

\* load_sample: a period that exists is not touched, even a half of one.  It runs on
\* a thread of its own, beside the uploads.
BeginSample ==
    /\ ~dir /\ sampling = {}
    /\ dir' = TRUE /\ sampling' = Names
    /\ UNCHANGED <<files, uploads, writing, pc, reading, closing, verdict, history>>

\* copy2 opens the copy ...
OpenSample(s) ==
    /\ s \in sampling /\ writing[Sample] = {} /\ dir
    /\ sampling' = sampling \ {s}
    /\ Open(Sample, s)
    /\ UNCHANGED <<dir, uploads, pc, at, rows, digests, closing, verdict, history>>

\* ... and fills it, or fails, and the request with it.
FillSample(s) ==
    /\ \/ Fill(Sample, s, "whole") /\ UNCHANGED sampling
       \/ Fill(Sample, s, "half") /\ sampling' = {}
    /\ UNCHANGED <<dir, uploads, pc, at, rows, digests, closing, verdict, history>>

\* The next copy cannot be opened: an upload of nothing has removed the directory.
EndSample ==
    /\ sampling # {} /\ writing[Sample] = {} /\ ~dir
    /\ sampling' = {}
    /\ UNCHANGED <<dir, files, uploads, writing, pc, reading, closing, verdict, history>>
-----------------------------------------------------------------------------
(* The job file.  A change is made to the Job in memory and then written whole. *)

Current(b) == Stages[b.current]

\* `enter`: the stage before, if it was running, is done.
EnterStage(b, i) ==
    [b EXCEPT !.current = i,
              !.stages = [s \in StageNames |->
                  IF s = Stages[i] THEN "running"
                  ELSE IF b.current > 0 /\ s = Current(b) /\ b.stages[s] = "running"
                  THEN "done" ELSE b.stages[s]]]

MarkCurrent(b, mark) ==
    [s \in StageNames |-> IF b.current > 0 /\ s = Current(b) THEN mark ELSE b.stages[s]]

FinishJob(b) == [b EXCEPT !.state = "complete", !.stages = MarkCurrent(b, "done")]

\* Mutant: the stages a failure did not reach are shown like the others.
FailJobGreen(b) ==
    [b EXCEPT !.state = "failed",
              !.stages = [s \in StageNames |->
                  IF b.current > 0 /\ s = Current(b) THEN "failed" ELSE "done"]]

\* `fail`: the stage it died in says so, the rest stay waiting.
FailJob(b) == [b EXCEPT !.state = "failed", !.stages = MarkCurrent(b, "failed")]

Goto(t, l) == pc' = [pc EXCEPT ![t] = l]

\* The thread of a close ends, and what it had read goes with it.
EndThread(j) ==
    /\ Goto(j, "over")
    /\ at' = [at EXCEPT ![j] = 0]
    /\ rows' = [rows EXCEPT ![j] = [s \in Names |-> Nothing]]
    /\ digests' = [digests EXCEPT ![j] = [s \in Names |-> Nothing]]
    /\ UNCHANGED disturbed
-----------------------------------------------------------------------------
(* A background close. *)

\* do_close: refused while a file has not arrived; else the job file and the thread.
\* Without the one there is not the other: the request fails and nothing has begun.
DoClose(j) ==
    /\ pc[j] \in {"off", "over"} /\ closes < MaxCloses
    /\ dir /\ Missing = {}
    /\ closes' = closes + 1
    /\ job' = [job EXCEPT ![j] = [NoJob EXCEPT !.state = "running"]]
    /\ unsaid' = unsaid \ {j}
    /\ performed' = [performed EXCEPT ![j] = {}]
    /\ disturbed' = disturbed \ {j}
    /\ died' = died \ {j}
    /\ Goto(j, "start")
    /\ UNCHANGED <<directory, at, rows, digests, records, sealed, verdict, deaths>>

\* loop.run as far as the first file.
BeginRun(j) ==
    /\ pc[j] = "start" /\ Missing = {}
    /\ job' = [job EXCEPT ![j] = EnterStage(@, 1)]
    /\ at' = [at EXCEPT ![j] = 1]
    /\ Goto(j, "rows")
    /\ UNCHANGED <<directory, rows, digests, disturbed, unsaid, records, performed, sealed,
                   verdict, history>>

\* After source at[t], the next one; after the last, what `load` returns.
NextSource(t) ==
    IF at[t] = Len(Sources)
    THEN Goto(t, "loaded") /\ UNCHANGED at
    ELSE Goto(t, "rows") /\ at' = [at EXCEPT ![t] = @ + 1]

\* The first read of a file: the reader parses what is there.  A part of a file, or
\* a mixture of two, is read like a whole one, or is not well formed.
ReadRows(t) ==
    LET bytes == files[Sources[at[t]]] IN
    /\ pc[t] = "rows"
    /\ bytes # Nothing /\ bytes.from \notin Unreadable
    /\ rows' = [rows EXCEPT ![t][Sources[at[t]]] = bytes]
    /\ disturbed' = IF bytes.state # "writing" THEN disturbed ELSE disturbed \cup {t}
    /\ Goto(t, "digest")
    /\ UNCHANGED <<directory, at, digests, closing, verdict, history>>

\* ReaderError or OSError: a failed source with no rows and no digest, never an exception.
CannotRead(t) ==
    LET bytes == files[Sources[at[t]]] IN
    /\ pc[t] = "rows"
    /\ \/ bytes = Nothing \/ bytes.from \in Unreadable
       \/ bytes.state # "whole" \/ bytes.rest # Nobody
    /\ disturbed' = IF bytes.state # "writing" THEN disturbed ELSE disturbed \cup {t}
    /\ NextSource(t)
    /\ UNCHANGED <<directory, rows, digests, closing, verdict, history>>

\* sha256_of(path): the second read of the same file.
ReadDigest(t) ==
    LET bytes == files[Sources[at[t]]] IN
    /\ pc[t] = "digest"
    /\ digests' = [digests EXCEPT ![t][Sources[at[t]]] = bytes]
    /\ disturbed' = IF bytes.state # "writing" THEN disturbed ELSE disturbed \cup {t}
    /\ NextSource(t)
    /\ UNCHANGED <<directory, rows, closing, verdict, history>>

\* Mutant: the id is made of the digest of the first source alone.
RunIdOfAnchors(d) == [s \in Names |-> IF s = Sources[1] THEN d[s] ELSE Nothing]

\* run_id_for: label, policy, taxonomy and rules are those of the period; the
\* digests are what varies.
RunId(d) == d

\* A stage's work is done and the next one entered, up to `record`.
NextStage(j) ==
    /\ pc[j] = "loaded"
    /\ job[j].current < Len(Stages)
    /\ performed' = [performed EXCEPT ![j] = @ \cup {Current(job[j])}]
    /\ job' = [job EXCEPT ![j] = EnterStage(@, @.current + 1)]
    /\ UNCHANGED <<directory, pc, reading, unsaid, records, sealed, verdict, history>>

\* The log of run RunId(digests[j]) as j writes it, and the other runs' logs.
\* calm: history, whether no file of it was being written while it was read.
Record(j, state) == [id |-> RunId(digests[j]), state |-> state, digests |-> digests[j],
                     rows |-> rows[j], calm |-> j \notin disturbed]
Others(j) == {r \in records : r.id # RunId(digests[j])}

\* The log's lock is free and the log begun afresh; no second writer until it is closed.
OpenRecord(j) ==
    /\ pc[j] = "loaded" /\ job[j].current = Len(Stages)
    /\ ~\E r \in records : r.state = "open" /\ r.id = RunId(digests[j])
    /\ records' = Others(j) \cup {Record(j, "open")}
    /\ Goto(j, "open")
    /\ UNCHANGED <<directory, reading, job, unsaid, performed, sealed, verdict, history>>

\* The terminator is written and the lock released.
SealRecord(j) ==
    /\ pc[j] = "open"
    /\ records' = Others(j) \cup {Record(j, "sealed")}
    /\ sealed' = sealed \cup {Record(j, "sealed")}
    /\ performed' = [performed EXCEPT ![j] = @ \cup {"record"}]
    /\ Goto(j, "sealed")
    /\ UNCHANGED <<directory, reading, job, unsaid, verdict, history>>

\* service.events counts the log's events, and the job is finished.
Finish(j) ==
    /\ pc[j] = "sealed"
    /\ \E r \in records : r.id = RunId(digests[j]) /\ r.state # "open"
    /\ job' = [job EXCEPT ![j] = FinishJob(@)]
    /\ EndThread(j)
    /\ UNCHANGED <<directory, unsaid, records, performed, sealed, verdict, history>>

\* What a failing close leaves of the record it was writing: nothing, or a half.
LeaveRecord(j) ==
    IF pc[j] # "open" THEN UNCHANGED records
    ELSE \/ records' = Others(j)
         \/ records' = Others(j) \cup {Record(j, "half")}

\* do_close's handler fails the Job in memory, b, and writes it; or that write raises
\* in its turn, which ends the thread and leaves the job file as it was.
FailAs(j, b) ==
    /\ \/ job' = [job EXCEPT ![j] = FailJob(b)] /\ UNCHANGED unsaid
       \/ unsaid' = unsaid \cup {j} /\ UNCHANGED job
    /\ EndThread(j)

\* Mutant: only a LoopError is caught; anything else ends the thread and no more.
FailUncaught(j) ==
    /\ pc[j] \in {"start", "loaded", "open", "sealed"}
    /\ LeaveRecord(j)
    /\ job' = IF pc[j] = "start" THEN [job EXCEPT ![j] = FailJob(@)] ELSE job
    /\ EndThread(j)
    /\ UNCHANGED <<directory, unsaid, performed, sealed, verdict, history>>

\* Any exception of the thread: a bundle that fails, a journal that is busy or gone, a
\* `report` that cannot be written.
Fail(j) ==
    /\ pc[j] \in {"start", "loaded", "open", "sealed"}
    /\ LeaveRecord(j)
    /\ FailAs(j, job[j])
    /\ UNCHANGED <<directory, performed, sealed, verdict, history>>

\* The next stage is entered in memory and the job file does not take it.
FailEntering(j) ==
    /\ pc[j] \in {"start", "loaded"} /\ job[j].current < Len(Stages)
    /\ performed' = IF pc[j] = "start" THEN performed
                    ELSE [performed EXCEPT ![j] = @ \cup {Current(job[j])}]
    /\ FailAs(j, EnterStage(job[j], job[j].current + 1))
    /\ UNCHANGED <<directory, records, sealed, verdict, history>>

\* The job is complete in memory and the job file does not take it: it is failed.
FailFinishing(j) ==
    /\ pc[j] = "sealed"
    /\ FailAs(j, FinishJob(job[j]))
    /\ UNCHANGED <<directory, records, performed, sealed, verdict, history>>
-----------------------------------------------------------------------------
(* service.reverify. *)

\* The record to re-verify is taken first; the files are read again after that.
BeginReverify(r) ==
    /\ pc[Auditor] = "off" /\ dir /\ Missing = {}
    /\ r \in records /\ r.state # "open"
    /\ verdict' = [of |-> {r}, holds |-> FALSE]
    /\ at' = [at EXCEPT ![Auditor] = 1]
    /\ Goto(Auditor, "rows")
    /\ UNCHANGED <<directory, rows, digests, disturbed, closing, history>>

\* Mutant: it is the proofs that count, whatever file they are checked on.
HoldsOnProofs(r, proofsHold) == proofsHold

\* Every digest is the recorded one, and every proof of the record still holds.
Holds(r, proofsHold) == r.digests = digests[Auditor] /\ proofsHold

\* Proofs are re-derived from the rows read now: they hold on the rows they were
\* made on, and may hold on others.
EndReverify(proofsHold) ==
    \E r \in verdict.of :
        /\ pc[Auditor] = "loaded"
        /\ rows[Auditor] = r.rows => proofsHold
        /\ verdict' = [of |-> {r}, holds |-> Holds(r, proofsHold)]
        /\ Goto(Auditor, "over")
        /\ UNCHANGED <<directory, reading, closing, history>>
-----------------------------------------------------------------------------
\* The process dies: every thread and request with it.  Files stay as they are, and
\* one that was being written stays half of one.
Die ==
    /\ deaths < MaxDeaths
    /\ deaths' = deaths + 1
    /\ uploads' = [u \in Uploads |->
         IF uploads[u].state = "none" THEN uploads[u] ELSE [state |-> "over", attached |-> {}]]
    /\ sampling' = {} /\ writing' = [w \in Writers |-> {}]
    /\ files' = [s \in Names |->
         [files[s] EXCEPT !.state = IF @ = "writing" THEN "half" ELSE @]]
    /\ died' = died \cup {j \in Jobs : pc[j] \notin {"off", "over"}}
    /\ records' = {[r EXCEPT !.state = IF @ = "open" THEN "half" ELSE @] : r \in records}
    /\ pc' = [t \in Threads |-> IF pc[t] = "off" THEN "off" ELSE "over"]
    /\ at' = [t \in Threads |-> 0]
    /\ rows' = [t \in Threads |-> [s \in Names |-> Nothing]]
    /\ digests' = rows'
    /\ verdict' = [of |-> {}, holds |-> FALSE]
    /\ UNCHANGED <<dir, disturbed, job, unsaid, performed, sealed, closes>>

Close(j) ==
    \/ BeginRun(j) \/ ReadRows(j) \/ CannotRead(j) \/ ReadDigest(j)
    \/ NextStage(j) \/ OpenRecord(j) \/ SealRecord(j)
    \/ Finish(j) \/ Fail(j) \/ FailEntering(j) \/ FailFinishing(j)

Next ==
    \/ \E u \in Uploads :
         \/ \E attached \in SUBSET Names : BeginUpload(u, attached)
         \/ \E s \in Names : OpenFile(u, s) \/ FillFile(u, s) \/ BreakFile(u, s)
         \/ EndUpload(u)
    \/ BeginSample \/ EndSample
    \/ \E s \in Names : OpenSample(s) \/ FillSample(s)
    \/ \E j \in Jobs : DoClose(j) \/ Close(j)
    \/ \E r \in records : BeginReverify(r)
    \/ ReadRows(Auditor) \/ CannotRead(Auditor) \/ ReadDigest(Auditor)
    \/ \E proofsHold \in BOOLEAN : EndReverify(proofsHold)
    \/ Die

Spec == Init /\ [][Next]_vars

\* A thread runs until its close ends: nothing in it waits without a timeout.
FairSpec == Spec /\ \A j \in Jobs : WF_vars(Close(j))
-----------------------------------------------------------------------------
\* What the page says a close did, it did: a stage shown done was performed, and a
\* close shown complete sealed its record, whatever failed, died or could not be
\* written on the way (progress.Tracker; "the worst possible lie for this product to
\* tell").
JobTellsTheTruth ==
    \A j \in Jobs :
        /\ \A s \in StageNames : job[j].stages[s] = "done" => s \in performed[j]
        /\ job[j].state = "complete" => performed[j] = StageNames

\* Two closes that share a run id decided over the same rows (run_id_for), unless
\* a file was being written while one of them read it.
SameRunSameRows ==
    \A r, q \in sealed : r.id = q.id /\ r.calm /\ q.calm => r.rows = q.rows

\* A re-verification that holds is of the rows that were closed, even if every
\* proof would hold on what the files have become (service.reverify), unless a
\* file was being written while it was read.
HoldsOnTheRowsClosed ==
    \A r \in verdict.of :
        verdict.holds /\ r.calm /\ Auditor \notin disturbed => rows[Auditor] = r.rows

\* The job file of a close stops saying `running`, whatever its thread meets, write
\* failures of the job file itself included, unless the process died under it or the
\* very write that would have said `failed` failed (do_close's `except Exception`,
\* "every failure is a state the page must show": the second of these is not).
JobEnds ==
    \A j \in Jobs :
        job[j].state = "running" ~> job[j].state # "running" \/ j \in died \cup unsaid
=============================================================================
