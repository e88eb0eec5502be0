------------------------------- MODULE Upload -------------------------------
(***************************************************************************)
(* The life of one attachment on noxd: declared, uploaded over requests    *)
(* that break, continued, finished, bound to a message, or swept.  Files   *)
(* share nothing, so one is modelled: its row, its part, its finished      *)
(* bytes, the record of how much of the part is durable, the tokens for    *)
(* it, the requests (PUT) that write it one at a time, and the client that *)
(* gives up on requests the server still carries.                          *)
(*                                                                         *)
(* Lengths are real: a file on disk is a header and sealed chunks, the     *)
(* last one shorter.  Piece 0 is the header, piece i the i-th chunk.  A    *)
(* chunk still arriving is in memory only, so bytes count once sealed.     *)
(* Directory operations are taken to reach the disk in the order they were *)
(* made (external); file data reaches it with Sync, and may be lost before;*)
(* a commit of the database reaches it when the WAL is folded in, and may  *)
(* be taken back before (synchronous=NORMAL).                              *)
(***************************************************************************)
EXTENDS Integers, FiniteSets, FiniteSetsExt

CONSTANTS
    Put,          \* requests carrying bytes, at a time
    None,         \* no request
    ChunkSize, TagSize, HeaderSize,
    Size,         \* plaintext size of the file
    Every,        \* chunks between checkpoints (checkpointBytes)
    MaxFaults     \* bound: crashes, disk failures, breaks and give-ups

ASSUME UploadAssumption ==
    /\ None \notin Put
    /\ {ChunkSize, TagSize, HeaderSize, Size, Every} \subseteq Nat \ {0}
    /\ MaxFaults \in Nat

VARIABLES
    row,      \* files: none, declared, uploaded, bound, gone (swept), or
              \* lost (a power loss took back the commit that made it)
    past,     \* the rows of late, which a power loss may bring back
    old,      \* declared before the sweep's cutoff
    srv,      \* down, sweeping, up
    todo,     \* names the sweep has still to remove
    part,     \* <id>.part
    file,     \* <id>
    rec,      \* <id>.synced; 0 is no record
    put,      \* what each request is doing
    active,   \* uploadWriters: the request that holds the part
    asked,    \* a continuation waiting for a writer to let go
    client,   \* the device: its state, and the ticket it holds
    cur,      \* the request the device still waits for
    faults

diskVars == <<part, file, rec>>
serverVars == <<row, past, old, srv, todo>>
uploadVars == <<serverVars, diskVars, put, active, asked, client, cur, faults>>

(***************************************************************************)
(* The format                                                              *)
(***************************************************************************)

SealedSize == ChunkSize + TagSize
Chunks == (Size + ChunkSize - 1) \div ChunkSize
Piece == 0 .. Chunks

CipherLen(plain) ==
    HeaderSize + (plain \div ChunkSize) * SealedSize
      + (IF plain % ChunkSize > 0 THEN (plain % ChunkSize) + TagSize ELSE 0)

\* A tail too short to be a chunk holds nothing.
plainLen(n) ==
    LET m == n - HeaderSize
        rem == m % SealedSize
    IN  IF n < HeaderSize THEN 0
        ELSE (m \div SealedSize) * ChunkSize
             + (IF rem > TagSize THEN rem - TagSize ELSE 0)

\* Whole chunks only, unless the record names exactly what the part holds.
durable(synced, held) ==
    IF synced = held THEN held
    ELSE (Min({synced, held}) \div ChunkSize) * ChunkSize

\* Where piece i ends on disk, and in the plaintext.
PlainEnd(i) == Min({i * ChunkSize, Size})
End(i) == CipherLen(PlainEnd(i))

(***************************************************************************)
(* Files on disk: length, pieces not flushed yet, pieces with wrong bytes  *)
(***************************************************************************)

Absent == [len |-> -1, fresh |-> {}, bad |-> {}]

Truncate(f, n) ==
    [len |-> n,
     fresh |-> {i \in f.fresh : End(i) <= n},
     bad |-> {i \in Piece : End(i) <= n /\ (i \in f.bad \/ End(i) > f.len)}]

\* A write at the place of piece i; what is skipped over is a hole.
WritePiece(f, i) ==
    [len |-> Max({f.len, End(i)}),
     fresh |-> f.fresh \cup {i},
     bad |-> (f.bad \cup {j \in 0 .. i - 1 : End(j) > f.len}) \ {i}]

Flush(f) == [f EXCEPT !.fresh = {}]

\* What a power loss may leave of a file: pieces not flushed are lost or cut off.
SafeLen(f) ==
    Max({0} \cup {End(i) : i \in {j \in Piece : End(j) <= f.len /\ j \notin f.fresh}})
Survivors(f) ==
    IF f.fresh = {} THEN {f}
    ELSE {[len |-> n, fresh |-> {}, bad |-> {i \in f.bad \cup lost : End(i) <= n}] :
            n \in SafeLen(f) .. f.len, lost \in SUBSET f.fresh}

\* Received: what the record says, but never more than the part holds.
Received ==
    IF part.len < HeaderSize \/ 0 \in part.bad THEN 0
    ELSE durable(rec, plainLen(part.len))

\* Every byte arrived and was flushed before the rename, whatever the row says.
finished == file.len = CipherLen(Size)

\* What a download opens: the length its size makes, a header, every chunk.
Opens == finished /\ file.bad = {}

(***************************************************************************)
(* The device                                                              *)
(***************************************************************************)

Idle == [stage |-> "idle", off |-> 0, live |-> FALSE, sealed |-> 0,
         synced |-> 0, since |-> 0, stop |-> "no", then |-> "none"]

UploadInit ==
    /\ row = "none" /\ past = {} /\ old = FALSE /\ srv = "up" /\ todo = {}
    /\ part = Absent /\ file = Absent /\ rec = 0
    /\ put = [p \in Put |-> Idle]
    /\ active = None /\ asked = "no"
    /\ client = [st |-> "rest", off |-> 0, live |-> FALSE]
    /\ cur = None /\ faults = 0

Fault == faults < MaxFaults /\ faults' = faults + 1

\* A new token revokes the ones before it; the device may no longer be listening.
issue(off) ==
    /\ put' = [p \in Put |-> [put[p] EXCEPT !.live = FALSE]]
    /\ client' = IF client.st = "asking"
                 THEN [st |-> "ticket", off |-> off, live |-> TRUE]
                 ELSE [client EXCEPT !.live = FALSE]

\* A write transaction on the row, which is not flushed until the WAL is.
Transact(r) ==
    /\ row' = r
    /\ past' = past \cup {IF row = "none" THEN "lost" ELSE row}

CreateUpload == Transact("declared")
MarkUploaded == Transact("uploaded")
DeleteFiles == Transact("gone")

handleFileUploadBegin ==
    /\ srv = "up" /\ row = "none"
    /\ CreateUpload
    /\ client' = [st |-> "ticket", off |-> 0, live |-> TRUE]
    /\ UNCHANGED <<old, srv, todo, diskVars, put, active, asked, cur, faults>>

\* interrupt marks the writer stopped; it hears of it at its next read.
Interrupt(q) ==
    IF put[q].stop = "no" /\ put[q].stage # "leaving"
    THEN [put EXCEPT ![q].stop = "asked"] ELSE put

\* The device asks how much the server holds; a request still writing is told
\* to stop, and waited for.
continueUpload ==
    /\ srv = "up" /\ client.st = "rest" /\ asked = "no"
    /\ row \in {"declared", "uploaded"}
    /\ asked' = "waiting"
    /\ client' = [client EXCEPT !.st = "asking"]
    /\ put' = IF row = "declared" /\ active # None THEN Interrupt(active) ELSE put
    /\ UNCHANGED <<serverVars, diskVars, active, cur, faults>>

\* The writer let go, or it did not in time: the row is read again.
continuationAnswers ==
    /\ asked = "waiting"
    /\ asked' = "no"
    /\ \/ /\ row \in {"declared", "uploaded"}
          /\ issue(IF row = "uploaded" \/ finished THEN Size ELSE Min({Received, Size}))
       \/ /\ row \notin {"declared", "uploaded"}
          /\ client' = [client EXCEPT !.st = IF @ = "asking" THEN "rest" ELSE @]
          /\ UNCHANGED put
    /\ UNCHANGED <<serverVars, diskVars, active, cur, faults>>

\* The token lives ten minutes.
TokenExpires ==
    /\ Fault
    /\ \/ client.live /\ client' = [client EXCEPT !.live = FALSE] /\ UNCHANGED put
       \/ \E p \in Put : put[p].live /\ put' = [put EXCEPT ![p].live = FALSE]
          /\ UNCHANGED client
    /\ UNCHANGED <<serverVars, diskVars, active, asked, cur>>

PutLeaves(p) ==
    /\ client.st = "ticket" /\ put[p].stage = "idle"
    /\ put' = [put EXCEPT ![p] = [Idle EXCEPT !.stage = "sent", !.off = client.off,
                                              !.live = client.live]]
    /\ client' = [st |-> "sending", off |-> 0, live |-> FALSE]
    /\ cur' = p
    /\ UNCHANGED <<serverVars, diskVars, active, asked, faults>>

\* The device stops waiting - no signal, a new path, the app was closed.  What
\* it sent goes on at the server.
GiveUp ==
    /\ Fault
    /\ client.st \in {"asking", "ticket", "sending"}
    /\ client' = [st |-> "rest", off |-> 0, live |-> FALSE]
    /\ cur' = None
    /\ UNCHANGED <<serverVars, diskVars, put, active, asked>>

(***************************************************************************)
(* A request                                                               *)
(***************************************************************************)

Goes(p, s) == put' = [put EXCEPT ![p].stage = s]

\* The request is over; the device hears of it if it still waits.
Answered(p, ok) ==
    /\ client' = IF cur = p THEN [client EXCEPT !.st = IF ok THEN "done" ELSE "rest"]
                 ELSE client
    /\ cur' = IF cur = p THEN None ELSE cur

\* The token is redeemed, once and whatever comes of it.
PutArrives(p) ==
    /\ srv = "up" /\ put[p].stage = "sent"
    /\ \/ /\ put[p].live /\ row \in {"declared", "uploaded", "bound"}
          /\ put' = [put EXCEPT ![p].stage = "taking", ![p].live = FALSE]
          /\ UNCHANGED <<client, cur>>
       \/ /\ ~put[p].live
          /\ put' = [put EXCEPT ![p] = Idle]
          /\ Answered(p, FALSE)
    /\ UNCHANGED <<serverVars, diskVars, active, asked, faults>>

\* take: nobody writes the part.
Take(p) ==
    /\ put[p].stage = "taking" /\ active = None
    /\ active' = p
    /\ Goes(p, "held")
    /\ UNCHANGED <<serverVars, diskVars, asked, client, cur, faults>>

\* take: whoever writes it is told to stop, the newest request being the one
\* the device still waits for.
TakeInterrupts(p) ==
    /\ put[p].stage = "taking" /\ active # None
    /\ put' = Interrupt(active) /\ put' # put
    /\ UNCHANGED <<serverVars, diskVars, active, asked, client, cur, faults>>

\* take: it did not let go in time.
TakeGivesUp(p) ==
    /\ put[p].stage = "taking" /\ active # None
    /\ put' = [put EXCEPT ![p] = Idle]
    /\ Answered(p, FALSE)
    /\ UNCHANGED <<serverVars, diskVars, active, asked, faults>>

OffsetFits(off) == off % ChunkSize = 0 \/ off = Size

\* Faulty variant: what a lost commit left is answered, never committed.
FinishedUncommitted(p) ==
    /\ put[p].stage = "held"
    /\ row \in {"uploaded", "bound"} \/ finished
    /\ Goes(p, IF put[p].off < Size \/ row = "declared" THEN "leaving" ELSE "thanked")
    /\ UNCHANGED <<serverVars, diskVars, active, asked, client, cur, faults>>

\* putFinished: every byte is here already.  A token for an earlier offset is
\* refused; a commit that never landed is made up for.
putFinished(p) ==
    /\ put[p].stage = "held"
    /\ row \in {"uploaded", "bound"} \/ finished
    /\ Goes(p, IF put[p].off < Size THEN "leaving"
               ELSE IF row = "declared" THEN "committing" ELSE "thanked")
    /\ UNCHANGED <<serverVars, diskVars, active, asked, client, cur, faults>>

CanResume(p) == OffsetFits(put[p].off) /\ Received >= put[p].off

\* The bytes the token was issued after are no longer all on disk.
ResumeRefuses(p) ==
    /\ put[p].stage = "held" /\ row = "declared" /\ ~finished /\ ~CanResume(p)
    /\ Goes(p, "leaving")
    /\ UNCHANGED <<serverVars, diskVars, active, asked, client, cur, faults>>

\* Faulty variant: the record is left for the next checkpoint to lower.
ResumeKeepsRecord(p) ==
    /\ put[p].stage = "held" /\ row = "declared" /\ ~finished /\ CanResume(p)
    /\ put' = [put EXCEPT ![p].stage = "cutting", ![p].synced = rec,
                          ![p].sealed = put[p].off]
    /\ UNCHANGED <<serverVars, diskVars, active, asked, client, cur, faults>>

\* Resume lowers the record to the offset before the part is cut ...
ResumeLowers(p) ==
    /\ put[p].stage = "held" /\ row = "declared" /\ ~finished /\ CanResume(p)
    /\ rec' = Min({rec, put[p].off})
    /\ put' = [put EXCEPT ![p].stage = "cutting", ![p].synced = rec',
                          ![p].sealed = put[p].off]
    /\ UNCHANGED <<serverVars, part, file, active, asked, client, cur, faults>>

\* ... which gives a new part its header.
ResumeCuts(p) ==
    /\ put[p].stage = "cutting"
    /\ part' = IF put[p].off = 0 THEN WritePiece(Truncate(Absent, 0), 0)
               ELSE Truncate(part, CipherLen(put[p].off))
    /\ Goes(p, "receiving")
    /\ UNCHANGED <<serverVars, file, rec, active, asked, client, cur, faults>>

\* Checkpoint is nothing to do when all that is sealed is recorded.
Checkpoint(p, next) ==
    IF put[p].sealed = put[p].synced THEN [put[p] EXCEPT !.stage = next]
    ELSE [put[p] EXCEPT !.stage = "sync", !.then = next]

\* receive: one more chunk is whole and sealed.  A read under way when the
\* request was told to stop may still deliver; the next one does not.
ReceiveChunk(p) ==
    LET i == put[p].sealed \div ChunkSize + 1
        u == [put[p] EXCEPT !.sealed = PlainEnd(i), !.since = @ + 1,
                            !.stop = IF @ = "asked" THEN "heard" ELSE @]
    IN
    /\ put[p].stage = "receiving" /\ put[p].stop # "heard" /\ put[p].sealed < Size
    /\ part' = WritePiece(part, i)
    /\ put' = [put EXCEPT ![p] =
                 IF u.since >= Every
                 THEN [u EXCEPT !.stage = "sync", !.then = "receiving", !.since = 0]
                 ELSE u]
    /\ UNCHANGED <<serverVars, file, rec, active, asked, client, cur, faults>>

\* Faulty variant: the part is renamed without a flush.
BodyEndsUnflushed(p) ==
    /\ put[p].stage = "receiving" /\ put[p].stop # "heard" /\ put[p].sealed = Size
    /\ Goes(p, "renaming")
    /\ UNCHANGED <<serverVars, diskVars, active, asked, client, cur, faults>>

\* The body ended where the file ends.
BodyEnds(p) ==
    /\ put[p].stage = "receiving" /\ put[p].stop # "heard" /\ put[p].sealed = Size
    /\ put' = [put EXCEPT ![p].stage = "sync", ![p].then = "renaming"]
    /\ UNCHANGED <<serverVars, diskVars, active, asked, client, cur, faults>>

\* It broke off, stalled, ended early, or a newer request came: what is sealed
\* is kept.
Suspends(p) ==
    /\ put[p].stage = "receiving"
    /\ put' = [put EXCEPT ![p] = Checkpoint(p, "leaving")]
    /\ UNCHANGED <<serverVars, diskVars, active, asked, client, cur>>

BodyBreaks(p) == Fault /\ p = cur /\ Suspends(p)
BodyStalls(p) == p # cur /\ Suspends(p) /\ UNCHANGED faults
Superseded(p) == put[p].stop # "no" /\ Suspends(p) /\ UNCHANGED faults

\* More bytes than the rest of the file: none of this request's stay, the
\* record going down first.
TooBig(p) ==
    /\ Fault
    /\ put[p].stage = "receiving" /\ put[p].sealed = Size
    /\ rec' = Min({rec, put[p].off})
    /\ part' = Truncate(part, CipherLen(put[p].off))
    /\ Goes(p, "leaving")
    /\ UNCHANGED <<serverVars, file, active, asked, client, cur>>

\* Faulty variant: the flush before the record is left out.
SyncUnflushed(p) ==
    /\ put[p].stage = "sync"
    /\ Goes(p, IF put[p].then = "renaming" THEN "renaming" ELSE "recording")
    /\ UNCHANGED <<serverVars, diskVars, active, asked, client, cur, faults>>

\* The part is flushed ...
Sync(p) ==
    /\ put[p].stage = "sync"
    /\ part' = Flush(part)
    /\ put' = [put EXCEPT ![p].stage = IF put[p].then = "renaming" THEN "renaming"
                                       ELSE "recording"]
    /\ UNCHANGED <<serverVars, file, rec, active, asked, client, cur, faults>>

\* ... and then recorded (writeSynced renames the new record over the old).
Record(p) ==
    /\ put[p].stage = "recording"
    /\ rec' = put[p].sealed
    /\ put' = [put EXCEPT ![p].synced = put[p].sealed, ![p].stage = put[p].then]
    /\ UNCHANGED <<serverVars, part, file, active, asked, client, cur, faults>>

Receiving(p) ==
    put[p].stage = "receiving"
    \/ (put[p].stage \in {"sync", "recording"} /\ put[p].then = "receiving")

\* The disk refuses a write, a flush or a record while bytes arrive: what is not
\* recorded is cut off, or, if that fails too, everything thrown away.
WriteRefused(p) ==
    /\ Fault
    /\ Receiving(p)
    /\ \/ part' = Truncate(part, CipherLen(put[p].synced)) /\ UNCHANGED rec
       \/ part' = Absent /\ rec' = 0
    /\ Goes(p, "leaving")
    /\ UNCHANGED <<serverVars, file, active, asked, client, cur>>

\* It refuses at the beginning or the end of a request: things stay as they are.
EndRefused(p) ==
    /\ Fault
    /\ ~Receiving(p)
    /\ put[p].stage \in {"cutting", "sync", "recording", "renaming", "dropping", "committing"}
    /\ Goes(p, "leaving")
    /\ UNCHANGED <<serverVars, diskVars, active, asked, client, cur>>

\* Finalize renames the flushed part into place ...
FinalizeRenames(p) ==
    /\ put[p].stage = "renaming"
    /\ file' = part /\ part' = Absent
    /\ Goes(p, "dropping")
    /\ UNCHANGED <<serverVars, rec, active, asked, client, cur, faults>>

\* ... and drops the record.
FinalizeDrops(p) ==
    /\ put[p].stage = "dropping"
    /\ rec' = 0
    /\ Goes(p, "committing")
    /\ UNCHANGED <<serverVars, part, file, active, asked, client, cur, faults>>

\* commitUpload, on a context the request cannot cancel.
commitUpload(p) ==
    /\ put[p].stage = "committing" /\ row = "declared"
    /\ MarkUploaded
    /\ Goes(p, "thanked")
    /\ UNCHANGED <<old, srv, todo, diskVars, active, asked, client, cur, faults>>

\* The handler returns: the part is let go of - unless a newer writer has
\* it - and the answer goes out.
Release(p) ==
    /\ put[p].stage \in {"leaving", "thanked"}
    /\ active' = IF active = p THEN None ELSE active
    /\ put' = [put EXCEPT ![p] = Idle]
    /\ Answered(p, put[p].stage = "thanked")
    /\ UNCHANGED <<serverVars, diskVars, asked, faults>>

(***************************************************************************)
(* The row, the machine and the sweep                                      *)
(***************************************************************************)

\* message.send binds an uploaded file that no message has.
SendMessage ==
    /\ srv = "up" /\ row = "uploaded" /\ Transact("bound")
    /\ UNCHANGED <<old, srv, todo, diskVars, put, active, asked, client, cur, faults>>

DayPasses ==
    /\ row \in {"declared", "uploaded", "bound"} /\ ~old /\ old' = TRUE
    /\ UNCHANGED <<row, past, srv, todo, diskVars, put, active, asked, client, cur, faults>>

\* The WAL is folded into the database: what is committed stays so.
FoldWAL ==
    /\ srv # "down" /\ past # {} /\ past' = {}
    /\ UNCHANGED <<row, old, srv, todo, diskVars, put, active, asked, client, cur, faults>>

\* The process is gone, and requests and tokens with it.
Halt ==
    /\ srv' = "down" /\ todo' = {}
    /\ put' = [p \in Put |-> Idle]
    /\ active' = None /\ asked' = "no" /\ cur' = None
    /\ client' = [client EXCEPT !.st = IF @ = "done" THEN @ ELSE "rest", !.live = FALSE]

\* noxd is killed or stopped; the machine keeps what was written.
Kill ==
    /\ Fault /\ srv # "down" /\ Halt
    /\ UNCHANGED <<row, past, old, diskVars>>

\* The power fails: what was not flushed may be gone too, commits and bytes.
Crash ==
    /\ Fault /\ Halt
    /\ part' \in Survivors(part) /\ file' \in Survivors(file)
    /\ row' \in {row} \cup past /\ past' = {}
    /\ UNCHANGED <<old, rec>>

Orphan == row \in {"declared", "uploaded"} /\ old

\* Before the endpoints open, what was never bound within a day is swept ...
Start ==
    /\ srv = "down"
    /\ srv' = IF Orphan THEN "sweeping" ELSE "up"
    /\ todo' = IF Orphan THEN {"file", "part", "record"} ELSE {}
    /\ UNCHANGED <<row, past, old, diskVars, put, active, asked, client, cur, faults>>

\* ... the bytes first (Remove, in this order) ...
SweepRemoves ==
    /\ srv = "sweeping" /\ todo # {}
    /\ LET name == IF "file" \in todo THEN "file"
                   ELSE IF "part" \in todo THEN "part" ELSE "record" IN
       /\ todo' = todo \ {name}
       /\ file' = IF name = "file" THEN Absent ELSE file
       /\ part' = IF name = "part" THEN Absent ELSE part
       /\ rec' = IF name = "record" THEN 0 ELSE rec
    /\ UNCHANGED <<row, past, old, srv, put, active, asked, client, cur, faults>>

\* Faulty variant: the row goes before the bytes.
SweepDeletesFirst ==
    /\ srv = "sweeping"
    /\ DeleteFiles
    /\ srv' = IF todo = {} THEN "up" ELSE srv
    /\ UNCHANGED <<old, todo, diskVars, put, active, asked, client, cur, faults>>

\* ... and then the row.
SweepDeletes ==
    /\ srv = "sweeping" /\ todo = {}
    /\ DeleteFiles /\ srv' = "up"
    /\ UNCHANGED <<old, todo, diskVars, put, active, asked, client, cur, faults>>

Carries(p) ==
    \/ PutArrives(p) \/ TakeInterrupts(p) \/ putFinished(p)
    \/ ResumeRefuses(p) \/ ResumeLowers(p) \/ ResumeCuts(p)
    \/ BodyEnds(p) \/ BodyStalls(p) \/ Superseded(p) \/ Sync(p) \/ Record(p)
    \/ FinalizeRenames(p) \/ FinalizeDrops(p) \/ commitUpload(p) \/ Release(p)

Suffers(p) ==
    BodyBreaks(p) \/ TooBig(p) \/ WriteRefused(p) \/ EndRefused(p)

UploadNext ==
    \/ handleFileUploadBegin \/ continueUpload \/ continuationAnswers
    \/ TokenExpires \/ GiveUp \/ SendMessage \/ DayPasses
    \/ FoldWAL \/ Kill \/ Crash \/ Start \/ SweepRemoves \/ SweepDeletes
    \/ \E p \in Put : \/ PutLeaves(p) \/ Take(p) \/ TakeGivesUp(p)
                      \/ ReceiveChunk(p) \/ Carries(p) \/ Suffers(p)

UploadSpec == UploadInit /\ [][UploadNext]_uploadVars

\* The device asks again until it is told the file is whole (its queue does),
\* bytes of the request it waits for arrive, one that stopped moving is cut by
\* its stall deadline, take waits no longer than its timer, every goroutine runs and the machine comes back.
FairUploadSpec ==
    /\ UploadSpec
    /\ WF_uploadVars(continueUpload) /\ WF_uploadVars(continuationAnswers)
    /\ WF_uploadVars(Start) /\ WF_uploadVars(SweepRemoves) /\ WF_uploadVars(SweepDeletes)
    /\ \A p \in Put :
         /\ WF_uploadVars(PutLeaves(p))
         /\ WF_uploadVars(Take(p) \/ TakeGivesUp(p))
         /\ WF_uploadVars(Carries(p))
         /\ WF_uploadVars(p = cur /\ ReceiveChunk(p))

(***************************************************************************)
(* What it promises                                                        *)
(***************************************************************************)

\* The bytes a device is told the server holds are whole sealed chunks that a
\* power loss cannot take: the record follows the flush and goes down before
\* the part is cut (Received, Resume, Checkpoint, Rollback).
ReceivedIsSafe ==
    \A i \in Piece : i > 0 /\ PlainEnd(i) <= Received
                      => {0, i} \cap (part.fresh \cup part.bad) = {}

\* A file the database calls uploaded is served whole whenever the endpoints are
\* open, one bound to a message always, and one whose device was told so for the
\* day the sweep leaves it, even if the row's commit was taken back - whatever
\* requests, crashes and disks did before (MarkUploaded, Finalize, Open).
UploadedIsWhole ==
    /\ row \in {"uploaded", "bound"} /\ srv = "up" => Opens /\ file.fresh = {}
    /\ row = "bound" => Opens
    /\ client.st = "done" /\ ~old => Opens

\* Part, record or finished file: what a row has to name.
onDisk == part # Absent \/ file # Absent \/ rec > 0

\* What is held changes only by a request that writes, never by a power loss; the
\* row follows the bytes up, and a power loss takes it back no further than the
\* last commit the WAL was folded in with; only what nobody claimed is swept, and
\* the row goes last: a crash at any point of the sweep leaves a row the next one
\* retries (Received, Finalize, MarkUploaded, OrphanFiles, sweepOrphans).
Keep == INSTANCE KeptFile WITH
    due <- old, open <- srv = "up", held <- Received, whole <- finished

KeepsTheFile == Keep!KeptSpec

\* A declared upload is finished, or swept, however often it broke: nothing a
\* crash or a broken request leaves keeps every later one from finishing.  What a
\* power loss may do is take back the row, or the word the device was given: the
\* bytes are whole then, and the device does not ask again (attachFile).
EventuallyUploaded ==
    row = "declared" ~> \/ row \in {"uploaded", "bound", "gone", "lost"}
                        \/ client.st = "done" /\ Opens
=============================================================================
