-------------------------------- MODULE Gate --------------------------------
(***************************************************************************)
(* The password, the data and their way back: the locked start of noxd and *)
(* its goroutine that serves every request about the key file, the change  *)
(* of the password, the backup written beside a serving server, the        *)
(* restore onto an empty place, and what a start does to the data before   *)
(* the main port opens: the database is made, migrated, given its identity *)
(* and its journal, and rid of the uploads nobody sent.                    *)
(*                                                                         *)
(* Cryptography is external: a key file is a data key and the one password *)
(* that unseals it; a database, an attachment and a MAC remember the data  *)
(* key they were made with.  A transaction of the database is one step.    *)
(***************************************************************************)
EXTENDS Integers, Sequences, FiniteSets, SequencesExt

CONSTANTS
    Asker,       \* the page's tabs and the commands of the owner
    Pw,          \* passwords
    File,        \* attachments
    None,
    Kinds,       \* what may go wrong: kill, power, write, sync, damage
    Race,        \* a first password may be set while a restore runs
    MaxKeys, MaxEvents, MaxLosses, MaxFaults   \* bounds

\* keyFile: the data key, sealed with a password.
KeyFile == [pw : Pw, dk : Nat]

\* The database: what it was sealed with, its schema's number and fingerprint, the
\* server's identity, the journal's id, the journal, and the uploads.
Database ==
    [dk : Nat, ver : {0, 1}, fp : BOOLEAN, ident : BOOLEAN, journal : Nat,
     log : Seq(Nat), rows : [File -> {"none", "declared", "uploaded", "bound"}]]

ASSUME GateAssumption ==
    /\ None \notin Pw \cup KeyFile \cup Database
    /\ Kinds \subseteq {"kill", "power", "write", "sync", "damage"}
    /\ Race \in BOOLEAN
    /\ {MaxKeys, MaxEvents, MaxLosses, MaxFaults} \subseteq Nat

VARIABLES
    keyf,      \* the key file
    db,        \* the database
    files,     \* the attachments in place, each with the data key that sealed it
    staged,    \* a restore's staging area is on disk
    bak,       \* the backup
    partial,   \* a backup still being written, or cut off
    dur,       \* earlier databases a power cut may bring back
    srv,       \* the server's process
    ask,       \* the owner's requests
    bk,        \* the backup under way
    rest,      \* the restore under way
    dev,       \* what a device has of the journal
    known,     \* ghost: the password the owner was told is in force
    unsure,    \* ghost: passwords of requests whose end the owner never heard
    last,      \* data keys, journal ids and events made, machines lost, and the
               \* uploads that were a day old by the sweep of some start
    faults

disk == <<keyf, db, files, staged, bak, partial, dur>>
ghosts == <<known, unsure, last>>
gateVars == <<disk, srv, ask, bk, rest, dev, ghosts, faults>>

NoFiles == [f \in File |-> None]

Fault(kind) == kind \in Kinds /\ faults < MaxFaults /\ faults' = faults + 1

\* A write transaction.  A power cut may undo the latest ones (WAL and
\* synchronous=NORMAL: a commit is not flushed until the WAL is folded in, at the
\* latest when the last connection closes).
Transact(d) ==
    /\ db' = d
    /\ dur' = IF "power" \in Kinds THEN dur \cup ({db} \ {None}) ELSE {}

NewDatabase(k) ==
    [dk |-> k, ver |-> 0, fp |-> FALSE, ident |-> FALSE, journal |-> 0,
     log |-> <<>>, rows |-> [f \in File |-> "none"]]

NoAsk == [st |-> "none", kind |-> "none", pw |-> None, cur |-> None, reply |-> "none"]
Off == [pc |-> "off", lock |-> "none", key |-> None, stop |-> FALSE,
        page |-> FALSE, opener |-> None]
NoBackup == [st |-> "none", key |-> None, db |-> None, files |-> NoFiles, todo |-> {}]
NoRestore == [pc |-> "none", key |-> None, db |-> None, files |-> NoFiles]

GateInit ==
    /\ keyf = None /\ db = None /\ files = NoFiles
    /\ staged = FALSE /\ bak = None /\ partial = FALSE /\ dur = {}
    /\ srv = Off
    /\ ask = [x \in Asker |-> NoAsk]
    /\ bk = NoBackup /\ rest = NoRestore
    /\ dev = [journal |-> 0, log |-> <<>>]
    /\ known = None /\ unsure = {}
    /\ last = [key |-> 0, journal |-> 0, event |-> 0, loss |-> 0, old |-> {}]
    /\ faults = 0

(***************************************************************************)
(* Starting, and the requests of the owner                                 *)
(***************************************************************************)

\* What is on disk decides; one file without the other is no start at all.
detectLock ==
    IF db = None /\ keyf = None THEN "setup"
    ELSE IF db # None /\ keyf # None THEN "locked" ELSE "refused"

Start ==
    /\ srv.pc = "off" /\ detectLock # "refused"
    /\ srv' = [Off EXCEPT !.pc = "gate", !.lock = detectLock, !.page = TRUE]
    /\ UNCHANGED <<disk, ask, bk, rest, dev, ghosts, faults>>

\* ask: a request offered to the goroutine that serves the gate.
Ask(x, kind, pw, cur) ==
    /\ srv.page /\ ask[x].st = "none"
    /\ ask' = [ask EXCEPT ![x] = [st |-> "queued", kind |-> kind, pw |-> pw,
                                  cur |-> cur, reply |-> "none"]]
    /\ UNCHANGED <<disk, srv, bk, rest, dev, ghosts, faults>>

\* A form may be of a tab older than the state.
AskSetup(x, pw) == srv.lock \in {"setup", "locked"} /\ Ask(x, "setup", pw, None)
AskUnlock(x, pw) == srv.lock = "locked" /\ Ask(x, "unlock", pw, None)
AskChange(x, pw) == srv.lock = "open" /\ pw # known /\ Ask(x, "change", pw, known)

\* Taken, and not answered yet.
Served(x) == ask[x].st \in {"taken", "gone"} /\ ask[x].reply = "none"

\* Faulty variant: a change that was taken is not waited for.
HearsHastily(x) ==
    /\ ask[x].st \in {"queued", "taken"}
    /\ ask[x].reply # "none" \/ ~srv.page
    /\ known' = IF ask[x].reply \in {"ok", "why"} THEN ask[x].pw ELSE known
    /\ unsure' = IF ask[x].kind = "setup" THEN {ask[x].pw} ELSE unsure
    /\ ask' = [ask EXCEPT ![x] = IF Served(x) THEN [@ EXCEPT !.st = "gone"] ELSE NoAsk]
    /\ UNCHANGED <<disk, srv, bk, rest, dev, last, faults>>

\* The answer, or the context ended with the page: a change that was taken is
\* waited for all the same, and an answer already given wins.  Told "stopping",
\* the owner goes on with the password there was.
Hears(x) ==
    LET a == ask[x]
        told == a.reply # "none"
        accepted == a.reply \in {"ok", "why"}
    IN
    /\ a.st \in {"queued", "taken"}
    /\ told \/ (~srv.page /\ ~(a.kind = "change" /\ a.st = "taken"))
    /\ known' = IF accepted THEN a.pw ELSE known
    /\ unsure' = IF accepted THEN {}
                 ELSE IF a.kind = "setup" /\ ~told THEN unsure \cup {a.pw} ELSE unsure
    /\ ask' = [ask EXCEPT ![x] = NoAsk]
    /\ UNCHANGED <<disk, srv, bk, rest, dev, last, faults>>

\* The command is interrupted, the tab closed: what was taken goes on.
HangsUp(x) ==
    /\ Fault("kill")
    /\ ask[x].st \in {"queued", "taken"}
    /\ unsure' = IF ask[x].kind = "unlock" THEN unsure ELSE unsure \cup {ask[x].pw}
    /\ ask' = [ask EXCEPT ![x] = IF @.st = "taken" /\ @.reply = "none"
                                 THEN [@ EXCEPT !.st = "gone"] ELSE NoAsk]
    /\ UNCHANGED <<disk, srv, bk, rest, dev, known, last>>

\* answer: buffered, so it never waits for a handler that is gone.
answer(x, code) ==
    ask' = [ask EXCEPT ![x] = IF @.st = "gone" THEN NoAsk
                              ELSE [@ EXCEPT !.st = "taken", !.reply = code]]

(***************************************************************************)
(* The goroutine that serves the gate                                      *)
(***************************************************************************)

\* awaitKey before the data is open, the keeper after it.
Waits == srv.pc = "open" \/ (srv.pc = "gate" /\ srv.page)

\* Faulty variant: a backup is written beside a change.
AtSelectBesideBackup == Waits /\ \A x \in Asker : ~Served(x)

\* Nothing is being served: one request at a time, the backup being one.
AtSelect ==
    /\ Waits /\ bk.st = "none"
    /\ \A x \in Asker : ~Served(x)

\* A request the state does not take any more.
AnswersState(x) ==
    /\ AtSelect /\ ask[x].st = "queued"
    /\ srv.lock # [setup |-> "setup", unlock |-> "locked", change |-> "open"][ask[x].kind]
    /\ answer(x, "state")
    /\ UNCHANGED <<disk, srv, bk, rest, dev, ghosts, faults>>

\* Faulty variant: the state stays what the start found.
SetupKeepsState(x) ==
    /\ AtSelect /\ ask[x].st = "queued" /\ ask[x].kind = "setup" /\ srv.lock = "setup"
    /\ Race \/ rest.pc = "none"
    /\ IF detectLock = "setup"
       THEN /\ srv' = [srv EXCEPT !.pc = "sealing", !.opener = x]
            /\ ask' = [ask EXCEPT ![x].st = "taken"]
       ELSE answer(x, "state") /\ UNCHANGED srv
    /\ UNCHANGED <<disk, bk, rest, dev, ghosts, faults>>

\* setup looks again: what appeared since the start is not covered.
setup(x) ==
    /\ AtSelect /\ ask[x].st = "queued" /\ ask[x].kind = "setup" /\ srv.lock = "setup"
    /\ Race \/ rest.pc = "none"
    /\ IF detectLock = "setup"
       THEN /\ srv' = [srv EXCEPT !.pc = "sealing", !.opener = x]
            /\ ask' = [ask EXCEPT ![x].st = "taken"]
       ELSE /\ srv' = IF detectLock = "locked" THEN [srv EXCEPT !.lock = "locked"] ELSE srv
            /\ answer(x, "state")
    /\ UNCHANGED <<disk, bk, rest, dev, ghosts, faults>>

\* vault.Create, after a second of Argon2id: WriteFile renames over what is there.
SetupCreates ==
    /\ srv.pc = "sealing" /\ last.key < MaxKeys
    /\ keyf' = [pw |-> ask[srv.opener].pw, dk |-> last.key + 1]
    /\ last' = [last EXCEPT !.key = @ + 1]
    /\ srv' = [srv EXCEPT !.pc = "database", !.lock = "opening", !.key = last.key + 1]
    /\ UNCHANGED <<db, files, staged, bak, partial, dur, ask, bk, rest, dev, known, unsure, faults>>

\* What a WriteFile that fails leaves of the key file: the old one, or, when
\* only its directory could not be flushed, the new one.
Refused(new) == IF "sync" \in Kinds THEN {keyf, new} ELSE {keyf}

SetupFails ==
    /\ srv.pc = "sealing" /\ last.key < MaxKeys
    /\ Fault("write")
    /\ keyf' \in Refused([pw |-> ask[srv.opener].pw, dk |-> last.key + 1])
    /\ last' = [last EXCEPT !.key = @ + 1]
    /\ srv' = [srv EXCEPT !.pc = "gate", !.opener = None]
    /\ answer(srv.opener, "internal")
    /\ UNCHANGED <<db, files, staged, bak, partial, dur, bk, rest, dev, known, unsure>>

\* The password opens the sealed key; a key file that is gone opens nothing.
Unseals(key, pw) == key # None /\ key.pw = pw

unlock(x) ==
    /\ AtSelect /\ ask[x].st = "queued" /\ ask[x].kind = "unlock" /\ srv.lock = "locked"
    /\ IF Unseals(keyf, ask[x].pw)
       THEN /\ srv' = [srv EXCEPT !.pc = "database", !.lock = "opening",
                                  !.key = keyf.dk, !.opener = x]
            /\ ask' = [ask EXCEPT ![x].st = "taken"]
       ELSE answer(x, "wrong") /\ UNCHANGED srv
    /\ UNCHANGED <<disk, bk, rest, dev, ghosts, faults>>

\* vault.Change reads the key file and opens it with the current password ...
change(x) ==
    /\ AtSelect /\ srv.pc = "open" /\ ask[x].st = "queued" /\ ask[x].kind = "change"
    /\ IF Unseals(keyf, ask[x].cur)
       THEN ask' = [ask EXCEPT ![x].st = "taken"]
       ELSE answer(x, "wrong")
    /\ UNCHANGED <<disk, srv, bk, rest, dev, ghosts, faults>>

Changing(x) == srv.pc = "open" /\ ask[x].kind = "change" /\ Served(x)

\* ... and renames the resealed one over it, no context stopping it.
ChangeWrites(x) ==
    /\ Changing(x)
    /\ keyf' = [keyf EXCEPT !.pw = ask[x].pw]
    /\ answer(x, "ok")
    /\ UNCHANGED <<db, files, staged, bak, partial, dur, srv, bk, rest, dev, ghosts, faults>>

ChangeFails(x) ==
    /\ Changing(x)
    /\ Fault("write")
    /\ keyf' \in Refused([keyf EXCEPT !.pw = ask[x].pw])
    /\ answer(x, "internal")
    /\ UNCHANGED <<db, files, staged, bak, partial, dur, srv, bk, rest, dev, ghosts>>

(***************************************************************************)
(* serve: from the key to the open port, and the way down                  *)
(***************************************************************************)

Goes(pc) == srv' = [srv EXCEPT !.pc = pc]
ServeStep == UNCHANGED <<keyf, files, staged, bak, partial, ask, bk, rest, dev, known, unsure, faults>>

\* What the first page opens with, and what a database of this build holds.
checkKey == db # None => db.dk = srv.key
assertIdentitySchema == db.ver = 1 /\ db.fp

\* db.Open: a file another key wrote is refused (checkKey), a missing one made.
OpenDatabase ==
    /\ srv.pc = "database"
    /\ checkKey
    /\ IF db = None THEN Transact(NewDatabase(srv.key)) ELSE UNCHANGED <<db, dur>>
    /\ Goes("migrate")
    /\ UNCHANGED last /\ ServeStep

\* The schema and its number are one transaction ...
Migrate ==
    /\ srv.pc = "migrate"
    /\ IF db.ver = 0 THEN Transact([db EXCEPT !.ver = 1]) /\ Goes("mark")
       ELSE UNCHANGED <<db, dur>> /\ Goes("schema")
    /\ UNCHANGED last /\ ServeStep

\* ... and the fingerprint is another, written only after something was applied.
RecordFingerprint ==
    /\ srv.pc = "mark"
    /\ Transact([db EXCEPT !.fp = TRUE])
    /\ Goes("schema")
    /\ UNCHANGED last /\ ServeStep

EnsureServerIdentity ==
    /\ srv.pc = "schema" /\ assertIdentitySchema
    /\ IF db.ident THEN UNCHANGED <<db, dur>> ELSE Transact([db EXCEPT !.ident = TRUE])
    /\ Goes("journal")
    /\ UNCHANGED last /\ ServeStep

EnsureJournal ==
    /\ srv.pc = "journal"
    /\ IF db.journal = 0
       THEN /\ Transact([db EXCEPT !.journal = last.journal + 1])
            /\ last' = [last EXCEPT !.journal = @ + 1]
       ELSE UNCHANGED <<db, dur, last>>
    /\ Goes("orphans")
    /\ ServeStep

(***************************************************************************)
(* sweepOrphans, the last a start does to the data                         *)
(***************************************************************************)

\* Faulty variant: the day is asked about, the message is not.
OldRows == {f \in last.old : db.rows[f] # "none"}

\* Uploads that no message names, declared more than a day ago.
Orphans == {f \in last.old : db.rows[f] \in {"declared", "uploaded"}}

\* The day of any upload may be over by now; what was old once is old again.
OrphanFiles ==
    /\ srv.pc = "orphans"
    /\ \E grown \in SUBSET {f \in File : db.rows[f] # "none"} :
         last' = [last EXCEPT !.old = @ \cup grown]
    /\ Goes("sweep")
    /\ UNCHANGED <<db, dur>> /\ ServeStep

\* The bytes of all of them go first ...
SweepRemoves(f) ==
    /\ srv.pc = "sweep" /\ f \in Orphans /\ files[f] # None
    /\ files' = [files EXCEPT ![f] = None]
    /\ UNCHANGED <<keyf, db, staged, bak, partial, dur, srv, ask, bk, rest, dev, ghosts, faults>>

\* ... and the rows after them, each a transaction.
SweepDeletes(f) ==
    /\ srv.pc = "sweep" /\ f \in Orphans
    /\ \A g \in Orphans : files[g] = None
    /\ Transact([db EXCEPT !.rows[f] = "none"])
    /\ UNCHANGED <<srv, last>> /\ ServeStep

SweepEnds ==
    /\ srv.pc = "sweep" /\ Orphans = {}
    /\ Goes("listen")
    /\ UNCHANGED <<db, dur, last>> /\ ServeStep

\* The port is bound, and the request that brought the key answered.
Opened ==
    /\ srv.pc = "listen"
    /\ srv' = [srv EXCEPT !.pc = "open", !.lock = "open", !.opener = None]
    /\ answer(srv.opener, "ok")
    /\ UNCHANGED <<disk, bk, rest, dev, ghosts, faults>>

Opening == {"database", "migrate", "mark", "schema", "journal", "orphans", "sweep", "listen"}

CannotOpen ==
    \/ srv.pc = "database" /\ ~checkKey
    \/ srv.pc = "schema" /\ ~assertIdentitySchema

\* Faulty variant: the page is stopped before anybody is told why.
RefusesSilently ==
    /\ srv.pc \in Opening
    /\ \/ Fault("write") \/ ((CannotOpen \/ srv.stop) /\ UNCHANGED faults)
    /\ srv' = [srv EXCEPT !.pc = "failed", !.opener = None]
    /\ UNCHANGED <<disk, ask, bk, rest, dev, ghosts>>

\* A step of serve failed: said to whoever unlocked, unless it was told to stop.
Refuses ==
    /\ srv.pc \in Opening
    /\ \/ Fault("write") \/ ((CannotOpen \/ srv.stop) /\ UNCHANGED faults)
    /\ srv' = [srv EXCEPT !.pc = "failed", !.opener = None]
    /\ IF srv.stop THEN UNCHANGED ask ELSE answer(srv.opener, "why")
    /\ UNCHANGED <<disk, bk, rest, dev, ghosts>>

Stop ==
    /\ Fault("kill")
    /\ srv.pc # "off" /\ ~srv.stop
    /\ srv' = [srv EXCEPT !.stop = TRUE]
    /\ UNCHANGED <<disk, ask, bk, rest, dev, ghosts>>

\* The page ends every request's context before the database closes.
PageStops ==
    /\ srv.page
    /\ srv.pc = "failed" \/ (srv.stop /\ srv.pc \in {"gate", "open"})
    /\ srv' = [srv EXCEPT !.page = FALSE]
    /\ UNCHANGED <<disk, ask, bk, rest, dev, ghosts, faults>>

\* Handlers and the goroutine that serves the gate are waited for.
Exits ==
    /\ ~srv.page /\ srv.pc \in {"gate", "open", "failed"}
    /\ bk.st = "none"
    /\ \A x \in Asker : ask[x].st = "none" \/ (srv.pc # "open" /\ ask[x].st = "gone")
    /\ srv' = Off
    /\ ask' = [x \in Asker |-> NoAsk]
    /\ dur' = {}
    /\ UNCHANGED <<keyf, db, files, staged, bak, partial, bk, rest, dev, ghosts, faults>>

\* The process is killed, with what it had in memory; when it is the power that
\* fails, the latest transactions may go too, and what is left is on the disk.
Kill ==
    /\ Fault("kill")
    /\ srv.pc # "off"
    /\ srv' = Off
    /\ unsure' = unsure \cup {ask[x].pw : x \in {y \in Asker : ask[y].kind \in {"setup", "change"}}}
    /\ ask' = [x \in Asker |-> NoAsk]
    /\ bk' = NoBackup
    /\ db' \in {db} \cup dur
    /\ dur' \in {dur, {}} /\ (db' # db => dur' = {})
    /\ UNCHANGED <<keyf, files, staged, bak, partial, rest, dev, known, last>>

(***************************************************************************)
(* What an open server does with its data                                  *)
(***************************************************************************)

Serving == srv.pc = "open"
DataStep == UNCHANGED <<keyf, staged, bak, partial, srv, ask, bk, rest, known, unsure, faults>>

\* A change of the journal; a message binds the uploads it names, for good.
Commit(F) ==
    /\ Serving /\ last.event < MaxEvents
    /\ \A f \in F : db.rows[f] = "uploaded"
    /\ Transact([db EXCEPT !.log = Append(@, last.event + 1),
                           !.rows = [f \in File |-> IF f \in F THEN "bound" ELSE db.rows[f]]])
    /\ last' = [last EXCEPT !.event = @ + 1]
    /\ UNCHANGED <<files, dev>> /\ DataStep

\* An upload is declared under an id minted at random, which no bytes on disk have
\* and no upload had before.
CreateUpload(f) ==
    /\ Serving /\ db.rows[f] = "none" /\ files[f] = None /\ f \notin last.old
    /\ Transact([db EXCEPT !.rows[f] = "declared"])
    /\ UNCHANGED <<files, dev, last>> /\ DataStep

\* An upload's bytes are in place before its row says so.
Finalize(f) ==
    /\ Serving /\ db.rows[f] = "declared" /\ files[f] = None
    /\ files' = [files EXCEPT ![f] = srv.key]
    /\ UNCHANGED <<db, dur, dev, last>> /\ DataStep

MarkUploaded(f) ==
    /\ Serving /\ db.rows[f] = "declared" /\ files[f] # None
    /\ Transact([db EXCEPT !.rows[f] = "uploaded"])
    /\ UNCHANGED <<files, dev, last>> /\ DataStep

\* A device reads what it has not seen, or everything of another journal.
DeviceSyncs ==
    /\ Serving
    /\ dev' = [journal |-> db.journal,
               log |-> IF dev.journal # db.journal THEN db.log
                       ELSE dev.log \o SubSeq(db.log, Len(dev.log) + 1, Len(db.log))]
    /\ dev' # dev
    /\ UNCHANGED <<db, dur, files, last>> /\ DataStep

(***************************************************************************)
(* A backup, on the goroutine that serves the gate                         *)
(***************************************************************************)

\* checkTarget refuses a path that is taken; the key file is read first.
BackupBegins ==
    /\ AtSelect /\ Serving /\ ~srv.stop
    /\ bak = None
    /\ bk' = [NoBackup EXCEPT !.st = "keyed", !.key = keyf]
    /\ UNCHANGED <<disk, srv, ask, rest, dev, ghosts, faults>>

\* The attachments the snapshot's rows name.
FileIDs(d) == {f \in File : d.rows[f] # "none"}

\* The snapshot says which attachments there are; then dst.partial is made.
BackupSnapshots ==
    /\ bk.st = "keyed" /\ ~partial /\ ~srv.stop
    /\ partial' = TRUE
    /\ bk' = [bk EXCEPT !.st = "copying", !.db = db, !.todo = FileIDs(db)]
    /\ UNCHANGED <<keyf, db, files, staged, bak, dur, srv, ask, rest, dev, ghosts, faults>>

\* A row whose upload has not finished has nothing to carry.
BackupCopies(f) ==
    /\ bk.st = "copying" /\ f \in bk.todo /\ ~srv.stop
    /\ bk' = [bk EXCEPT !.todo = @ \ {f}, !.files[f] = files[f]]
    /\ UNCHANGED <<disk, srv, ask, rest, dev, ghosts, faults>>

\* Faulty variant: the database goes in last, as it is by then.
AppearsWithLive ==
    /\ bk.st = "copying" /\ bk.todo = {}
    /\ LET content == [key |-> bk.key, db |-> db, files |-> bk.files] IN
       bak' = [content |-> content, mac |-> content, mackey |-> srv.key]
    /\ partial' = FALSE
    /\ bk' = NoBackup
    /\ UNCHANGED <<keyf, db, files, staged, dur, srv, ask, rest, dev, ghosts, faults>>

\* The manifest and its MAC close it; flushed, it is renamed into place.
BackupAppears ==
    /\ bk.st = "copying" /\ bk.todo = {}
    /\ LET content == [key |-> bk.key, db |-> bk.db, files |-> bk.files] IN
       bak' = [content |-> content, mac |-> content, mackey |-> srv.key]
    /\ partial' = FALSE
    /\ bk' = NoBackup
    /\ UNCHANGED <<keyf, db, files, staged, dur, srv, ask, rest, dev, ghosts, faults>>

\* The disk refuses, a partial backup is in the way, or the request's context
\* ended; what this one wrote goes.
BackupFails ==
    /\ bk.st # "none"
    /\ \/ Fault("write")
       \/ (srv.stop \/ (bk.st = "keyed" /\ partial)) /\ UNCHANGED faults
    /\ partial' = (partial /\ bk.st = "keyed")
    /\ bk' = NoBackup
    /\ UNCHANGED <<keyf, db, files, staged, bak, dur, srv, ask, rest, dev, ghosts>>

\* The file changes while it lies somewhere: an attachment of it is lost.
Damage ==
    /\ Fault("damage")
    /\ bak # None /\ bak.content.files # NoFiles
    /\ bak' = [bak EXCEPT !.content.files = NoFiles]
    /\ UNCHANGED <<keyf, db, files, staged, partial, dur, srv, ask, bk, rest, dev, ghosts>>

(***************************************************************************)
(* A restore, a process of its own                                         *)
(***************************************************************************)

checkEmpty == db = None /\ keyf = None /\ files = NoFiles /\ ~staged

RestoreStep == UNCHANGED <<bak, partial, srv, ask, bk, dev, unsure>>

RestoreBegins ==
    /\ rest.pc = "none" /\ bak # None /\ checkEmpty
    /\ Race \/ srv.pc \in {"off", "gate"}
    /\ rest' = [NoRestore EXCEPT !.pc = "empty"]
    /\ UNCHANGED <<keyf, db, files, staged, dur, known, last, faults>> /\ RestoreStep

\* Faulty variant: the entries are the manifest's, and nobody asks the MAC.
Intact(b) == TRUE

\* The MAC, under the data key the password unseals, covers every entry.
Vouched(b) == b.mackey = b.content.key.dk /\ b.mac = b.content

\* unpack: beside the target, checked to the last entry; a damaged one is gone again.
RestoreUnpacks ==
    /\ rest.pc = "empty"
    /\ IF Vouched(bak)
       THEN /\ rest' = [pc |-> "staged", key |-> bak.content.key, db |-> bak.content.db,
                        files |-> bak.content.files]
            /\ staged' = TRUE
       ELSE rest' = NoRestore /\ UNCHANGED staged
    /\ UNCHANGED <<keyf, db, files, dur, known, last, faults>> /\ RestoreStep

\* Faulty variant: the devices are left with the journal they know.
PreparesOldJournal ==
    /\ rest.pc = "staged" /\ rest.db.dk = rest.key.dk
    /\ rest' = [rest EXCEPT !.pc = "prepared"]
    /\ UNCHANGED <<keyf, db, files, staged, dur, known, last, faults>> /\ RestoreStep

RotateJournal(d) == [d EXCEPT !.journal = last.journal + 1]

\* prepare: opened with its key and given a new journal id.
RestorePrepares ==
    /\ rest.pc = "staged" /\ rest.db.dk = rest.key.dk
    /\ rest' = [rest EXCEPT !.pc = "prepared", !.db = RotateJournal(rest.db)]
    /\ last' = [last EXCEPT !.journal = @ + 1]
    /\ UNCHANGED <<keyf, db, files, staged, dur, known, faults>> /\ RestoreStep

\* place: the attachments ...
PlaceFiles ==
    /\ rest.pc = "prepared"
    /\ files' = rest.files
    /\ rest' = [rest EXCEPT !.pc = "filesIn"]
    /\ UNCHANGED <<keyf, db, staged, dur, known, last, faults>> /\ RestoreStep

\* ... the database, over whatever is there ...
PlaceDatabase ==
    /\ rest.pc = "filesIn"
    /\ db' = rest.db
    /\ dur' = {}
    /\ staged' = FALSE
    /\ rest' = [rest EXCEPT !.pc = "dbIn"]
    /\ UNCHANGED <<keyf, files, known, last, faults>> /\ RestoreStep

\* ... and the key file, which makes the place a server.
PlaceKey ==
    /\ rest.pc = "dbIn"
    /\ keyf' = rest.key
    /\ known' = rest.key.pw
    /\ rest' = NoRestore
    /\ UNCHANGED <<db, files, staged, dur, last, faults>> /\ RestoreStep

\* A step fails: what went before it is taken back, and the staging removed.
RestoreFails ==
    /\ rest.pc # "none"
    /\ Fault("write")
    /\ keyf' \in IF rest.pc = "dbIn" THEN Refused(rest.key) ELSE {keyf}
    /\ files' = IF rest.pc \in {"filesIn", "dbIn"} THEN NoFiles ELSE files
    /\ db' = IF rest.pc = "dbIn" THEN None ELSE db
    /\ staged' = FALSE
    /\ rest' = NoRestore
    /\ UNCHANGED <<dur, known, last>> /\ RestoreStep

RestoreKilled ==
    /\ Fault("kill")
    /\ rest.pc # "none"
    /\ rest' = NoRestore
    /\ UNCHANGED <<keyf, db, files, staged, dur, known, last>> /\ RestoreStep

EmptyPlace ==
    keyf' = None /\ db' = None /\ files' = NoFiles /\ staged' = FALSE /\ dur' = {} /\ partial' = FALSE

\* The machine is lost, and its owner has the backup.
MachineLost ==
    /\ bak # None /\ rest.pc = "none" /\ last.loss < MaxLosses
    /\ last' = [last EXCEPT !.loss = @ + 1]
    /\ srv' = Off /\ ask' = [x \in Asker |-> NoAsk] /\ bk' = NoBackup
    /\ EmptyPlace
    /\ UNCHANGED <<bak, rest, dev, known, unsure, faults>>

\* The owner moves aside what a refused start or restore named.
MovesAside ==
    /\ srv.pc = "off" /\ rest.pc = "none"
    /\ detectLock = "refused" \/ staged \/ (files # NoFiles /\ db = None)
    /\ EmptyPlace
    /\ UNCHANGED <<bak, srv, ask, bk, rest, dev, ghosts, faults>>

ServeNext ==
    \/ OpenDatabase \/ Migrate \/ RecordFingerprint \/ EnsureServerIdentity
    \/ EnsureJournal \/ OrphanFiles \/ SweepEnds \/ Opened \/ SetupCreates
    \/ \E f \in File : SweepRemoves(f) \/ SweepDeletes(f)

GateNext ==
    \/ Start \/ RestorePrepares
    \/ \E x \in Asker, pw \in Pw : AskSetup(x, pw) \/ AskUnlock(x, pw) \/ AskChange(x, pw)
    \/ \E x \in Asker :
         \/ Hears(x) \/ HangsUp(x) \/ AnswersState(x) \/ setup(x) \/ unlock(x)
         \/ change(x) \/ ChangeWrites(x) \/ ChangeFails(x)
    \/ ServeNext \/ SetupFails \/ Refuses \/ Stop \/ PageStops \/ Exits \/ Kill
    \/ (\E F \in SUBSET File : Commit(F)) \/ DeviceSyncs
    \/ \E f \in File : CreateUpload(f) \/ Finalize(f) \/ MarkUploaded(f) \/ BackupCopies(f)
    \/ BackupBegins \/ BackupSnapshots \/ BackupAppears \/ BackupFails \/ Damage
    \/ RestoreBegins \/ RestoreUnpacks \/ PlaceFiles \/ PlaceDatabase \/ PlaceKey
    \/ RestoreFails \/ RestoreKilled \/ MachineLost \/ MovesAside

GateSpec == GateInit /\ [][GateNext]_gateVars

\* The owner answers the page with a password that is right, the process is
\* started again, every goroutine runs, and a restore or a backup goes on.
FairGateSpec ==
    /\ GateSpec
    /\ WF_gateVars(Start)
    /\ SF_gateVars(srv.lock = "setup" /\ \E x \in Asker, pw \in Pw : AskSetup(x, pw))
    /\ SF_gateVars(\E x \in Asker : keyf # None /\ AskUnlock(x, keyf.pw))
    /\ \A x \in Asker :
         /\ WF_gateVars(Hears(x)) /\ WF_gateVars(AnswersState(x)) /\ WF_gateVars(setup(x))
         /\ WF_gateVars(unlock(x)) /\ WF_gateVars(change(x)) /\ WF_gateVars(ChangeWrites(x))
    /\ WF_gateVars(ServeNext) /\ WF_gateVars(Refuses) /\ WF_gateVars(PageStops) /\ WF_gateVars(Exits)

(***************************************************************************)
(* What it promises                                                        *)
(***************************************************************************)

\* A place that looks like a server is one: the key file opens the database and
\* every attachment a message names, at every moment - of a setup, a start, its
\* sweep, a restore or what a kill left of them (detectLock, place, sweepOrphans).
\* An upload no message names is there as well, unless it is a day old and a sweep
\* is not through with it: no server opens that calls uploaded what is gone.
LooksLikeAServer ==
    db # None /\ keyf # None =>
        /\ db.dk = keyf.dk
        /\ \A f \in File :
             \/ db.rows[f] = "bound"
             \/ db.rows[f] = "uploaded" /\ (f \in last.old => srv.pc = "open")
             => files[f] = keyf.dk

\* The key file opens with a password the owner was told is in force, or whose
\* fate no answer has told yet: no change is reported refused and made (ask, change).
PasswordKnown ==
    keyf # None =>
        keyf.pw \in {known} \cup unsure
                    \cup {ask[x].pw : x \in {y \in Asker : ask[y].kind \in {"setup", "change"}}}

\* A backup that appears opens with the password in force by then, however often
\* it was changed meanwhile, and holds every attachment its own snapshot calls
\* uploaded or bound, under the key that comes with it (backup, Write).
BackupIsWhole ==
    [][bak' # bak /\ bak = None =>
         LET c == bak'.content IN
         /\ c.key = keyf' /\ c.db.dk = c.key.dk
         /\ \A f \in File : c.db.rows[f] \in {"uploaded", "bound"} => c.files[f] = c.key.dk]_gateVars

\* Under one journal id a device only ever sees a history that goes on: what it
\* holds is the beginning of what the server holds (RotateJournal, Transact).
SameJournalSameHistory ==
    db # None /\ dev.journal # 0 /\ dev.journal = db.journal => IsPrefix(dev.log, db.log)

\* Whoever entered the password hears why the server could not start, not that
\* it is stopping (serve, ask).
OpenerHearsWhy ==
    \A x \in Asker : ask[x].st = "taken" /\ ~srv.page /\ ~srv.stop => ask[x].reply # "none"

\* Data that was served once is served again once its owner enters the
\* password, whatever was killed or restored in between.
OpensAgain ==
    (db # None /\ keyf # None /\ db.journal # 0) ~> (srv.pc = "open" \/ db = None \/ keyf = None)
=============================================================================
