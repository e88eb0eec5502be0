----------------------------- MODULE GateProofs -----------------------------
(***************************************************************************)
(* What Gate promises, for any number of attachments, passwords, events,   *)
(* lost machines and faults.                                               *)
(*                                                                         *)
(* AskInv says which request the goroutine of the gate is at, and holds    *)
(* whatever goes wrong.  PlaceInv says what is on disk at every point of a *)
(* setup, a start, a backup and a restore; it needs that no first password *)
(* is set beside a restore (~Race), which the code does not prevent.       *)
(***************************************************************************)
EXTENDS Gate, SequenceTheorems, TLAPS

Replies == {"none", "state", "wrong", "internal", "ok", "why"}

\* What a request is, by how far it has come.
IsRequest(r) ==
    /\ r \in [st : {"none", "queued", "taken", "gone"},
             kind : {"none", "setup", "unlock", "change"},
             pw : Pw \cup {None}, cur : {r.cur}, reply : Replies]
    /\ r.st = "none" => r = NoAsk
    /\ r.st \in {"queued", "gone"} => r.reply = "none"
    /\ r.st # "none" => r.kind # "none" /\ r.pw \in Pw

\* It is being served.
InService(r) == r.st \in {"taken", "gone"} /\ r.reply = "none"

\* The server's process; its data key is what it was read to be.
ServerTypeOK ==
    srv \in [pc : {"off", "gate", "sealing", "open", "failed"} \cup Opening,
            lock : {"none", "setup", "locked", "opening", "open"}, key : {srv.key},
            stop : BOOLEAN, page : BOOLEAN, opener : Asker \cup {None}]

\* Who is being served, by where the server stands.
ServedInv(x) ==
    Served(x) => \/ srv.pc \in {"sealing"} \cup Opening /\ srv.opener = x
                 \/ srv.pc = "open" /\ ask[x].kind = "change"
                 \/ srv.pc = "failed" /\ srv.stop

\* Where the server stands.
ServerInv ==
    /\ srv.pc = "off" => ~srv.page /\ ask = [x \in Asker |-> NoAsk]
    /\ srv.pc \in {"sealing"} \cup Opening =>
         srv.page /\ srv.opener \in Asker /\ Served(srv.opener)
    /\ srv.pc = "sealing" => ask[srv.opener].kind = "setup"
    /\ srv.pc \in {"gate", "open"} /\ ~srv.page => srv.stop
    /\ srv.lock \in {"setup", "locked"} => srv.pc \in {"gate", "sealing"}
    /\ bk.st # "none" => srv.pc = "open" /\ \A x \in Asker : ~Served(x)

AskInv ==
    /\ ServerTypeOK /\ ServerInv
    /\ ask = [x \in Asker |-> ask[x]]
    /\ \A x \in Asker : IsRequest(ask[x]) /\ ServedInv(x)

(***************************************************************************)
(* The disk                                                                *)
(***************************************************************************)

Blobs == [File -> Nat \cup {None}]

\* The attachments F are those of database d: sealed with its key, and there when
\* their row says so - but for uploads no message names that a sweep may have taken.
Fits(d, F, swept) ==
    \A f \in File : /\ d.rows[f] = "bound" => F[f] = d.dk
                    /\ d.rows[f] = "uploaded" /\ f \notin swept => F[f] = d.dk
                    /\ d.rows[f] # "none" => F[f] \in {None, d.dk}

\* Nothing bound in database e is unbound in d.
KeepsBound(e, d) == \A f \in File : e.rows[f] = "bound" => d.rows[f] = "bound"

\* No row is left of the uploads a sweep takes.
IsSwept(d, old) == \A f \in old : d.rows[f] \notin {"declared", "uploaded"}

\* A key file, a database and attachments that make a server.
Whole(key, d, F) == key \in KeyFile /\ d \in Database /\ F \in Blobs /\ d.dk = key.dk /\ Fits(d, F, {})

DiskTypeOK ==
    /\ keyf = None \/ keyf \in KeyFile
    /\ db = None \/ db \in Database
    /\ files \in Blobs
    /\ last \in [key : Nat, journal : Nat, event : Nat, loss : Nat, old : SUBSET File]
    /\ dev \in [journal : Nat, log : Seq(Nat)]

\* serve has opened the database.
DbOpen == {"migrate", "mark", "schema", "journal", "orphans", "sweep", "listen", "open"}

\* The live data, and what a power cut may make of it.
LiveInv ==
    /\ db # None => Fits(db, files, last.old)
    /\ db # None /\ keyf # None => db.dk = keyf.dk
    /\ \A d \in dur : /\ d \in Database /\ Fits(d, files, last.old)
                      /\ db # None /\ d.dk = db.dk /\ KeepsBound(d, db)
                      /\ rest.pc = "none"

\* What the start's sweep left behind.
SweptInv == srv.pc \in {"listen", "open"} => IsSwept(db, last.old)

\* What the server relies on.
HoldsInv ==
    /\ srv.pc \in {"sealing", "open", "failed"} \cup Opening => rest.pc = "none"
    /\ srv.pc = "sealing" => keyf = None /\ db = None
    /\ srv.pc \in {"open"} \cup Opening => keyf # None /\ srv.key = keyf.dk
    /\ srv.pc \in DbOpen => db # None
    /\ srv.lock = "locked" => keyf # None /\ db # None

\* A backup under way: the key file it read is still the one in force.
BackupInv ==
    /\ bk \in [st : {"none", "keyed", "copying"}, key : {bk.key}, db : {bk.db},
               files : Blobs, todo : SUBSET File]
    /\ bk.st # "none" => bk.key = keyf
    /\ bk.st = "keyed" => bk.files = NoFiles
    /\ bk.st = "copying" =>
         /\ bk.db \in Database /\ bk.db.dk = keyf.dk /\ Fits(bk.db, files, {})
         /\ \A f \in File : /\ f \in bk.todo => bk.db.rows[f] # "none"
                            /\ bk.files[f] \in {None, keyf.dk}
                            /\ bk.db.rows[f] \in {"uploaded", "bound"} /\ f \notin bk.todo
                                 => bk.files[f] = keyf.dk

\* A backup that is there is a server in its MAC; the content may be damaged.
Archive(b) ==
    /\ b \in [content : {b.content}, mac : {b.mac}, mackey : {b.mackey}]
    /\ b.content \in [key : {b.mac.key}, db : {b.mac.db}, files : {b.content.files}]
    /\ Whole(b.mac.key, b.mac.db, b.mac.files)

ArchiveInv == bak # None => Archive(bak)

\* A restore: nothing of a server is in place before it, and what is placed comes
\* from a whole one.
RestoreInv ==
    /\ rest \in [pc : {"none", "empty", "staged", "prepared", "filesIn", "dbIn"},
                 key : {rest.key}, db : {rest.db}, files : {rest.files}]
    /\ rest.pc # "none" => keyf = None /\ Archive(bak)
    /\ rest.pc \in {"empty", "staged", "prepared", "filesIn"} => db = None
    /\ rest.pc \in {"staged", "prepared", "filesIn", "dbIn"} => Whole(rest.key, rest.db, rest.files)
    /\ rest.pc \in {"filesIn", "dbIn"} => files = rest.files
    /\ rest.pc = "dbIn" => db = rest.db

PlaceInv ==
    /\ DiskTypeOK /\ LiveInv /\ SweptInv /\ HoldsInv /\ BackupInv /\ ArchiveInv
    /\ RestoreInv

\* Journal ids are used once, so a device that knows the id has seen this history.
HistoryInv ==
    /\ dur = {}
    /\ dev.journal <= last.journal
    /\ db # None => db.journal <= last.journal
    /\ rest.pc \in {"prepared", "filesIn"} =>
         /\ 0 < rest.db.journal /\ rest.db.journal <= last.journal
         /\ dev.journal # rest.db.journal
    /\ SameJournalSameHistory

\* The password was changed, or first set, by a request its owner will hear of.
Made(x) ==
    /\ ask[x].kind \in {"setup", "change"}
    /\ \/ ask[x].reply \in {"ok", "why"}
       \/ ask[x].kind = "setup" /\ Served(x) /\ srv.pc \in {"failed"} \cup Opening

\* What the owner can know of the password in force.
PasswordInv ==
    /\ keyf # None => \/ keyf.pw \in {known} \cup unsure
                      \/ \E x \in Asker : Made(x) /\ keyf.pw = ask[x].pw
    /\ \A x \in Asker :
         /\ ask[x].st = "gone" /\ ask[x].kind \in {"setup", "change"} => ask[x].pw \in unsure
         /\ ask[x].reply \in {"ok", "why"} =>
              srv.pc \in {"open", "failed"} /\ (keyf # None => keyf.pw = ask[x].pw)
         /\ srv.pc \in Opening /\ srv.opener = x => keyf.pw = ask[x].pw

(***************************************************************************)
(* The requests                                                            *)
(***************************************************************************)

\* A slot with no request.
LEMMA NoRequest == IsRequest(NoAsk) /\ ~InService(NoAsk) /\ NoAsk.kind = "none"
  BY DEF IsRequest, NoAsk, InService, Replies

\* An answer ends the service of a request: it is heard of, or forgotten.
Reply(r, code) == IF r.st = "gone" THEN NoAsk ELSE [r EXCEPT !.st = "taken", !.reply = code]

\* What is left of a request that was answered.
LEMMA Answered ==
    ASSUME NEW r, IsRequest(r), r.st # "none", NEW code \in Replies \ {"none"}
    PROVE  IsRequest(Reply(r, code)) /\ ~InService(Reply(r, code))
  <1>1. CASE r.st = "gone"
    BY <1>1, NoRequest DEF Reply
  <1>2. CASE r.st # "gone"
    <2>1. /\ Reply(r, code).st = "taken" /\ Reply(r, code).reply = code
          /\ Reply(r, code).kind = r.kind /\ Reply(r, code).pw = r.pw /\ Reply(r, code).cur = r.cur
          /\ Reply(r, code) \in [st : {"none", "queued", "taken", "gone"},
                               kind : {"none", "setup", "unlock", "change"},
                               pw : Pw \cup {None}, cur : {r.cur}, reply : Replies]
      BY <1>2 DEF Reply, IsRequest
    <2> QED BY <2>1 DEF IsRequest, InService
  <1> QED BY <1>1, <1>2

\* A step of one request leaves the others what they are.
LEMMA OneRequest ==
    ASSUME AskInv, NEW x \in Asker, NEW r, ask' = [ask EXCEPT ![x] = r], IsRequest(r)
    PROVE  /\ ask' = [y \in Asker |-> ask'[y]] /\ ask'[x] = r
           /\ \A y \in Asker : IsRequest(ask'[y])
           /\ \A y \in Asker \ {x} : ask'[y] = ask[y]
  BY DEF AskInv

\* The database goes on.
Commits == \E F \in SUBSET File : Commit(F)

\* The steps that touch neither the server nor a request, and begin no backup.
QuietStep ==
    \/ \E f \in File : SweepRemoves(f) \/ SweepDeletes(f)
    \/ Commits \/ DeviceSyncs \/ BackupSnapshots \/ BackupAppears \/ BackupFails \/ Damage
    \/ \E f \in File : CreateUpload(f) \/ Finalize(f) \/ MarkUploaded(f) \/ BackupCopies(f)
    \/ RestoreBegins \/ RestoreUnpacks \/ RestorePrepares \/ PlaceFiles \/ PlaceDatabase
    \/ PlaceKey \/ RestoreFails \/ RestoreKilled \/ MovesAside

\* The steps of serve before the port is open.
DbStep == OpenDatabase \/ Migrate \/ RecordFingerprint \/ EnsureServerIdentity \/ EnsureJournal

\* The beginning and the end of the sweep.
SweepStep == OrphanFiles \/ SweepEnds

\* The steps that end the process.
EndStep == Exits \/ Kill \/ MachineLost

\* What the quiet steps leave alone.
LEMMA QuietFrame == QuietStep => UNCHANGED <<srv, ask>> /\ (bk'.st = "none" \/ bk.st # "none")
  BY DEF QuietStep, Commits, Commit, SweepRemoves, SweepDeletes, ServeStep, DeviceSyncs,
     BackupSnapshots, BackupAppears, BackupFails, Damage, CreateUpload, Finalize, MarkUploaded, BackupCopies, DataStep, RestoreStep, RestoreBegins,
     RestoreUnpacks, RestorePrepares, PlaceFiles, PlaceDatabase, PlaceKey, RestoreFails,
     RestoreKilled, MovesAside, NoBackup

\* A step of serve moves the server on.
LEMMA DbFrame ==
    DbStep \/ SweepStep =>
        /\ UNCHANGED <<keyf, files, staged, bak, partial, ask, bk, rest, dev, known, unsure>>
        /\ srv.pc \in Opening
        /\ srv' \in {[srv EXCEPT !.pc = p] : p \in Opening}
  BY DEF DbStep, SweepStep, OrphanFiles, SweepEnds, OpenDatabase, Migrate, RecordFingerprint, EnsureServerIdentity, EnsureJournal,
     ServeStep, Goes, Opening

\* Nothing is left of a process that ended.
LEMMA EndFrame ==
    EndStep => srv' = Off /\ ask' = [x \in Asker |-> NoAsk] /\ bk'.st = "none"
  BY DEF EndStep, Exits, Kill, MachineLost, NoBackup

\* A request is asked, heard of, or given up on.
LEMMA RequestKeeps ==
    ASSUME AskInv, NEW x \in Asker,
           Hears(x) \/ HangsUp(x)
             \/ \E pw \in Pw : AskSetup(x, pw) \/ AskUnlock(x, pw) \/ AskChange(x, pw)
    PROVE  AskInv'
  <1>0. UNCHANGED <<srv, bk>> /\ IsRequest(ask[x]) /\ ServerTypeOK
    BY DEF Hears, HangsUp, AskSetup, AskUnlock, AskChange, Ask, AskInv
  <1>1. PICK r : /\ IsRequest(r) /\ ask' = [ask EXCEPT ![x] = r]
                 /\ \/ ~InService(r) /\ (srv.pc \in {"sealing"} \cup Opening => srv.opener # x)
                       /\ srv.pc # "off"
                    \/ InService(r) /\ InService(ask[x]) /\ r.kind = ask[x].kind
    <2>1. CASE Hears(x)
      <3>1. ask' = [ask EXCEPT ![x] = NoAsk] /\ ask[x].st \in {"queued", "taken"}
            /\ (ask[x].reply # "none" \/ ~srv.page)
        BY <2>1 DEF Hears
      <3>2. srv.pc \in {"sealing"} \cup Opening => srv.opener # x
        BY <3>1 DEF AskInv, ServerInv, Served
      <3>3. srv.pc # "off"
        BY <3>1 DEF AskInv, ServerInv, NoAsk
      <3> QED BY <3>1, <3>2, <3>3, NoRequest
    <2>2. CASE HangsUp(x)
      <3>1. CASE ask[x].st = "taken" /\ ask[x].reply = "none"
        <4>1. ask' = [ask EXCEPT ![x] = [ask[x] EXCEPT !.st = "gone"]]
          BY <2>2, <3>1 DEF HangsUp, AskInv
        <4> DEFINE r == [ask[x] EXCEPT !.st = "gone"]
        <4>2. IsRequest(r) /\ InService(r) /\ InService(ask[x]) /\ r.kind = ask[x].kind
          BY <1>0, <3>1 DEF IsRequest, InService
        <4> HIDE DEF r
        <4>3. ask' = [ask EXCEPT ![x] = r]
          BY <4>1 DEF r
        <4> QED BY <4>2, <4>3
      <3>2. CASE ~(ask[x].st = "taken" /\ ask[x].reply = "none")
        <4>1. ask' = [ask EXCEPT ![x] = NoAsk] /\ ask[x].st \in {"queued", "taken"}
          BY <2>2, <3>2 DEF HangsUp, AskInv
        <4>2. srv.pc \in {"sealing"} \cup Opening => srv.opener # x
          BY <3>2, <4>1 DEF AskInv, ServerInv, Served
        <4>3. srv.pc # "off"
          BY <4>1 DEF AskInv, ServerInv, NoAsk
        <4> QED BY <4>1, <4>2, <4>3, NoRequest
      <3> QED BY <3>1, <3>2
    <2>3. ASSUME NEW pw \in Pw, AskSetup(x, pw) \/ AskUnlock(x, pw) \/ AskChange(x, pw)
          PROVE  \E r : /\ IsRequest(r) /\ ask' = [ask EXCEPT ![x] = r] /\ ~InService(r)
                        /\ srv.pc # "off"
                        /\ (srv.pc \in {"sealing"} \cup Opening => srv.opener # x)
      <3>1. PICK kind \in {"setup", "unlock", "change"}, cur \in {None, known} : Ask(x, kind, pw, cur)
        BY <2>3 DEF AskSetup, AskUnlock, AskChange
      <3> DEFINE r == [st |-> "queued", kind |-> kind, pw |-> pw, cur |-> cur, reply |-> "none"]
      <3>2. IsRequest(r) /\ ~InService(r)
        BY DEF IsRequest, InService, Replies
      <3>3. ask' = [ask EXCEPT ![x] = r] /\ srv.page /\ ask[x].st = "none"
        BY <3>1 DEF Ask
      <3> QED BY <3>2, <3>3 DEF AskInv, ServerInv, Served
    <2> QED BY <2>1, <2>2, <2>3
  <1>2. /\ ask' = [y \in Asker |-> ask'[y]] /\ ask'[x] = r
        /\ \A y \in Asker : IsRequest(ask'[y])
        /\ \A y \in Asker \ {x} : ask'[y] = ask[y]
    BY <1>1, OneRequest
  <1>3. ServerTypeOK' /\ (srv.pc = "off" => ask' = ask)
    BY <1>0, <1>1, NoRequest DEF AskInv, ServerInv, ServerTypeOK, NoAsk, InService
  <1>4. ServerInv'
    BY <1>0, <1>1, <1>2, <1>3 DEF AskInv, ServerInv, Served, InService
  <1>5. \A y \in Asker : ServedInv(y)'
    BY <1>0, <1>1, <1>2 DEF AskInv, ServedInv, Served, InService
  <1> QED BY <1>2, <1>3, <1>4, <1>5 DEF AskInv

\* The goroutine of the gate takes a request and serves it, or answers it at once.
LEMMA TakesKeeps ==
    ASSUME AskInv, NEW x \in Asker, AnswersState(x) \/ setup(x) \/ unlock(x) \/ change(x)
    PROVE  AskInv'
  <1>0. /\ AtSelect /\ ask[x].st = "queued" /\ IsRequest(ask[x]) /\ ServerTypeOK /\ bk' = bk
        /\ ask = [y \in Asker |-> ask[y]]
    BY DEF AnswersState, setup, unlock, change, AskInv
  <1>1. /\ bk.st = "none" /\ \A y \in Asker : ~InService(ask[y])
        /\ srv.pc = "open" \/ (srv.pc = "gate" /\ srv.page)
    BY <1>0 DEF AtSelect, Served, InService, Waits
  <1> DEFINE t == [ask[x] EXCEPT !.st = "taken"]
  <1>2. CASE ask' = [ask EXCEPT ![x] = t]
    <2>1. IsRequest(t) /\ InService(t) /\ t.kind = ask[x].kind
      BY <1>0 DEF IsRequest, InService
    <2> HIDE DEF t
    <2>2. /\ ask' = [y \in Asker |-> ask'[y]] /\ ask'[x] = t
          /\ \A y \in Asker : IsRequest(ask'[y])
          /\ \A y \in Asker \ {x} : ask'[y] = ask[y]
      BY <1>2, <2>1, OneRequest
    <2>3. \/ srv.pc = "open" /\ UNCHANGED srv /\ ask[x].kind = "change"
          \/ srv.lock = "setup" /\ ask[x].kind = "setup"
             /\ srv' = [srv EXCEPT !.pc = "sealing", !.opener = x]
          \/ srv.lock = "locked"
             /\ srv' = [srv EXCEPT !.pc = "database", !.lock = "opening", !.key = keyf.dk, !.opener = x]
      <3>1. ask'[x].st = "taken" /\ ask'[x].reply = "none"
        BY <1>0, <1>2 DEF t, IsRequest
      <3>2. ASSUME NEW code \in {"state", "wrong"} PROVE ~answer(x, code)
        BY <1>0, <3>1 DEF answer, IsRequest
      <3> QED BY <3>2 DEF AnswersState, setup, unlock, change
    <2>4. ServerTypeOK'
      BY <1>0, <2>3 DEF ServerTypeOK, Opening
    <2>5. srv.lock \in {"setup", "locked"} => srv.pc = "gate" /\ srv.page
      BY <1>1 DEF AskInv, ServerInv
    <2>6. ServerInv'
      BY <1>0, <1>1, <2>1, <2>2, <2>3, <2>5, ZenonT(40) DEF AskInv, ServerTypeOK, ServerInv, Served, InService, Opening
    <2>7. \A y \in Asker : ServedInv(y)'
      <3>1. \/ srv'.pc = "open" /\ t.kind = "change"
            \/ srv'.pc \in {"sealing"} \cup Opening /\ srv'.opener = x
        BY <1>0, <2>1, <2>3 DEF ServerTypeOK, Opening
      <3> QED BY <3>1, <1>1, <2>2 DEF ServedInv, Served, InService
    <2> QED BY <2>2, <2>4, <2>6, <2>7 DEF AskInv
  <1>3. CASE \E code \in Replies \ {"none"} : answer(x, code)
    <2> PICK code \in Replies \ {"none"} : answer(x, code)
      BY <1>3
    <2> DEFINE r == Reply(ask[x], code)
    <2>1. IsRequest(r) /\ ~InService(r) /\ ask' = [ask EXCEPT ![x] = r]
      BY <1>0, Answered DEF answer, Reply
    <2> HIDE DEF r
    <2>2. /\ ask' = [y \in Asker |-> ask'[y]] /\ ask'[x] = r
          /\ \A y \in Asker : IsRequest(ask'[y])
          /\ \A y \in Asker \ {x} : ask'[y] = ask[y]
      BY <2>1, OneRequest
    <2>3. srv' = srv \/ (srv.lock = "setup" /\ srv' = [srv EXCEPT !.lock = "locked"])
      <3>1. ask'[x].reply # "none" \/ ask'[x].st = "none"
        BY <2>1, <2>2, ZenonT(40) DEF InService, IsRequest, r, Reply, NoAsk
      <3>2. ask'[x] # t
        BY <3>1, <1>0 DEF IsRequest
      <3> QED BY <3>2, <1>0, <2>2 DEF AnswersState, setup, unlock, change
    <2>4. ServerTypeOK'
      BY <1>0, <2>3 DEF ServerTypeOK
    <2>5. srv'.pc = srv.pc /\ srv'.page = srv.page /\ srv'.stop = srv.stop
          /\ (srv'.lock \in {"setup", "locked"} => srv.lock \in {"setup", "locked"})
      BY <1>0, <2>3 DEF ServerTypeOK
    <2>6. ServerInv'
      BY <1>0, <1>1, <2>5 DEF AskInv, ServerInv, Opening
    <2>7. \A y \in Asker : ServedInv(y)'
      BY <1>1, <2>1, <2>2 DEF ServedInv, Served, InService
    <2> QED BY <2>2, <2>4, <2>6, <2>7 DEF AskInv
  <1>4. (ask' = [ask EXCEPT ![x] = t]) \/ \E code \in Replies \ {"none"} : answer(x, code)
    BY DEF AnswersState, setup, unlock, change, Replies
  <1> QED BY <1>2, <1>3, <1>4

\* The request in service is answered: the password changed or was refused, the
\* server is open, or it is known why it cannot be.
LEMMA AnswersKeeps ==
    ASSUME AskInv, NEW x \in Asker, NEW code \in Replies \ {"none"}, answer(x, code), Served(x),
           \/ srv.pc = "open" /\ UNCHANGED srv
           \/ /\ srv.pc \in {"sealing"} \cup Opening /\ srv.opener = x
              /\ \/ srv' = [srv EXCEPT !.pc = "gate", !.opener = None]
                 \/ srv' = [srv EXCEPT !.pc = "failed", !.opener = None] /\ srv.pc \in Opening
                 \/ srv' = [srv EXCEPT !.pc = "open", !.lock = "open", !.opener = None],
           bk' = bk
    PROVE  AskInv'
  <1>0. /\ IsRequest(ask[x]) /\ ServerTypeOK /\ ask[x].st # "none"
        /\ ask = [y \in Asker |-> ask[y]] /\ bk.st = "none"
    BY DEF AskInv, Served, ServerInv
  <1> DEFINE r == Reply(ask[x], code)
  <1>1. IsRequest(r) /\ ~InService(r) /\ ask' = [ask EXCEPT ![x] = r]
    BY <1>0, Answered DEF answer, Reply
  <1> HIDE DEF r
  <1>2. /\ ask' = [y \in Asker |-> ask'[y]] /\ ask'[x] = r
        /\ \A y \in Asker : IsRequest(ask'[y])
        /\ \A y \in Asker \ {x} : ask'[y] = ask[y]
    BY <1>1, OneRequest
  <1>3. /\ ServerTypeOK' /\ srv'.stop = srv.stop /\ srv'.page = srv.page
        /\ srv'.pc \in {"gate", "open", "failed"}
    BY <1>0 DEF ServerTypeOK, Opening
  <1>4. srv'.pc # srv.pc => srv.page
    BY DEF AskInv, ServerInv
  <1>5. ServerInv'
    <2>1. srv'.lock \in {"setup", "locked"} => srv'.pc = "gate"
      BY <1>0 DEF AskInv, ServerInv, ServerTypeOK, Opening
    <2>2. srv'.pc \notin {"off", "sealing"} \cup Opening
      BY <1>3 DEF Opening
    <2>3. srv'.pc \in {"gate", "open"} /\ ~srv'.page => srv'.stop
      BY <1>0, <1>3, <1>4 DEF AskInv, ServerInv
    <2> QED BY <1>0, <2>1, <2>2, <2>3 DEF ServerInv
  <1>6. ASSUME NEW y \in Asker PROVE ServedInv(y)'
    <2>1. CASE y = x
      BY <2>1, <1>1, <1>2 DEF ServedInv, Served, InService
    <2>2. CASE y # x
      <3>1. ask'[y] = ask[y] /\ ServedInv(y)
        BY <2>2, <1>2 DEF AskInv
      <3>2. CASE UNCHANGED srv
        BY <3>1, <3>2 DEF ServedInv, Served
      <3>3. CASE srv.pc \in {"sealing"} \cup Opening /\ srv.opener = x
        BY <3>1, <3>3, <2>2 DEF ServedInv, Served, Opening
      <3> QED BY <3>2, <3>3
    <2> QED BY <2>1, <2>2
  <1> QED BY <1>2, <1>3, <1>5, <1>6 DEF AskInv

\* The steps of the server that answer nobody.
LEMMA ServerKeeps ==
    ASSUME AskInv, UNCHANGED <<ask, bk>>,
           \/ Start \/ Stop \/ PageStops \/ SetupCreates \/ DbStep \/ SweepStep
           \/ srv.stop /\ srv.pc \in Opening /\ srv' = [srv EXCEPT !.pc = "failed", !.opener = None]
    PROVE  AskInv'
  <1>0. ServerTypeOK /\ ServerInv /\ \A y \in Asker : IsRequest(ask[y]) /\ ServedInv(y)
    BY DEF AskInv
  <1>1. CASE Start
    <2>1. /\ srv' = [Off EXCEPT !.pc = "gate", !.lock = detectLock, !.page = TRUE]
          /\ detectLock \in {"setup", "locked"} /\ srv.pc = "off"
      BY <1>1 DEF Start, detectLock
    <2>2. ServerTypeOK' /\ srv'.pc = "gate" /\ srv'.page
      BY <2>1 DEF ServerTypeOK, Off
    <2>3. \A y \in Asker : ~Served(y)
      BY <1>0, <2>1 DEF ServerInv, Served, NoAsk
    <2>4. ServerInv' /\ \A y \in Asker : ServedInv(y)'
      BY <1>0, <2>1, <2>2, <2>3 DEF ServerInv, ServedInv, Served, Opening
    <2> QED BY <1>0, <2>2, <2>4 DEF AskInv
  <1>2. CASE Stop \/ PageStops
    <2>1. /\ \/ srv' = [srv EXCEPT !.stop = TRUE] /\ srv.pc # "off"
             \/ srv' = [srv EXCEPT !.page = FALSE]
                /\ (srv.pc = "failed" \/ (srv.stop /\ srv.pc \in {"gate", "open"}))
      BY <1>2 DEF Stop, PageStops
    <2>2. /\ ServerTypeOK' /\ srv'.pc = srv.pc /\ srv'.lock = srv.lock /\ srv'.opener = srv.opener
          /\ (srv.stop => srv'.stop)
          /\ \/ srv'.page = srv.page /\ srv.pc # "off"
             \/ ~srv'.page /\ srv'.stop = srv.stop
                /\ (srv.pc = "failed" \/ (srv.stop /\ srv.pc \in {"gate", "open"}))
      BY <1>0, <2>1 DEF ServerTypeOK
    <2>3. ServerInv' /\ \A y \in Asker : ServedInv(y)'
      BY <1>0, <2>2 DEF ServerInv, ServedInv, Served, Opening
    <2> QED BY <1>0, <2>2, <2>3 DEF AskInv
  <1>3. CASE \/ SetupCreates \/ DbStep \/ SweepStep
             \/ srv.stop /\ srv.pc \in Opening /\ srv' = [srv EXCEPT !.pc = "failed", !.opener = None]
    <2>1. /\ srv.pc \in {"sealing"} \cup Opening
          /\ \/ \E p \in Opening : srv' = [srv EXCEPT !.pc = p] /\ srv.pc \in Opening
             \/ srv' = [srv EXCEPT !.pc = "database", !.lock = "opening", !.key = last.key + 1]
             \/ srv.stop /\ srv.pc \in Opening /\ srv' = [srv EXCEPT !.pc = "failed", !.opener = None]
      BY <1>3, DbFrame DEF SetupCreates
    <2>2. /\ ServerTypeOK' /\ srv'.page = srv.page /\ srv'.stop = srv.stop
          /\ \/ srv'.pc \in Opening /\ srv'.opener = srv.opener
             \/ srv'.pc = "failed" /\ srv.stop
          /\ (srv'.lock \in {"setup", "locked"} => srv.pc \in Opening /\ srv.lock \in {"setup", "locked"})
      BY <1>0, <2>1 DEF ServerTypeOK, Opening
    <2>3. ServerInv'
      BY <1>0, <2>1, <2>2 DEF ServerInv, Served, Opening
    <2>4. \A y \in Asker : ServedInv(y)'
      BY <1>0, <2>1, <2>2 DEF ServedInv, Served, Opening
    <2> QED BY <1>0, <2>2, <2>3, <2>4 DEF AskInv
  <1> QED BY <1>1, <1>2, <1>3

\* The goroutine of the gate serves one request at a time and answers it.
LEMMA AskKeeps == AskInv /\ [GateNext]_gateVars => AskInv'
  <1> SUFFICES ASSUME AskInv, [GateNext]_gateVars PROVE AskInv'
    OBVIOUS
  <1>0. ServerTypeOK /\ ServerInv /\ \A y \in Asker : IsRequest(ask[y]) /\ ServedInv(y)
    BY DEF AskInv
  <1>1. CASE \E x \in Asker : Hears(x) \/ HangsUp(x)
               \/ \E pw \in Pw : AskSetup(x, pw) \/ AskUnlock(x, pw) \/ AskChange(x, pw)
    BY <1>1, RequestKeeps
  <1>2. CASE \E x \in Asker : AnswersState(x) \/ setup(x) \/ unlock(x) \/ change(x)
    BY <1>2, TakesKeeps
  <1>3. CASE \E x \in Asker : ChangeWrites(x) \/ ChangeFails(x)
    <2> PICK x \in Asker : ChangeWrites(x) \/ ChangeFails(x)
      BY <1>3
    <2>1. /\ answer(x, "ok") \/ answer(x, "internal")
          /\ Served(x) /\ srv.pc = "open" /\ UNCHANGED <<srv, bk>>
      BY DEF ChangeWrites, ChangeFails, Changing
    <2> QED BY <2>1, AnswersKeeps DEF Replies
  <1>4. CASE Opened \/ SetupFails \/ (Refuses /\ ~srv.stop)
    <2>1. /\ answer(srv.opener, "ok") \/ answer(srv.opener, "internal") \/ answer(srv.opener, "why")
          /\ srv.pc \in {"sealing"} \cup Opening /\ bk' = bk
          /\ \/ srv' = [srv EXCEPT !.pc = "gate", !.opener = None]
             \/ srv' = [srv EXCEPT !.pc = "failed", !.opener = None] /\ srv.pc \in Opening
             \/ srv' = [srv EXCEPT !.pc = "open", !.lock = "open", !.opener = None]
      BY <1>4 DEF Opened, SetupFails, Refuses, Opening
    <2>2. srv.opener \in Asker /\ Served(srv.opener)
      BY <1>0, <2>1 DEF ServerInv
    <2> QED BY <2>1, <2>2, AnswersKeeps DEF Replies
  <1>5. CASE Start \/ Stop \/ PageStops \/ SetupCreates \/ DbStep \/ SweepStep \/ (Refuses /\ srv.stop)
    <2>1. UNCHANGED <<ask, bk>>
      BY <1>5, DbFrame DEF Start, Stop, PageStops, SetupCreates, Refuses
    <2>2. Refuses /\ srv.stop => /\ srv.pc \in Opening
                               /\ srv' = [srv EXCEPT !.pc = "failed", !.opener = None]
      BY DEF Refuses
    <2> QED BY <1>5, <2>1, <2>2, ServerKeeps
  <1>6. CASE EndStep
    <2>1. srv' = Off /\ ask' = [x \in Asker |-> NoAsk] /\ bk'.st = "none"
      BY <1>6, EndFrame
    <2>2. ServerTypeOK' /\ ServerInv'
      BY <2>1 DEF ServerTypeOK, ServerInv, Off, Opening
    <2> QED BY <2>1, <2>2, NoRequest DEF AskInv, ServedInv, Served, InService
  <1>7. CASE QuietStep \/ UNCHANGED gateVars
    <2>1. UNCHANGED <<srv, ask>> /\ (bk'.st = "none" \/ bk.st # "none")
      BY <1>7, QuietFrame DEF gateVars
    <2> QED BY <2>1 DEF AskInv, ServerTypeOK, ServerInv, ServedInv, Served
  <1>8. CASE BackupBegins
    <2>1. UNCHANGED <<srv, ask>> /\ srv.pc = "open" /\ \A x \in Asker : ~Served(x)
      BY <1>8 DEF BackupBegins, AtSelect, Serving
    <2> QED BY <2>1 DEF AskInv, ServerTypeOK, ServerInv, ServedInv, Served
  <1> QED BY <1>1, <1>2, <1>3, <1>4, <1>5, <1>6, <1>7, <1>8
      DEF GateNext, ServeNext, DbStep, SweepStep, QuietStep, Commits, EndStep

\* It holds from the first start on, whatever goes wrong.
THEOREM AskInductive == GateSpec => []AskInv
  <1>1. GateInit => AskInv
    BY NoRequest DEF GateInit, AskInv, ServerTypeOK, ServerInv, ServedInv, Served, InService, Off,
       NoBackup, Opening
  <1> QED BY <1>1, AskKeeps, PTL DEF GateSpec

\* Whoever entered the password hears why the server could not start, whatever else
\* goes wrong (serve, ask).
THEOREM OpenerHearsWhyAlways == GateSpec => []OpenerHearsWhy
  <1>1. AskInv => OpenerHearsWhy
    BY DEF AskInv, ServerTypeOK, ServerInv, ServedInv, Served, OpenerHearsWhy, Opening
  <1> QED BY <1>1, AskInductive, PTL

(***************************************************************************)
(* The disk, step by step                                                  *)
(***************************************************************************)

\* A step that leaves the disk, the backup and the restore alone needs only be
\* right about what the server holds.
LEMMA DiskStays ==
    ASSUME PlaceInv, UNCHANGED <<disk, bk, rest, dev, last>>, HoldsInv',
           srv'.pc \in {"listen", "open"} => srv.pc \in {"listen", "open"}
    PROVE  PlaceInv'
  <1>1. UNCHANGED <<keyf, db, files, bak, dur, bk, rest, dev, last>>
    BY DEF disk
  <1>2. DiskTypeOK' /\ BackupInv' /\ ArchiveInv' /\ RestoreInv'
    BY <1>1 DEF PlaceInv, DiskTypeOK, BackupInv, ArchiveInv, RestoreInv
  <1>3. LiveInv' /\ SweptInv'
    BY <1>1 DEF PlaceInv, LiveInv, SweptInv
  <1> QED BY <1>2, <1>3 DEF PlaceInv

\* The steps of the server and of its requests.
LEMMA ServerPlace ==
    ASSUME ~Race, AskInv, PlaceInv,
           \/ Start \/ Stop \/ PageStops \/ Opened \/ Refuses
           \/ \E x \in Asker, pw \in Pw : AskSetup(x, pw) \/ AskUnlock(x, pw) \/ AskChange(x, pw)
           \/ \E x \in Asker : Hears(x) \/ HangsUp(x) \/ AnswersState(x) \/ setup(x) \/ unlock(x)
                               \/ change(x)
    PROVE  PlaceInv'
  <1>0. ServerTypeOK /\ ServerInv /\ HoldsInv /\ RestoreInv /\ LiveInv
    BY Zenon DEF AskInv, PlaceInv
  <1>1. UNCHANGED <<disk, bk, rest, dev, last>> /\ keyf' = keyf /\ db' = db /\ rest' = rest
    BY ZenonT(30) DEF Start, Stop, PageStops, Opened, Refuses, AskSetup, AskUnlock, AskChange, Ask, Hears,
       HangsUp, AnswersState, setup, unlock, change, ghosts, disk
  <1>2. \/ srv' = srv
        \/ srv' = [srv EXCEPT !.stop = TRUE] \/ srv' = [srv EXCEPT !.page = FALSE]
        \/ srv.pc = "off" /\ srv' = [Off EXCEPT !.pc = "gate", !.lock = detectLock, !.page = TRUE]
        \/ srv.pc = "listen" /\ srv' = [srv EXCEPT !.pc = "open", !.lock = "open", !.opener = None]
        \/ srv.pc \in Opening /\ srv' = [srv EXCEPT !.pc = "failed", !.opener = None]
        \/ \E x \in Asker : /\ srv.lock = "setup" /\ AtSelect /\ rest.pc = "none" /\ detectLock = "setup"
                             /\ srv' = [srv EXCEPT !.pc = "sealing", !.opener = x]
        \/ AtSelect /\ srv.lock = "setup" /\ detectLock = "locked" /\ srv' = [srv EXCEPT !.lock = "locked"]
        \/ \E x \in Asker : /\ srv.lock = "locked" /\ AtSelect
                             /\ srv' = [srv EXCEPT !.pc = "database", !.lock = "opening",
                                                   !.key = keyf.dk, !.opener = x]
    BY ZenonT(30) DEF Start, Stop, PageStops, Opened, Refuses, AskSetup, AskUnlock, AskChange, Ask, Hears,
       HangsUp, AnswersState, setup, unlock, change
  <1>3. AtSelect /\ srv.lock \in {"setup", "locked"} => srv.pc = "gate"
    BY <1>0 DEF ServerInv, AtSelect, Waits
  <1>4. HoldsInv' /\ (srv'.pc \in {"listen", "open"} => srv.pc \in {"listen", "open"})
    <2>1. CASE srv'.pc = srv.pc /\ srv'.lock = srv.lock /\ srv'.key = srv.key
      BY <2>1, <1>0, <1>1 DEF HoldsInv
    <2>2. CASE srv.pc = "off" /\ srv' = [Off EXCEPT !.pc = "gate", !.lock = detectLock, !.page = TRUE]
      BY <2>2, <1>0, <1>1 DEF HoldsInv, detectLock, Off, Opening, DbOpen
    <2>3. CASE srv.pc = "listen" /\ srv' = [srv EXCEPT !.pc = "open", !.lock = "open", !.opener = None]
      BY <2>3, <1>0, <1>1 DEF HoldsInv, Opening, DbOpen, ServerTypeOK
    <2>4. CASE srv.pc \in Opening /\ srv' = [srv EXCEPT !.pc = "failed", !.opener = None]
      <3>1. srv'.pc = "failed" /\ srv'.lock = srv.lock /\ srv.lock # "locked"
        BY <2>4, <1>0 DEF ServerTypeOK, ServerInv, Opening
      <3> QED BY <2>4, <3>1, <1>0, <1>1 DEF HoldsInv, Opening, DbOpen
    <2>5. CASE \E x \in Asker : /\ srv.lock = "setup" /\ AtSelect /\ rest.pc = "none" /\ detectLock = "setup"
                               /\ srv' = [srv EXCEPT !.pc = "sealing", !.opener = x]
      <3>1. srv'.pc = "sealing" /\ srv'.lock = "setup" /\ keyf = None /\ db = None
        BY <2>5, <1>0, <1>3 DEF ServerTypeOK, detectLock, DbOpen
      <3> QED BY <2>5, <3>1, <1>1 DEF HoldsInv, Opening, DbOpen
    <2>6. CASE AtSelect /\ srv.lock = "setup" /\ detectLock = "locked" /\ srv' = [srv EXCEPT !.lock = "locked"]
      <3>1. srv'.pc = "gate" /\ keyf # None /\ db # None
        BY <2>6, <1>0, <1>3 DEF ServerTypeOK, detectLock, DbOpen
      <3> QED BY <3>1, <1>1 DEF HoldsInv, Opening, DbOpen
    <2>7. CASE \E x \in Asker : /\ srv.lock = "locked" /\ AtSelect
                               /\ srv' = [srv EXCEPT !.pc = "database", !.lock = "opening",
                                                     !.key = keyf.dk, !.opener = x]
      <3>1. /\ srv'.pc = "database" /\ srv'.lock = "opening" /\ srv'.key = keyf.dk
            /\ keyf # None /\ db # None /\ rest.pc = "none"
        BY <2>7, <1>0, <1>3 DEF ServerTypeOK, HoldsInv, RestoreInv, DbOpen
      <3> QED BY <3>1, <1>1 DEF HoldsInv, Opening, DbOpen
    <2>8. \/ srv' = [srv EXCEPT !.stop = TRUE] \/ srv' = [srv EXCEPT !.page = FALSE] \/ srv' = srv
          => srv'.pc = srv.pc /\ srv'.lock = srv.lock /\ srv'.key = srv.key
      BY <1>0 DEF ServerTypeOK
    <2> QED BY <1>2, <2>1, <2>2, <2>3, <2>4, <2>5, <2>6, <2>7, <2>8
  <1> QED BY <1>1, <1>4, DiskStays

\* The key file is written: the first one where there is no database, or the same
\* data key under another password, with no backup under way.
LEMMA KeyPlace ==
    ASSUME AskInv, PlaceInv,
           SetupCreates \/ SetupFails \/ \E x \in Asker : ChangeWrites(x) \/ ChangeFails(x)
    PROVE  PlaceInv'
  <1>0. ServerTypeOK /\ ServerInv /\ HoldsInv /\ RestoreInv /\ LiveInv /\ DiskTypeOK /\ BackupInv
        /\ ArchiveInv /\ SweptInv /\ \A x \in Asker : IsRequest(ask[x]) /\ ServedInv(x)
    BY DEF AskInv, PlaceInv
  <1>1. UNCHANGED <<db, files, bak, dur, bk, rest, dev>>
    BY DEF SetupCreates, SetupFails, ChangeWrites, ChangeFails
  <1>2. /\ last' \in [key : Nat, journal : Nat, event : Nat, loss : Nat, old : SUBSET File]
        /\ rest.pc = "none" /\ bk.st = "none"
    <2>1. CASE SetupCreates \/ SetupFails
      <3>1. srv.pc = "sealing"
        BY <2>1 DEF SetupCreates, SetupFails
      <3>2. last' \in [key : Nat, journal : Nat, event : Nat, loss : Nat, old : SUBSET File]
        <4>1. last' = [last EXCEPT !.key = last.key + 1]
          BY <2>1 DEF SetupCreates, SetupFails
        <4> QED BY <1>0, <4>1 DEF DiskTypeOK
      <3> QED BY <3>1, <3>2, <1>0 DEF HoldsInv, ServerInv
    <2>2. CASE \E x \in Asker : ChangeWrites(x) \/ ChangeFails(x)
      BY <2>2, <1>0 DEF ChangeWrites, ChangeFails, Changing, ghosts, HoldsInv, ServerInv, DiskTypeOK
    <2> QED BY <2>1, <2>2
  <1>3. CASE SetupCreates \/ SetupFails
    <2>0. srv.pc = "sealing" /\ keyf = None /\ db = None /\ dur = {}
      BY <1>3, <1>0 DEF SetupCreates, SetupFails, HoldsInv, LiveInv
    <2>1. ask[srv.opener].pw \in Pw /\ last.key + 1 \in Nat
      BY <2>0, <1>0 DEF ServerInv, Served, IsRequest, DiskTypeOK
    <2> DEFINE new == [pw |-> ask[srv.opener].pw, dk |-> last.key + 1]
    <2>2. new \in KeyFile /\ new.dk = last.key + 1
      BY <2>1 DEF KeyFile
    <2>3. \/ keyf' = new /\ srv' = [srv EXCEPT !.pc = "database", !.lock = "opening", !.key = last.key + 1]
          \/ keyf' \in {keyf, new} /\ srv' = [srv EXCEPT !.pc = "gate", !.opener = None]
      BY <1>3 DEF SetupCreates, SetupFails, Refused
    <2> HIDE DEF new
    <2>4. DiskTypeOK' /\ LiveInv' /\ ArchiveInv' /\ RestoreInv' /\ BackupInv'
      BY <1>0, <1>1, <1>2, <2>0, <2>2, <2>3 DEF DiskTypeOK, LiveInv, ArchiveInv, RestoreInv, BackupInv
    <2>5. HoldsInv'
      <3>1. CASE keyf' = new /\ srv' = [srv EXCEPT !.pc = "database", !.lock = "opening", !.key = last.key + 1]
        <4>1. srv'.pc = "database" /\ srv'.lock = "opening" /\ srv'.key = new.dk
          BY <3>1, <2>2, <1>0 DEF ServerTypeOK
        <4>2. new # None
          BY <2>2, GateAssumption
        <4> QED BY <3>1, <4>1, <4>2, <1>1, <1>2 DEF HoldsInv, Opening, DbOpen
      <3>2. CASE srv' = [srv EXCEPT !.pc = "gate", !.opener = None]
        <4>1. srv'.pc = "gate" /\ srv'.lock = srv.lock
          BY <3>2, <1>0 DEF ServerTypeOK
        <4> QED BY <4>1, <2>0, <1>0, <1>1 DEF HoldsInv, Opening, DbOpen
      <3> QED BY <2>3, <3>1, <3>2
    <2>6. SweptInv'
      BY <2>3, <1>0 DEF ServerTypeOK, SweptInv
    <2> QED BY <2>4, <2>5, <2>6 DEF PlaceInv
  <1>4. CASE \E x \in Asker : ChangeWrites(x) \/ ChangeFails(x)
    <2> PICK x \in Asker : ChangeWrites(x) \/ ChangeFails(x)
      BY <1>4
    <2>0. srv.pc = "open" /\ srv' = srv /\ Served(x) /\ last' = last
      BY DEF ChangeWrites, ChangeFails, Changing, ghosts
    <2>1. keyf # None /\ keyf \in KeyFile /\ ask[x].pw \in Pw
      BY <2>0, <1>0 DEF HoldsInv, DiskTypeOK, IsRequest, Served
    <2> DEFINE new == [keyf EXCEPT !.pw = ask[x].pw]
    <2>2. new \in KeyFile /\ new.dk = keyf.dk
      BY <2>1 DEF KeyFile
    <2>3. keyf' \in {keyf, new}
      BY DEF ChangeWrites, ChangeFails, Refused
    <2> HIDE DEF new
    <2>4. keyf' \in KeyFile /\ keyf'.dk = keyf.dk
      BY <2>1, <2>2, <2>3
    <2>5. DiskTypeOK' /\ LiveInv' /\ ArchiveInv' /\ RestoreInv' /\ BackupInv'
      BY <1>0, <1>1, <1>2, <2>0, <2>1, <2>4 DEF DiskTypeOK, LiveInv, ArchiveInv, RestoreInv, BackupInv
    <2>6. keyf' # None
      BY <2>4, GateAssumption
    <2>7. HoldsInv' /\ SweptInv'
      BY <1>0, <1>1, <2>0, <2>4, <2>6 DEF HoldsInv, SweptInv
    <2> QED BY <2>5, <2>7 DEF PlaceInv
  <1> QED BY <1>3, <1>4

\* Every transaction leaves the place a server: the key the database was made with
\* stays, and no upload is called whole before its bytes are there.
LEMMA WritePlace ==
    ASSUME PlaceInv, NEW d \in Database, Transact(d), d.dk = srv.key, Fits(d, files, last.old),
           db # None => KeepsBound(db, d), last'.old = last.old,
           srv'.pc \in {"listen", "open"} => IsSwept(d, last.old),
           UNCHANGED <<keyf, files, bak, bk, rest, dev>>,
           last' \in [key : Nat, journal : Nat, event : Nat, loss : Nat, old : SUBSET File],
           srv.pc \in {"database"} \cup DbOpen, srv'.pc \in DbOpen,
           srv'.key = srv.key, srv'.lock # "locked"
    PROVE  PlaceInv'
  <1>0. HoldsInv /\ RestoreInv /\ LiveInv /\ DiskTypeOK /\ BackupInv /\ ArchiveInv
    BY DEF PlaceInv
  <1>1. rest.pc = "none" /\ keyf # None /\ srv.key = keyf.dk
    BY <1>0 DEF HoldsInv, Opening, DbOpen
  <1>2. db' = d /\ db' # None /\ \A e \in dur' : e \in dur \/ (e = db /\ db # None)
    BY GateAssumption DEF Transact
  <1>3. DiskTypeOK' /\ RestoreInv' /\ BackupInv' /\ ArchiveInv'
    BY <1>0, <1>1, <1>2 DEF DiskTypeOK, RestoreInv, BackupInv, ArchiveInv
  <1>4. HoldsInv'
    BY <1>1, <1>2 DEF HoldsInv, Opening, DbOpen
  <1>5. LiveInv'
    <2>1. \A e \in dur' : KeepsBound(e, d)
      BY <1>0, <1>2 DEF LiveInv, KeepsBound
    <2> QED BY <1>0, <1>1, <1>2, <2>1 DEF LiveInv, DiskTypeOK
  <1>6. SweptInv'
    BY <1>2 DEF SweptInv
  <1> QED BY <1>3, <1>4, <1>5, <1>6 DEF PlaceInv

\* What serve makes of the database on the way to the open port.
LEMMA ServePlace == AskInv /\ PlaceInv /\ DbStep => PlaceInv'
  <1> SUFFICES ASSUME AskInv, PlaceInv, DbStep PROVE PlaceInv'
    OBVIOUS
  <1>0. HoldsInv /\ LiveInv /\ DiskTypeOK /\ ServerTypeOK /\ ServerInv
    BY DEF PlaceInv, AskInv
  <1>1. /\ UNCHANGED <<keyf, files, bak, bk, rest, dev>>
        /\ srv.pc \in Opening /\ srv' \in {[srv EXCEPT !.pc = p] : p \in Opening}
    BY DbFrame
  <1>2. srv'.key = srv.key /\ srv'.lock = srv.lock /\ srv.lock # "locked"
    BY <1>0, <1>1 DEF ServerTypeOK, ServerInv, Opening
  <1>3. /\ srv'.pc \in DbOpen \ {"listen", "open"} /\ last'.old = last.old
        /\ last' \in [key : Nat, journal : Nat, event : Nat, loss : Nat, old : SUBSET File]
    BY <1>0 DEF DbStep, OpenDatabase, Migrate, RecordFingerprint, EnsureServerIdentity, EnsureJournal,
       Goes, DbOpen, ServerTypeOK, DiskTypeOK
  <1>4. /\ rest.pc = "none" /\ keyf # None /\ srv.key = keyf.dk /\ keyf.dk \in Nat
        /\ db # None => db \in Database /\ db.dk = srv.key /\ Fits(db, files, last.old)
        /\ srv.pc # "database" => db # None
    BY <1>0, <1>1, <1>2 DEF HoldsInv, LiveInv, DiskTypeOK, KeyFile, Opening, DbOpen
  <1>5. \/ UNCHANGED <<db, dur, last>> /\ db # None
        \/ \E d \in Database : /\ Transact(d) /\ d.dk = srv.key /\ Fits(d, files, last.old)
                               /\ db # None => KeepsBound(db, d)
    <2>1. CASE OpenDatabase /\ db = None
      <3>1. Transact(NewDatabase(srv.key))
        BY <2>1 DEF OpenDatabase
      <3>2. NewDatabase(srv.key) \in Database
        BY <1>4 DEF NewDatabase, Database
      <3>3. Fits(NewDatabase(srv.key), files, last.old) /\ NewDatabase(srv.key).dk = srv.key
        BY DEF NewDatabase, Fits
      <3> QED BY <2>1, <3>1, <3>2, <3>3
    <2>2. CASE ~(OpenDatabase /\ db = None)
      <3>1. db # None /\ db \in Database /\ db.dk = srv.key /\ Fits(db, files, last.old)
        BY <2>2, <1>4 DEF DbStep, Migrate, RecordFingerprint, EnsureServerIdentity, EnsureJournal
      <3>2. \/ UNCHANGED <<db, dur, last>>
            \/ Transact([db EXCEPT !.ver = 1]) \/ Transact([db EXCEPT !.fp = TRUE])
            \/ Transact([db EXCEPT !.ident = TRUE])
            \/ Transact([db EXCEPT !.journal = last.journal + 1])
        BY <2>2 DEF DbStep, OpenDatabase, Migrate, RecordFingerprint, EnsureServerIdentity, EnsureJournal
      <3>3. ASSUME NEW d, \/ d = [db EXCEPT !.ver = 1] \/ d = [db EXCEPT !.fp = TRUE]
                          \/ d = [db EXCEPT !.ident = TRUE]
                          \/ d = [db EXCEPT !.journal = last.journal + 1]
            PROVE  d \in Database /\ d.dk = srv.key /\ Fits(d, files, last.old) /\ KeepsBound(db, d)
        <4>1. last.journal + 1 \in Nat
          BY <1>0 DEF DiskTypeOK
        <4>2. d \in Database /\ d.dk = db.dk /\ d.rows = db.rows
          BY <3>1, <3>3, <4>1 DEF Database
        <4> QED BY <3>1, <4>2 DEF Fits, KeepsBound
      <3> QED BY <3>1, <3>2, <3>3
    <2> QED BY <2>1, <2>2
  <1>6. CASE UNCHANGED <<db, dur, last>> /\ db # None
    <2>1. HoldsInv'
      BY <1>1, <1>2, <1>3, <1>4, <1>6 DEF HoldsInv, Opening, DbOpen
    <2>2. LiveInv'
      BY <1>0, <1>1, <1>3, <1>6 DEF LiveInv
    <2>3. DiskTypeOK' /\ RestoreInv' /\ BackupInv' /\ ArchiveInv' /\ SweptInv'
      BY <1>1, <1>3, <1>6 DEF PlaceInv, DiskTypeOK, RestoreInv, BackupInv, ArchiveInv, SweptInv
    <2> QED BY <2>1, <2>2, <2>3 DEF PlaceInv
  <1>7. srv.pc \in {"database"} \cup DbOpen
    BY <1>1 DEF Opening, DbOpen
  <1> QED BY <1>1, <1>2, <1>3, <1>5, <1>6, <1>7, WritePlace

\* Taking bytes away that were a day old and no message names.
LEMMA FitsLess ==
    ASSUME NEW d, NEW F \in Blobs, NEW old, Fits(d, F, old), NEW f \in old, d.rows[f] # "bound"
    PROVE  Fits(d, [F EXCEPT ![f] = None], old)
  BY DEF Fits, Blobs

\* The sweep of a start takes the bytes of old uploads no message names, then
\* their rows; a power cut may bring back such a row, and nothing else.
LEMMA SweepPlace ==
    ASSUME AskInv, PlaceInv, SweepStep \/ \E f \in File : SweepRemoves(f) \/ SweepDeletes(f)
    PROVE  PlaceInv'
  <1>0. /\ DiskTypeOK /\ LiveInv /\ HoldsInv /\ BackupInv /\ ArchiveInv /\ RestoreInv
        /\ ServerTypeOK /\ ServerInv
    BY DEF PlaceInv, AskInv
  <1>1. srv.pc \in {"orphans", "sweep"} /\ UNCHANGED <<keyf, bak, bk, rest, dev>>
    BY DEF SweepStep, OrphanFiles, SweepEnds, SweepRemoves, SweepDeletes, ServeStep
  <1>2. /\ rest.pc = "none" /\ bk.st = "none" /\ srv.lock # "locked"
        /\ keyf # None /\ db # None /\ srv.key = keyf.dk /\ db.dk = srv.key /\ db \in Database
        /\ Fits(db, files, last.old) /\ files \in Blobs
    BY <1>0, <1>1 DEF HoldsInv, LiveInv, DiskTypeOK, ServerInv, Opening, DbOpen
  <1>3. last \in [key : Nat, journal : Nat, event : Nat, loss : Nat, old : SUBSET File]
    BY <1>0 DEF DiskTypeOK
  <1>4. CASE SweepStep
    <2>1. /\ UNCHANGED <<db, dur, files>>
          /\ \/ /\ srv' = [srv EXCEPT !.pc = "sweep"]
                /\ \E grown \in SUBSET File : last' = [last EXCEPT !.old = last.old \cup grown]
             \/ srv' = [srv EXCEPT !.pc = "listen"] /\ last' = last /\ Orphans = {}
      BY <1>4 DEF SweepStep, OrphanFiles, SweepEnds, ServeStep, Goes
    <2>2. /\ last' \in [key : Nat, journal : Nat, event : Nat, loss : Nat, old : SUBSET File]
          /\ last.old \subseteq last'.old
      BY <1>3, <2>1
    <2>3. /\ srv'.pc \in {"sweep", "listen"} /\ srv'.lock = srv.lock /\ srv'.key = srv.key
          /\ srv'.pc = "listen" => last' = last /\ Orphans = {}
      BY <1>0, <2>1 DEF ServerTypeOK
    <2>4. \A d : Fits(d, files, last.old) => Fits(d, files, last'.old)
      BY <2>2 DEF Fits
    <2>5. DiskTypeOK' /\ RestoreInv' /\ BackupInv' /\ ArchiveInv'
      BY <1>0, <1>1, <2>1, <2>2 DEF DiskTypeOK, RestoreInv, BackupInv, ArchiveInv
    <2>6. LiveInv'
      BY <1>0, <1>1, <2>1, <2>4 DEF LiveInv
    <2>7. HoldsInv'
      BY <1>0, <1>1, <1>2, <2>1, <2>3 DEF HoldsInv, Opening, DbOpen
    <2>8. SweptInv'
      BY <2>1, <2>3 DEF SweptInv, IsSwept, Orphans
    <2> QED BY <2>5, <2>6, <2>7, <2>8 DEF PlaceInv
  <1>5. ASSUME NEW f \in File, SweepRemoves(f) PROVE PlaceInv'
    <2>1. /\ files' = [files EXCEPT ![f] = None] /\ UNCHANGED <<db, dur, last, srv>>
          /\ f \in last.old /\ db.rows[f] # "bound" /\ srv.pc = "sweep"
      BY <1>5 DEF SweepRemoves, Orphans, ghosts
    <2>2. files' \in Blobs
      BY <1>2, <2>1 DEF Blobs
    <2>3. \A d : Fits(d, files, last.old) /\ d.rows[f] # "bound" => Fits(d, files', last.old)
      BY <1>2, <2>1, FitsLess
    <2>4. \A d \in dur : d.rows[f] # "bound"
      BY <1>0, <2>1 DEF LiveInv, KeepsBound
    <2>5. DiskTypeOK' /\ RestoreInv' /\ ArchiveInv' /\ HoldsInv'
      BY <1>0, <1>1, <1>2, <2>1, <2>2 DEF DiskTypeOK, RestoreInv, ArchiveInv, HoldsInv
    <2>6. BackupInv'
      BY <1>0, <1>1, <1>2 DEF BackupInv
    <2>7. LiveInv'
      BY <1>0, <1>1, <1>2, <2>1, <2>3, <2>4 DEF LiveInv
    <2>8. SweptInv'
      BY <2>1 DEF SweptInv
    <2> QED BY <2>5, <2>6, <2>7, <2>8 DEF PlaceInv
  <1>6. ASSUME NEW f \in File, SweepDeletes(f) PROVE PlaceInv'
    <2> DEFINE d == [db EXCEPT !.rows[f] = "none"]
    <2>1. /\ Transact(d) /\ UNCHANGED <<files, last, srv>> /\ srv.pc = "sweep" /\ db.rows[f] # "bound"
      BY <1>6 DEF SweepDeletes, ServeStep, Orphans
    <2>2. d \in Database /\ d.dk = db.dk /\ d.rows = [db.rows EXCEPT ![f] = "none"]
      BY <1>2 DEF Database
    <2>3. \A g \in File : d.rows[g] = IF g = f THEN "none" ELSE db.rows[g]
      BY <1>2, <2>2 DEF Database
    <2> HIDE DEF d
    <2>4. Fits(d, files, last.old) /\ KeepsBound(db, d)
      BY <1>2, <2>1, <2>2, <2>3 DEF Fits, KeepsBound
    <2> QED BY <1>1, <1>2, <1>3, <2>1, <2>2, <2>4, WritePlace DEF DbOpen
  <1> QED BY <1>4, <1>5, <1>6

\* What an open server has.
LEMMA OpenHas ==
    ASSUME AskInv, PlaceInv, Serving
    PROVE  /\ srv.pc = "open" /\ srv.lock # "locked" /\ rest.pc = "none"
           /\ keyf # None /\ keyf \in KeyFile /\ srv.key = keyf.dk /\ srv.key \in Nat
           /\ db # None /\ db \in Database /\ db.dk = srv.key /\ Fits(db, files, last.old)
           /\ IsSwept(db, last.old) /\ Fits(db, files, {})
  <1>1. /\ srv.pc = "open" /\ srv.lock # "locked" /\ rest.pc = "none"
        /\ keyf # None /\ keyf \in KeyFile /\ srv.key = keyf.dk /\ srv.key \in Nat
        /\ db # None /\ db \in Database /\ db.dk = srv.key /\ Fits(db, files, last.old)
    BY DEF AskInv, ServerTypeOK, ServerInv, PlaceInv, HoldsInv, LiveInv, DiskTypeOK, Serving, KeyFile,
       DbOpen
  <1>2. IsSwept(db, last.old)
    BY <1>1 DEF PlaceInv, SweptInv
  <1> QED BY <1>1, <1>2 DEF Fits, IsSwept

\* A commit of the journal, and the rows of an upload.
LEMMA DataPlace ==
    ASSUME AskInv, PlaceInv, Commits \/ \E f \in File : CreateUpload(f) \/ MarkUploaded(f)
    PROVE  PlaceInv'
  <1>0. /\ Serving /\ UNCHANGED <<keyf, files, bak, srv, bk, rest, dev>>
    BY DEF Commits, Commit, CreateUpload, MarkUploaded, DataStep
  <1>1. /\ srv.pc = "open" /\ srv.lock # "locked" /\ srv.key = db.dk
        /\ db \in Database /\ Fits(db, files, last.old) /\ DiskTypeOK
        /\ db # None /\ IsSwept(db, last.old) /\ Fits(db, files, {})
    BY <1>0, OpenHas DEF PlaceInv
  <1>2. last'.old = last.old /\ last' \in [key : Nat, journal : Nat, event : Nat, loss : Nat, old : SUBSET File] /\ last.event + 1 \in Nat
    <2>1. last \in [key : Nat, journal : Nat, event : Nat, loss : Nat, old : SUBSET File] /\ last.event + 1 \in Nat
      BY <1>1 DEF DiskTypeOK
    <2>2. last' = last \/ last' = [last EXCEPT !.event = last.event + 1]
      BY DEF Commits, Commit, CreateUpload, MarkUploaded
    <2> QED BY <2>1, <2>2
  <1> DEFINE Good(d) == /\ d \in Database /\ Transact(d) /\ d.dk = srv.key
                        /\ Fits(d, files, last.old) /\ KeepsBound(db, d) /\ IsSwept(d, last.old)
  <1>3. \E d : Good(d)
    <2>1. ASSUME NEW F \in SUBSET File, Commit(F) PROVE \E d : Good(d)
      <3> DEFINE r == [f \in File |-> IF f \in F THEN "bound" ELSE db.rows[f]]
                 d == [db EXCEPT !.log = Append(@, last.event + 1), !.rows = r]
      <3>1. Append(db.log, last.event + 1) \in Seq(Nat)
        BY <1>1, <1>2 DEF Database
      <3>2. r \in [File -> {"none", "declared", "uploaded", "bound"}]
        BY <1>1 DEF Database
      <3>3. \A f \in File : r[f] = IF f \in F THEN "bound" ELSE db.rows[f]
        OBVIOUS
      <3>4. Transact(d) /\ \A f \in F : db.rows[f] = "uploaded"
        BY <2>1 DEF Commit
      <3> HIDE DEF r
      <3>5. d \in Database /\ d.dk = srv.key /\ d.rows = r
        BY <1>1, <3>1, <3>2 DEF Database
      <3> HIDE DEF d
      <3>6. Fits(d, files, last.old) /\ KeepsBound(db, d)
        BY <1>1, <3>3, <3>4, <3>5 DEF Fits, KeepsBound
      <3>7. IsSwept(d, last.old)
        BY <1>1, <1>2, <3>3, <3>5 DEF IsSwept, DiskTypeOK
      <3> QED BY <3>4, <3>5, <3>6, <3>7
    <2>2. ASSUME NEW f \in File, CreateUpload(f) \/ MarkUploaded(f)
          PROVE  \E d : Good(d)
      <3>1. PICK v \in {"declared", "uploaded"} :
              /\ Transact([db EXCEPT !.rows[f] = v])
              /\ v = "uploaded" => db.rows[f] = "declared" /\ files[f] # None
              /\ v = "declared" => files[f] = None /\ f \notin last.old /\ db.rows[f] = "none"
        BY <2>2 DEF CreateUpload, MarkUploaded
      <3> DEFINE d == [db EXCEPT !.rows[f] = v]
      <3>2. d \in Database /\ d.dk = srv.key /\ d.rows = [db.rows EXCEPT ![f] = v]
        BY <1>1 DEF Database
      <3>3. \A g \in File : d.rows[g] = IF g = f THEN v ELSE db.rows[g]
        BY <1>1, <3>2 DEF Database
      <3>4. Transact(d)
        BY <3>1
      <3> HIDE DEF d
      <3>5. files[f] \in {None, db.dk} /\ (v = "uploaded" => files[f] = db.dk) /\ f \notin last.old
        BY <1>1, <3>1 DEF Fits, IsSwept
      <3>6. Fits(d, files, last.old) /\ KeepsBound(db, d)
        BY <1>1, <3>1, <3>2, <3>3, <3>5 DEF Fits, KeepsBound
      <3>7. IsSwept(d, last.old)
        BY <1>1, <3>3, <3>5 DEF IsSwept, DiskTypeOK
      <3> QED BY <3>2, <3>4, <3>6, <3>7
    <2> QED BY <2>1, <2>2 DEF Commits
  <1> QED BY <1>0, <1>1, <1>2, <1>3, WritePlace DEF DbOpen

\* Bytes put in place under the key of a database keep fitting it.
LEMMA FitsMore ==
    ASSUME NEW d, NEW F \in Blobs, NEW old, Fits(d, F, old), NEW f \in File
    PROVE  Fits(d, [F EXCEPT ![f] = d.dk], old)
  BY DEF Fits, Blobs

\* An upload's bytes reach their place.
LEMMA FilePlace ==
    ASSUME AskInv, PlaceInv, NEW f \in File, Finalize(f)
    PROVE  PlaceInv'
  <1>0. /\ Serving /\ UNCHANGED <<keyf, db, dur, last, bak, srv, bk, rest, dev>>
        /\ files' = [files EXCEPT ![f] = srv.key]
    BY DEF Finalize, DataStep
  <1>1. /\ srv.pc = "open" /\ rest.pc = "none" /\ keyf # None /\ srv.key = keyf.dk
        /\ db # None /\ db.dk = srv.key /\ srv.key \in Nat
    BY <1>0, OpenHas
  <1>2. /\ DiskTypeOK /\ LiveInv /\ HoldsInv /\ BackupInv /\ ArchiveInv /\ RestoreInv
        /\ SweptInv /\ files \in Blobs
    BY DEF PlaceInv, DiskTypeOK
  <1>3. files' \in Blobs
    BY <1>0, <1>1, <1>2 DEF Blobs
  <1>4. \A d, old : Fits(d, files, old) /\ d.dk = srv.key => Fits(d, files', old)
    BY <1>0, <1>2, FitsMore
  <1>5. DiskTypeOK' /\ HoldsInv' /\ ArchiveInv' /\ RestoreInv'
    BY <1>0, <1>1, <1>2, <1>3 DEF DiskTypeOK, HoldsInv, ArchiveInv, RestoreInv
  <1>6. LiveInv' /\ SweptInv'
    BY <1>0, <1>1, <1>2, <1>4 DEF LiveInv, SweptInv
  <1>7. BackupInv'
    BY <1>0, <1>1, <1>2, <1>4 DEF BackupInv
  <1> QED BY <1>5, <1>6, <1>7 DEF PlaceInv

\* A device reads the journal.
LEMMA DevicePlace ==
    ASSUME AskInv, PlaceInv, DeviceSyncs
    PROVE  PlaceInv'
  <1>0. Serving /\ UNCHANGED <<keyf, db, files, dur, last, bak, srv, bk, rest>>
    BY DEF DeviceSyncs, DataStep
  <1>1. db \in Database /\ dev \in [journal : Nat, log : Seq(Nat)]
    BY <1>0, OpenHas DEF PlaceInv, DiskTypeOK
  <1>2. db.log \in Seq(Nat) /\ db.journal \in Nat /\ dev.log \in Seq(Nat)
    BY <1>1 DEF Database
  <1>3. Len(dev.log) + 1 \in Nat \ {0} /\ Len(db.log) \in Nat
    BY <1>2
  <1>4. SubSeq(db.log, Len(dev.log) + 1, Len(db.log)) \in Seq(Nat)
    BY <1>2, <1>3, SubSeqProperties
  <1>5. dev.log \o SubSeq(db.log, Len(dev.log) + 1, Len(db.log)) \in Seq(Nat)
    BY <1>2, <1>4, ConcatProperties
  <1>6. dev' \in [journal : Nat, log : Seq(Nat)]
    BY <1>2, <1>5 DEF DeviceSyncs
  <1> QED BY <1>0, <1>6 DEF PlaceInv, DiskTypeOK, LiveInv, SweptInv, HoldsInv, BackupInv, ArchiveInv,
         RestoreInv

\* A backup: it reads the key file, then the database, then the attachments the
\* snapshot names, while uploads go on.
LEMMA BackupPlace ==
    ASSUME AskInv, PlaceInv,
           \/ BackupBegins \/ BackupSnapshots \/ BackupAppears \/ BackupFails
           \/ \E f \in File : BackupCopies(f)
    PROVE  PlaceInv'
  <1>0. DiskTypeOK /\ LiveInv /\ HoldsInv /\ BackupInv /\ ArchiveInv /\ RestoreInv /\ ServerInv /\ SweptInv
    BY DEF PlaceInv, AskInv
  <1>1. UNCHANGED <<keyf, db, files, dur, srv, rest, dev, last>> /\ Serving
    BY <1>0 DEF BackupBegins, BackupSnapshots, BackupAppears, BackupFails, BackupCopies, disk, ghosts,
       ServerInv, Serving
  <1>2. /\ srv.pc = "open" /\ rest.pc = "none"
        /\ keyf # None /\ keyf \in KeyFile /\ srv.key = keyf.dk
        /\ db # None /\ db \in Database /\ db.dk = keyf.dk /\ Fits(db, files, {})
    BY <1>1, OpenHas
  <1>3. DiskTypeOK' /\ LiveInv' /\ HoldsInv' /\ SweptInv'
    BY <1>0, <1>1 DEF DiskTypeOK, LiveInv, HoldsInv, SweptInv
  <1>4. BackupInv'
    <2>0. NoFiles \in Blobs /\ FileIDs(db) \in SUBSET File
      BY DEF NoFiles, Blobs, FileIDs
    <2>1. CASE BackupBegins
      BY <1>1, <2>0, <2>1 DEF BackupBegins, BackupInv, NoBackup
    <2>2. CASE BackupAppears \/ BackupFails
      BY <1>1, <2>0, <2>2 DEF BackupAppears, BackupFails, BackupInv, NoBackup
    <2>3. CASE BackupSnapshots
      <3>1. bk' = [bk EXCEPT !.st = "copying", !.db = db, !.todo = FileIDs(db)] /\ bk.st = "keyed"
        BY <2>3 DEF BackupSnapshots
      <3>2. /\ bk'.st = "copying" /\ bk'.db = db /\ bk'.todo = FileIDs(db) /\ bk'.files = NoFiles
            /\ bk'.key = keyf
            /\ bk' \in [st : {"none", "keyed", "copying"}, key : {bk'.key}, db : {bk'.db},
                        files : Blobs, todo : SUBSET File]
        BY <1>0, <2>0, <3>1 DEF BackupInv
      <3>3. \A f \in File : (f \in FileIDs(db) <=> db.rows[f] # "none") /\ NoFiles[f] = None
        BY DEF FileIDs, NoFiles
      <3> QED BY <1>1, <1>2, <3>2, <3>3 DEF BackupInv
    <2>4. ASSUME NEW f \in File, BackupCopies(f) PROVE BackupInv'
      <3>1. /\ bk' = [bk EXCEPT !.todo = bk.todo \ {f}, !.files[f] = files[f]]
            /\ bk.st = "copying" /\ f \in bk.todo
        BY <2>4 DEF BackupCopies
      <3>2. files[f] \in Nat \cup {None} /\ bk.files \in Blobs
        BY <1>0 DEF DiskTypeOK, Blobs, BackupInv
      <3>3. [bk.files EXCEPT ![f] = files[f]] \in Blobs
        BY <3>2 DEF Blobs
      <3>4. /\ bk'.st = "copying" /\ bk'.db = bk.db /\ bk'.todo = bk.todo \ {f}
            /\ bk'.files = [bk.files EXCEPT ![f] = files[f]] /\ bk'.key = bk.key
            /\ bk' \in [st : {"none", "keyed", "copying"}, key : {bk'.key}, db : {bk'.db},
                        files : Blobs, todo : SUBSET File]
        BY <1>0, <3>1, <3>3 DEF BackupInv
      <3>5. \A g \in File : bk'.files[g] = IF g = f THEN files[f] ELSE bk.files[g]
        BY <3>2, <3>4 DEF Blobs
      <3>6. /\ bk.db \in Database /\ bk.db.dk = keyf.dk /\ Fits(bk.db, files, {})
            /\ bk.db.rows[f] # "none" /\ bk.key = keyf
            /\ \A g \in File : /\ g \in bk.todo => bk.db.rows[g] # "none"
                               /\ bk.files[g] \in {None, keyf.dk}
                               /\ bk.db.rows[g] \in {"uploaded", "bound"} /\ g \notin bk.todo
                                    => bk.files[g] = keyf.dk
        BY <1>0, <3>1 DEF BackupInv
      <3>7. /\ files[f] \in {None, keyf.dk}
            /\ bk.db.rows[f] \in {"uploaded", "bound"} => files[f] = keyf.dk
        BY <3>6 DEF Fits
      <3> QED BY <1>1, <3>4, <3>5, <3>6, <3>7 DEF BackupInv
    <2> QED BY <2>1, <2>2, <2>3, <2>4
  <1>5. ArchiveInv'
    <2>1. CASE BackupAppears
      <3> DEFINE c == [key |-> bk.key, db |-> bk.db, files |-> bk.files]
      <3>1. bak' = [content |-> c, mac |-> c, mackey |-> srv.key] /\ bk.st = "copying" /\ bk.todo = {}
        BY <2>1 DEF BackupAppears
      <3>2. Whole(c.key, c.db, c.files)
        BY <1>0, <1>2, <3>1 DEF BackupInv, Whole, Fits
      <3>3. c \in [key : {c.key}, db : {c.db}, files : {c.files}]
        OBVIOUS
      <3> HIDE DEF c
      <3>4. bak'.content = c /\ bak'.mac = c
        BY <3>1
      <3>5. bak' \in [content : {bak'.content}, mac : {bak'.mac}, mackey : {bak'.mackey}]
        BY <3>1
      <3> QED BY <3>2, <3>3, <3>4, <3>5 DEF ArchiveInv, Archive
    <2>2. CASE ~BackupAppears
      <3>1. bak' = bak
        BY <2>2 DEF BackupBegins, BackupSnapshots, BackupFails, BackupCopies, disk
      <3> QED BY <1>0, <3>1 DEF ArchiveInv
    <2> QED BY <2>1, <2>2
  <1>6. RestoreInv'
    BY <1>0, <1>1, <1>2 DEF RestoreInv
  <1> QED BY <1>3, <1>4, <1>5, <1>6 DEF PlaceInv

\* A backup that lies somewhere loses an attachment; its MAC says what it was.
LEMMA DamagePlace ==
    ASSUME PlaceInv, Damage
    PROVE  PlaceInv'
  <1>0. /\ UNCHANGED <<keyf, db, files, dur, srv, rest, dev, last, bk>>
        /\ bak # None /\ bak' = [bak EXCEPT !.content.files = NoFiles]
    BY DEF Damage, ghosts
  <1>1. Archive(bak) /\ DiskTypeOK /\ LiveInv /\ HoldsInv /\ BackupInv /\ RestoreInv /\ SweptInv
    BY <1>0 DEF PlaceInv, ArchiveInv
  <1>2. /\ bak'.mac = bak.mac /\ bak'.content = [bak.content EXCEPT !.files = NoFiles]
        /\ bak' \in [content : {bak'.content}, mac : {bak'.mac}, mackey : {bak'.mackey}]
    BY <1>0, <1>1 DEF Archive
  <1>3. bak'.content \in [key : {bak.mac.key}, db : {bak.mac.db}, files : {bak'.content.files}]
    BY <1>1, <1>2 DEF Archive
  <1>4. Archive(bak')
    BY <1>1, <1>2, <1>3 DEF Archive
  <1>5. ArchiveInv' /\ RestoreInv'
    BY <1>0, <1>1, <1>4 DEF ArchiveInv, RestoreInv
  <1> QED BY <1>0, <1>1, <1>5 DEF PlaceInv, DiskTypeOK, LiveInv, SweptInv, HoldsInv, BackupInv

\* With no data open, the place needs only be right about what is on disk.
LEMMA ClosedPlace ==
    ASSUME PlaceInv, srv'.pc \in {"off", "gate"}, srv'.lock # "locked", bk'.st = "none",
           bk' \in {bk, NoBackup}, bak' = bak, DiskTypeOK', RestoreInv',
           dur' = {} \/ UNCHANGED <<db, files, dur, last, rest>>,
           db' # None => Fits(db', files', last'.old) /\ (keyf' # None => db'.dk = keyf'.dk)
    PROVE  PlaceInv'
  <1>1. BackupInv'
    <2>1. NoFiles \in Blobs
      BY DEF NoFiles, Blobs
    <2> QED BY <2>1 DEF PlaceInv, BackupInv, NoBackup
  <1>2. HoldsInv' /\ SweptInv' /\ ArchiveInv'
    BY DEF PlaceInv, HoldsInv, SweptInv, ArchiveInv, Opening, DbOpen
  <1>3. LiveInv'
    BY DEF PlaceInv, LiveInv
  <1> QED BY <1>1, <1>2, <1>3 DEF PlaceInv

\* While a restore runs, no server has its data open.
LEMMA RestoreAlone ==
    ASSUME ~Race, AskInv, PlaceInv, rest.pc # "none" \/ RestoreBegins
    PROVE  /\ srv.pc \in {"off", "gate"} /\ srv.lock # "locked" /\ bk.st = "none"
           /\ dur = {} /\ keyf = None
  <1>1. srv.pc \in {"off", "gate"} /\ keyf = None
    BY DEF AskInv, PlaceInv, ServerTypeOK, HoldsInv, RestoreInv, RestoreBegins, checkEmpty
  <1>2. dur = {}
    BY DEF PlaceInv, LiveInv, RestoreBegins, checkEmpty
  <1> QED BY <1>1, <1>2 DEF AskInv, PlaceInv, ServerInv, HoldsInv, DbOpen

\* A restore, step by step; what is killed or refused on the way leaves no server.
LEMMA RestorePlace ==
    ASSUME ~Race, AskInv, PlaceInv,
           \/ RestoreBegins \/ RestoreUnpacks \/ RestorePrepares \/ PlaceFiles \/ PlaceDatabase
           \/ PlaceKey \/ RestoreFails \/ RestoreKilled
    PROVE  PlaceInv'
  <1>0. DiskTypeOK /\ LiveInv /\ ArchiveInv /\ RestoreInv
    BY DEF PlaceInv
  <1>1. rest.pc # "none" \/ RestoreBegins
    BY DEF RestoreUnpacks, RestorePrepares, PlaceFiles, PlaceDatabase, PlaceKey, RestoreFails,
       RestoreKilled
  <1>2. /\ srv.pc \in {"off", "gate"} /\ srv.lock # "locked" /\ bk.st = "none"
        /\ dur = {} /\ keyf = None
    BY <1>1, RestoreAlone
  <1>3. UNCHANGED <<bak, srv, bk, dev>> /\ dur' = {}
    BY <1>2 DEF RestoreStep, RestoreBegins, RestoreUnpacks, RestorePrepares, PlaceFiles, PlaceDatabase,
       PlaceKey, RestoreFails, RestoreKilled
  <1> DEFINE Goal == /\ DiskTypeOK' /\ RestoreInv'
                     /\ db' # None => Fits(db', files', last'.old) /\ (keyf' # None => db'.dk = keyf'.dk)
  <1> SUFFICES Goal
    BY <1>2, <1>3, ClosedPlace
  <1>a. \A key, d, F, old : Whole(key, d, F) => Fits(d, F, old)
    BY DEF Whole, Fits
  <1>4. CASE RestoreBegins
    <2>1. UNCHANGED <<keyf, db, files, last>> /\ bak # None /\ db = None
          /\ rest' = [NoRestore EXCEPT !.pc = "empty"]
      BY <1>4 DEF RestoreBegins, checkEmpty
    <2>2. RestoreInv'
      BY <2>1, <1>0, <1>2, <1>3 DEF RestoreInv, ArchiveInv, NoRestore
    <2> QED BY <2>1, <2>2, <1>0, <1>3 DEF DiskTypeOK
  <1>5. CASE RestoreUnpacks
    <2>1. /\ UNCHANGED <<keyf, db, files, last>> /\ rest.pc = "empty" /\ db = None
          /\ Archive(bak)
      BY <1>5, <1>0 DEF RestoreUnpacks, RestoreInv
    <2>2. RestoreInv'
      <3>1. CASE Vouched(bak)
        <4>1. rest' = [pc |-> "staged", key |-> bak.content.key, db |-> bak.content.db,
                       files |-> bak.content.files]
          BY <1>5, <3>1 DEF RestoreUnpacks
        <4>2. Whole(bak.content.key, bak.content.db, bak.content.files)
          BY <2>1, <3>1 DEF Vouched, Archive
        <4>3. /\ rest'.pc = "staged" /\ Whole(rest'.key, rest'.db, rest'.files)
              /\ rest' \in [pc : {"none", "empty", "staged", "prepared", "filesIn", "dbIn"},
                            key : {rest'.key}, db : {rest'.db}, files : {rest'.files}]
          BY <4>1, <4>2
        <4> QED BY <4>3, <2>1, <1>2, <1>3 DEF RestoreInv
      <3>2. CASE ~Vouched(bak)
        BY <1>5, <3>2 DEF RestoreUnpacks, RestoreInv, NoRestore
      <3> QED BY <3>1, <3>2
    <2> QED BY <2>1, <2>2, <1>0, <1>3 DEF DiskTypeOK
  <1>6. CASE RestorePrepares
    <2>1. /\ UNCHANGED <<keyf, db, files>> /\ rest.pc = "staged" /\ db = None
          /\ Archive(bak) /\ Whole(rest.key, rest.db, rest.files)
          /\ rest' = [rest EXCEPT !.pc = "prepared", !.db = RotateJournal(rest.db)]
          /\ last' = [last EXCEPT !.journal = last.journal + 1]
      BY <1>6, <1>0 DEF RestorePrepares, RestoreInv
    <2>2. last.journal + 1 \in Nat
      BY <1>0 DEF DiskTypeOK
    <2>3. DiskTypeOK'
      BY <2>1, <2>2, <1>0, <1>3 DEF DiskTypeOK
    <2>4. /\ RotateJournal(rest.db) \in Database /\ RotateJournal(rest.db).dk = rest.db.dk
          /\ RotateJournal(rest.db).rows = rest.db.rows
      BY <2>1, <2>2 DEF RotateJournal, Whole, Database
    <2>5. Whole(rest.key, RotateJournal(rest.db), rest.files)
      BY <2>1, <2>4 DEF Whole, Fits
    <2>6. /\ rest'.pc = "prepared" /\ rest'.key = rest.key /\ rest'.files = rest.files
          /\ rest'.db = RotateJournal(rest.db)
          /\ rest' \in [pc : {"none", "empty", "staged", "prepared", "filesIn", "dbIn"},
                        key : {rest'.key}, db : {rest'.db}, files : {rest'.files}]
      BY <2>1, <1>0 DEF RestoreInv
    <2>7. RestoreInv'
      BY <2>1, <2>5, <2>6, <1>2, <1>3 DEF RestoreInv
    <2> QED BY <2>1, <2>3, <2>7
  <1>7. CASE PlaceFiles \/ PlaceDatabase
    <2>1. PICK p \in {"filesIn", "dbIn"} :
            /\ rest' = [rest EXCEPT !.pc = p] /\ UNCHANGED <<keyf, last>> /\ files' = rest.files
            /\ p = "filesIn" => rest.pc = "prepared" /\ db' = db
            /\ p = "dbIn" => rest.pc = "filesIn" /\ db' = rest.db
      BY <1>7, <1>0 DEF PlaceFiles, PlaceDatabase, RestoreInv
    <2>2. Whole(rest.key, rest.db, rest.files) /\ Archive(bak) /\ db = None
      BY <2>1, <1>0 DEF RestoreInv
    <2>3. /\ rest'.pc = p /\ rest'.key = rest.key /\ rest'.files = rest.files /\ rest'.db = rest.db
          /\ rest' \in [pc : {"none", "empty", "staged", "prepared", "filesIn", "dbIn"},
                        key : {rest'.key}, db : {rest'.db}, files : {rest'.files}]
      BY <2>1, <1>0 DEF RestoreInv
    <2>4. RestoreInv'
      BY <2>1, <2>2, <2>3, <1>2, <1>3 DEF RestoreInv
    <2>5. DiskTypeOK'
      BY <2>1, <2>2, <1>0, <1>3 DEF DiskTypeOK, Whole
    <2> QED BY <2>1, <2>2, <2>4, <2>5, <1>2, <1>a DEF Whole
  <1>8. CASE PlaceKey
    <2>1. /\ UNCHANGED <<db, files, last>> /\ keyf' = rest.key /\ rest' = NoRestore
          /\ Whole(rest.key, rest.db, rest.files) /\ db = rest.db /\ files = rest.files
      BY <1>8, <1>0 DEF PlaceKey, RestoreInv
    <2>2. RestoreInv'
      BY <2>1 DEF RestoreInv, NoRestore
    <2>3. DiskTypeOK'
      BY <2>1, <1>0, <1>3 DEF DiskTypeOK, Whole
    <2> QED BY <2>1, <2>2, <2>3, <1>a DEF Whole
  <1>9. CASE RestoreFails \/ RestoreKilled
    <2>1. /\ last' = last /\ rest' = NoRestore
          /\ \/ keyf' = keyf
             \/ rest.pc = "dbIn" /\ keyf' = rest.key /\ db' = None
          /\ db' = None \/ (db' = db /\ files' = files)
          /\ files' \in {NoFiles, files}
      BY <1>9, <1>0 DEF RestoreFails, RestoreKilled, Refused, RestoreInv
    <2>2. rest.pc = "dbIn" => Whole(rest.key, rest.db, rest.files)
      BY <1>0 DEF RestoreInv
    <2>3. NoFiles \in Blobs
      BY DEF NoFiles, Blobs
    <2>4. RestoreInv'
      BY <2>1 DEF RestoreInv, NoRestore
    <2>5. DiskTypeOK'
      BY <2>1, <2>2, <2>3, <1>0, <1>3 DEF DiskTypeOK, Whole
    <2> QED BY <2>1, <2>4, <2>5, <1>0, <1>2 DEF LiveInv
  <1> QED BY <1>4, <1>5, <1>6, <1>7, <1>8, <1>9

\* The process ends, or with the power the latest transactions go; the machine is
\* lost, or what is no server is moved aside.
LEMMA EndPlace ==
    ASSUME AskInv, PlaceInv, EndStep \/ MovesAside
    PROVE  PlaceInv'
  <1>0. DiskTypeOK /\ LiveInv /\ RestoreInv /\ HoldsInv /\ ServerInv /\ ServerTypeOK
    BY DEF PlaceInv, AskInv
  <1>1. /\ srv'.pc \in {"off", "gate"} /\ srv'.lock # "locked" /\ bk'.st = "none"
        /\ bk' \in {bk, NoBackup} /\ bak' = bak /\ UNCHANGED <<dev, rest>>
        /\ dur' = {} \/ (dur' = dur /\ db' = db /\ Kill)
    <2>1. CASE EndStep
      BY <2>1 DEF EndStep, Exits, Kill, MachineLost, EmptyPlace, Off, NoBackup
    <2>2. CASE MovesAside
      BY <2>2, <1>0 DEF MovesAside, EmptyPlace, ServerInv
    <2> QED BY <2>1, <2>2
  <1>2. CASE MachineLost \/ MovesAside
    <2>1. keyf' = None /\ db' = None /\ files' = NoFiles /\ rest.pc = "none" /\ dur' = {}
      BY <1>2 DEF MachineLost, MovesAside, EmptyPlace
    <2>2. NoFiles \in Blobs
      BY DEF NoFiles, Blobs
    <2>3. last' \in [key : Nat, journal : Nat, event : Nat, loss : Nat, old : SUBSET File]
      <3>1. last \in [key : Nat, journal : Nat, event : Nat, loss : Nat, old : SUBSET File] /\ last.loss + 1 \in Nat
        BY <1>0 DEF DiskTypeOK
      <3>2. last' = last \/ last' = [last EXCEPT !.loss = last.loss + 1]
        BY <1>2 DEF MachineLost, MovesAside, ghosts
      <3> QED BY <3>1, <3>2
    <2>4. DiskTypeOK' /\ RestoreInv'
      BY <2>1, <2>2, <2>3, <1>0, <1>1 DEF DiskTypeOK, RestoreInv
    <2> QED BY <2>1, <2>4, <1>1, ClosedPlace
  <1>3. CASE Exits \/ Kill
    <2>1. UNCHANGED <<keyf, files, last>> /\ (db' = db \/ db' \in dur)
      BY <1>3 DEF Exits, Kill, ghosts
    <2>2. \A d \in dur : /\ d \in Database /\ Fits(d, files, last.old) /\ db # None /\ d.dk = db.dk
                         /\ rest.pc = "none"
      BY <1>0 DEF LiveInv, HoldsInv, DbOpen, Opening
    <2>3. DiskTypeOK' /\ RestoreInv'
      BY <2>1, <2>2, <1>0, <1>1 DEF DiskTypeOK, RestoreInv
    <2>4. db' # None => Fits(db', files', last'.old) /\ (keyf' # None => db'.dk = keyf'.dk)
      BY <2>1, <2>2, <1>0 DEF LiveInv
    <2> QED BY <2>1, <2>3, <2>4, <1>1, ClosedPlace
  <1> QED BY <1>2, <1>3 DEF EndStep

\* Every step leaves the place what PlaceInv says, when no first password is set
\* beside a restore.
LEMMA PlaceKeeps == ~Race /\ AskInv /\ PlaceInv /\ [GateNext]_gateVars => PlaceInv'
  <1> SUFFICES ASSUME ~Race, AskInv, PlaceInv, [GateNext]_gateVars PROVE PlaceInv'
    OBVIOUS
  <1>1. CASE \/ Start \/ Stop \/ PageStops \/ Opened \/ Refuses
             \/ \E x \in Asker, pw \in Pw : AskSetup(x, pw) \/ AskUnlock(x, pw) \/ AskChange(x, pw)
             \/ \E x \in Asker : Hears(x) \/ HangsUp(x) \/ AnswersState(x) \/ setup(x) \/ unlock(x)
                                 \/ change(x)
    BY <1>1, ServerPlace
  <1>2. CASE SetupCreates \/ SetupFails \/ \E x \in Asker : ChangeWrites(x) \/ ChangeFails(x)
    BY <1>2, KeyPlace
  <1>3. CASE DbStep \/ SweepStep \/ \E f \in File : SweepRemoves(f) \/ SweepDeletes(f)
    BY <1>3, ServePlace, SweepPlace
  <1>4. CASE Commits \/ \E f \in File : CreateUpload(f) \/ MarkUploaded(f)
    BY <1>4, DataPlace
  <1>5. CASE DeviceSyncs \/ Damage \/ \E f \in File : Finalize(f)
    BY <1>5, DevicePlace, DamagePlace, FilePlace
  <1>6. CASE \/ BackupBegins \/ BackupSnapshots \/ BackupAppears \/ BackupFails
             \/ \E f \in File : BackupCopies(f)
    BY <1>6, BackupPlace
  <1>7. CASE \/ RestoreBegins \/ RestoreUnpacks \/ RestorePrepares \/ PlaceFiles \/ PlaceDatabase
             \/ PlaceKey \/ RestoreFails \/ RestoreKilled
    BY <1>7, RestorePlace
  <1>8. CASE EndStep \/ MovesAside
    BY <1>8, EndPlace
  <1>9. CASE UNCHANGED gateVars
    BY <1>9 DEF gateVars, disk, ghosts, PlaceInv, DiskTypeOK, LiveInv, SweptInv, HoldsInv, BackupInv, ArchiveInv,
       RestoreInv
  <1> QED BY <1>1, <1>2, <1>3, <1>4, <1>5, <1>6, <1>7, <1>8, <1>9
      DEF GateNext, ServeNext, DbStep, SweepStep, Commits, EndStep

\* What is on disk is what the server, the backup and the restore take it for.
THEOREM PlaceInductive ==
    ASSUME ~Race
    PROVE  GateSpec => [](AskInv /\ PlaceInv)
  <1>1. GateInit => PlaceInv
    <2>1. NoFiles \in Blobs
      BY DEF NoFiles, Blobs
    <2> QED BY <2>1 DEF GateInit, PlaceInv, DiskTypeOK, LiveInv, SweptInv, HoldsInv, BackupInv, ArchiveInv,
       RestoreInv, Off, NoBackup, NoRestore, Opening, DbOpen
  <1>2. AskInv /\ PlaceInv /\ [GateNext]_gateVars => PlaceInv'
    BY PlaceKeeps
  <1> QED BY <1>1, <1>2, AskInductive, PTL DEF GateSpec

\* A place that looks like a server is one, whatever is killed, refused, cut off from
\* power or damaged, in the middle of a sweep too: the one way around it is a first
\* password set beside a restore (detectLock, setup, place, sweepOrphans).
THEOREM LooksLikeAServerAlways ==
    ASSUME ~Race
    PROVE  GateSpec => []LooksLikeAServer
  <1>1. PlaceInv => LooksLikeAServer
    BY DEF PlaceInv, LiveInv, SweptInv, IsSwept, Fits, LooksLikeAServer
  <1> QED BY <1>1, PlaceInductive, PTL

\* A backup that appears opens with the password in force by then and holds what its
\* snapshot calls uploaded (backup, Write).
THEOREM BackupIsWholeAlways ==
    ASSUME ~Race
    PROVE  GateSpec => BackupIsWhole
  <1> DEFINE A == bak' # bak /\ bak = None =>
                    LET c == bak'.content IN
                    /\ c.key = keyf' /\ c.db.dk = c.key.dk
                    /\ \A f \in File : c.db.rows[f] \in {"uploaded", "bound"} => c.files[f] = c.key.dk
  <1>1. AskInv /\ PlaceInv /\ [GateNext]_gateVars => [A]_gateVars
    <2> SUFFICES ASSUME AskInv, PlaceInv, GateNext, bak' # bak, bak = None
                 PROVE  A
      BY ZenonT(30)
    <2>1. BackupAppears
      BY ZenonT(30) DEF GateNext, ServeNext, Start, RestorePrepares, AskSetup, AskUnlock, AskChange, Ask, Hears,
         HangsUp, AnswersState, setup, unlock, change, ChangeWrites, ChangeFails, OpenDatabase, Migrate,
         RecordFingerprint, EnsureServerIdentity, EnsureJournal, Opened, SetupCreates, SetupFails,
         OrphanFiles, SweepRemoves, SweepDeletes, SweepEnds,
         Refuses, Stop, PageStops, Exits, Kill, Commit, DeviceSyncs, CreateUpload, Finalize,
         MarkUploaded, BackupCopies, BackupBegins, BackupSnapshots, BackupFails, Damage, RestoreBegins,
         RestoreUnpacks, PlaceFiles, PlaceDatabase, PlaceKey, RestoreFails, RestoreKilled, MachineLost,
         MovesAside, disk, ServeStep, DataStep, RestoreStep
    <2>2. /\ bk.st = "copying" /\ bk.todo = {} /\ keyf' = keyf
          /\ bak'.content = [key |-> bk.key, db |-> bk.db, files |-> bk.files]
      BY <2>1 DEF BackupAppears
    <2> QED BY <2>2 DEF PlaceInv, BackupInv
  <1> HIDE DEF A
  <1>2. GateSpec => [][A]_gateVars
    BY <1>1, PlaceInductive, PTL DEF GateSpec
  <1> QED BY <1>2 DEF A, BackupIsWhole

(***************************************************************************)
(* Journals and their histories                                            *)
(***************************************************************************)

\* A sequence is a prefix of another when it agrees with it to its own end.
LEMMA PrefixIs ==
    ASSUME NEW s \in Seq(Nat), NEW t \in Seq(Nat)
    PROVE  IsPrefix(s, t) <=> Len(s) <= Len(t) /\ \A i \in 1 .. Len(s) : s[i] = t[i]
  <1>0. Len(s) \in Nat /\ Len(t) \in Nat
    OBVIOUS
  <1> SUFFICES ASSUME Len(s) <= Len(t)
               PROVE  SubSeq(s, 1, Len(s)) = SubSeq(t, 1, Len(s))
                        <=> \A i \in 1 .. Len(s) : s[i] = t[i]
    BY <1>0 DEF IsPrefix
  <1>1. /\ \A i \in 1 .. Len(s) : s[i] \in Nat /\ t[i] \in Nat
    BY <1>0
  <1> DEFINE a == SubSeq(s, 1, Len(s))  b == SubSeq(t, 1, Len(s))
  <1>2. /\ a \in Seq(Nat) /\ Len(a) = Len(s) /\ \A i \in 1 .. Len(s) : a[i] = s[i]
    BY <1>0, <1>1, SubSeqProperties
  <1>3. /\ b \in Seq(Nat) /\ Len(b) = Len(s) /\ \A i \in 1 .. Len(s) : b[i] = t[i]
    BY <1>0, <1>1, SubSeqProperties
  <1> HIDE DEF a, b
  <1>4. a = b <=> \A i \in 1 .. Len(s) : s[i] = t[i]
    <2>1. ASSUME a = b PROVE \A i \in 1 .. Len(s) : s[i] = t[i]
      BY <1>2, <1>3, <2>1
    <2>2. ASSUME \A i \in 1 .. Len(s) : s[i] = t[i] PROVE a = b
      BY <1>2, <1>3, <2>2, SeqEqual
    <2> QED BY <2>1, <2>2
  <1> QED BY <1>4 DEF a, b

\* A history that goes on still begins with what it began with.
LEMMA PrefixGrows ==
    ASSUME NEW s \in Seq(Nat), NEW t \in Seq(Nat), NEW e \in Nat, IsPrefix(s, t)
    PROVE  IsPrefix(s, Append(t, e))
  <1>1. Len(s) <= Len(t) /\ \A i \in 1 .. Len(s) : s[i] = t[i]
    BY PrefixIs
  <1>2. /\ Append(t, e) \in Seq(Nat) /\ Len(Append(t, e)) = Len(t) + 1
        /\ \A i \in 1 .. Len(t) : Append(t, e)[i] = t[i]
    BY AppendProperties
  <1>3. Len(s) <= Len(Append(t, e)) /\ \A i \in 1 .. Len(s) : s[i] = Append(t, e)[i]
    BY <1>1, <1>2
  <1> QED BY <1>2, <1>3, PrefixIs

\* What a device reads after what it holds completes it.
LEMMA PrefixCompletes ==
    ASSUME NEW s \in Seq(Nat), NEW t \in Seq(Nat), IsPrefix(s, t)
    PROVE  s \o SubSeq(t, Len(s) + 1, Len(t)) = t
  <1>0. Len(s) \in Nat /\ Len(t) \in Nat /\ Len(s) <= Len(t)
        /\ \A i \in 1 .. Len(s) : s[i] = t[i]
    BY PrefixIs
  <1> DEFINE r == SubSeq(t, Len(s) + 1, Len(t))
  <1>1. /\ Len(s) + 1 \in Int /\ Len(t) \in Int
        /\ \A i \in Len(s) + 1 .. Len(t) : t[i] \in Nat
    BY <1>0
  <1>2. /\ r \in Seq(Nat)
        /\ Len(r) = IF Len(s) + 1 <= Len(t) THEN Len(t) - (Len(s) + 1) + 1 ELSE 0
        /\ \A i \in 1 .. Len(t) - (Len(s) + 1) + 1 : r[i] = t[Len(s) + 1 + i - 1]
    BY <1>1, SubSeqProperties
  <1> HIDE DEF r
  <1>3. Len(r) = Len(t) - Len(s) /\ \A i \in 1 .. Len(t) - Len(s) : r[i] = t[Len(s) + i]
    BY <1>0, <1>2
  <1>4. /\ s \o r \in Seq(Nat) /\ Len(s \o r) = Len(s) + Len(r)
        /\ \A i \in 1 .. Len(s) + Len(r) : (s \o r)[i] = IF i <= Len(s) THEN s[i] ELSE r[i - Len(s)]
    BY <1>2, ConcatProperties
  <1>5. Len(s \o r) = Len(t)
    BY <1>0, <1>3, <1>4
  <1>6. \A i \in 1 .. Len(t) : (s \o r)[i] = t[i]
    <2> TAKE i \in 1 .. Len(t)
    <2>1. CASE i <= Len(s)
      BY <1>0, <1>3, <1>4, <2>1
    <2>2. CASE ~(i <= Len(s))
      <3>1. i - Len(s) \in 1 .. Len(t) - Len(s) /\ Len(s) + (i - Len(s)) = i
        BY <1>0, <2>2
      <3>2. r[i - Len(s)] = t[i]
        BY <1>3, <3>1
      <3> QED BY <1>0, <1>3, <1>4, <2>2, <3>2
    <2> QED BY <2>1, <2>2
  <1>7. s \o r = t
    BY <1>4, <1>5, <1>6, SeqEqual
  <1> QED BY <1>7 DEF r

\* The steps that take neither the journal nor a device anywhere.
LEMMA HistoryStays ==
    ASSUME HistoryInv, PlaceInv, dur' = {}, dev' = dev, last'.journal = last.journal,
           db' # None => db # None /\ db'.journal = db.journal /\ db'.log = db.log,
           rest'.pc \in {"prepared", "filesIn"} =>
             rest.pc \in {"prepared", "filesIn"} /\ rest'.db = rest.db
    PROVE  HistoryInv'
  BY DEF HistoryInv, SameJournalSameHistory

\* The steps that leave the journal as it is, one way or another.
LEMMA HistoryQuiet ==
    ASSUME HistoryInv, AskInv, PlaceInv, "power" \notin Kinds,
           \/ Start \/ Stop \/ PageStops \/ Opened \/ Refuses \/ SetupCreates \/ SetupFails
           \/ \E x \in Asker, pw \in Pw : AskSetup(x, pw) \/ AskUnlock(x, pw) \/ AskChange(x, pw)
           \/ \E x \in Asker : Hears(x) \/ HangsUp(x) \/ AnswersState(x) \/ setup(x) \/ unlock(x)
                               \/ change(x) \/ ChangeWrites(x) \/ ChangeFails(x)
           \/ BackupBegins \/ BackupSnapshots \/ BackupAppears \/ BackupFails \/ Damage
           \/ \E f \in File : BackupCopies(f) \/ Finalize(f) \/ SweepRemoves(f)
           \/ RestoreBegins \/ RestoreUnpacks \/ PlaceFiles \/ PlaceKey \/ RestoreFails \/ RestoreKilled
           \/ EndStep \/ MovesAside \/ UNCHANGED gateVars
    PROVE  HistoryInv'
  <1>0. dur = {} /\ last \in [key : Nat, journal : Nat, event : Nat, loss : Nat, old : SUBSET File]
    BY Zenon DEF HistoryInv, PlaceInv, DiskTypeOK
  <1>1. dev' = dev /\ dur' = {} /\ (db' = db \/ db' = None)
    BY <1>0, ZenonT(40) DEF Start, Stop, PageStops, Opened, Refuses, SetupCreates, SetupFails, AskSetup, AskUnlock,
       AskChange, Ask, Hears, HangsUp, AnswersState, setup, unlock, change, ChangeWrites, ChangeFails,
       BackupBegins, BackupSnapshots, BackupAppears, BackupFails, Damage, BackupCopies, Finalize,
       SweepRemoves, DataStep, RestoreBegins, RestoreUnpacks, PlaceFiles, PlaceKey, RestoreFails, RestoreKilled,
       RestoreStep, EndStep, Exits, Kill, MachineLost, MovesAside, EmptyPlace, gateVars, disk, ghosts
  <1>2. last'.journal = last.journal
    <2>1. \/ last' = last \/ last' = [last EXCEPT !.key = last.key + 1]
          \/ last' = [last EXCEPT !.loss = last.loss + 1]
      BY ZenonT(40) DEF Start, Stop, PageStops, Opened, Refuses, SetupCreates, SetupFails, AskSetup, AskUnlock,
         AskChange, Ask, Hears, HangsUp, AnswersState, setup, unlock, change, ChangeWrites, ChangeFails,
         BackupBegins, BackupSnapshots, BackupAppears, BackupFails, Damage, BackupCopies, Finalize,
       SweepRemoves, DataStep, RestoreBegins, RestoreUnpacks, PlaceFiles, PlaceKey, RestoreFails, RestoreKilled,
         RestoreStep, EndStep, Exits, Kill, MachineLost, MovesAside, gateVars, ghosts
    <2> QED BY <1>0, <2>1
  <1>3. rest'.pc \in {"prepared", "filesIn"} =>
          rest.pc \in {"prepared", "filesIn"} /\ rest'.db = rest.db
    <2>1. \/ rest' = rest \/ rest' = NoRestore \/ rest' = [NoRestore EXCEPT !.pc = "empty"]
          \/ rest' = [pc |-> "staged", key |-> bak.content.key, db |-> bak.content.db,
                      files |-> bak.content.files]
          \/ rest.pc = "prepared" /\ rest' = [rest EXCEPT !.pc = "filesIn"]
      BY ZenonT(30) DEF Start, Stop, PageStops, Opened, Refuses, SetupCreates, SetupFails, AskSetup, AskUnlock,
         AskChange, Ask, Hears, HangsUp, AnswersState, setup, unlock, change, ChangeWrites, ChangeFails,
         BackupBegins, BackupSnapshots, BackupAppears, BackupFails, Damage, BackupCopies, Finalize,
       SweepRemoves, DataStep, RestoreBegins, RestoreUnpacks, PlaceFiles, PlaceKey, RestoreFails, RestoreKilled,
         RestoreStep, EndStep, Exits, Kill, MachineLost, MovesAside, gateVars, ghosts
    <2>2. rest \in [pc : {"none", "empty", "staged", "prepared", "filesIn", "dbIn"},
                    key : {rest.key}, db : {rest.db}, files : {rest.files}]
      BY DEF PlaceInv, RestoreInv
    <2>3. NoRestore.pc = "none" /\ [NoRestore EXCEPT !.pc = "empty"].pc = "empty"
      BY DEF NoRestore
    <2>4. rest.pc = "prepared" /\ rest' = [rest EXCEPT !.pc = "filesIn"] => rest'.db = rest.db
      BY <2>2
    <2>5. rest' = [pc |-> "staged", key |-> bak.content.key, db |-> bak.content.db,
                   files |-> bak.content.files] => rest'.pc = "staged"
      OBVIOUS
    <2>6. \/ rest' = rest \/ rest'.pc \in {"none", "empty", "staged"}
          \/ rest.pc = "prepared" /\ rest'.db = rest.db
      BY <2>1, <2>3, <2>4, <2>5
    <2> QED BY <2>6
  <1> QED BY <1>1, <1>2, <1>3, HistoryStays

\* The database is written: only a commit and a new journal id are seen by a device.
LEMMA HistoryWrites ==
    ASSUME HistoryInv, AskInv, PlaceInv, "power" \notin Kinds,
           \/ DbStep \/ SweepStep \/ Commits
           \/ \E f \in File : CreateUpload(f) \/ MarkUploaded(f) \/ SweepDeletes(f)
    PROVE  HistoryInv'
  <1>0. /\ dur = {} /\ last \in [key : Nat, journal : Nat, event : Nat, loss : Nat, old : SUBSET File]
        /\ dev \in [journal : Nat, log : Seq(Nat)] /\ (db # None => db \in Database)
        /\ last.journal \in Nat /\ last.event + 1 \in Nat
    BY DEF HistoryInv, PlaceInv, DiskTypeOK
  <1>1. UNCHANGED <<dev, rest>>
    BY DbFrame DEF Commits, Commit, CreateUpload, MarkUploaded, DataStep, SweepDeletes, ServeStep
  <1>2. dur' = {}
    BY <1>0 DEF DbStep, OpenDatabase, Migrate, RecordFingerprint, EnsureServerIdentity, EnsureJournal,
       SweepStep, OrphanFiles, SweepEnds, SweepDeletes, Commits, Commit, CreateUpload, MarkUploaded, Transact
  <1>3. CASE \/ Migrate \/ RecordFingerprint \/ EnsureServerIdentity
             \/ \E f \in File : CreateUpload(f) \/ MarkUploaded(f) \/ SweepDeletes(f)
    <2>1. last' = last /\ db # None
      BY <1>3, OpenHas DEF Migrate, RecordFingerprint, EnsureServerIdentity, CreateUpload, MarkUploaded,
         SweepDeletes, PlaceInv, HoldsInv, DbOpen
    <2>2. \/ db' = db \/ db' = [db EXCEPT !.ver = 1] \/ db' = [db EXCEPT !.fp = TRUE]
          \/ db' = [db EXCEPT !.ident = TRUE]
          \/ \E f \in File : db' = [db EXCEPT !.rows[f] = "declared"]
                             \/ db' = [db EXCEPT !.rows[f] = "uploaded"]
                             \/ db' = [db EXCEPT !.rows[f] = "none"]
      BY <1>3 DEF Migrate, RecordFingerprint, EnsureServerIdentity, CreateUpload, MarkUploaded,
         SweepDeletes, Transact
    <2>3. db'.journal = db.journal /\ db'.log = db.log
      BY <1>0, <2>1, <2>2 DEF Database
    <2> QED BY <1>1, <1>2, <2>1, <2>3, HistoryStays
  <1>4. CASE OpenDatabase
    <2>1. last' = last /\ (db' = db \/ db' = NewDatabase(srv.key))
      BY <1>4 DEF OpenDatabase, Transact
    <2>2. CASE db' = db
      BY <1>1, <1>2, <2>1, <2>2, HistoryStays
    <2>3. CASE db' = NewDatabase(srv.key)
      <3>1. db'.journal = 0
        BY <2>3 DEF NewDatabase
      <3> QED BY <1>0, <1>1, <1>2, <2>1, <3>1 DEF HistoryInv, SameJournalSameHistory
    <2> QED BY <2>1, <2>2, <2>3
  <1>5. CASE EnsureJournal
    <2>0. db # None /\ rest.pc = "none"
      BY <1>5 DEF EnsureJournal, PlaceInv, HoldsInv, Opening, DbOpen
    <2>1. CASE db.journal = 0
      <3>1. /\ db' = [db EXCEPT !.journal = last.journal + 1]
            /\ last' = [last EXCEPT !.journal = last.journal + 1]
        BY <1>5, <2>1 DEF EnsureJournal, Transact
      <3>2. db'.journal = last.journal + 1 /\ last'.journal = last.journal + 1
        BY <1>0, <2>0, <3>1 DEF Database
      <3> QED BY <1>0, <1>1, <1>2, <2>0, <3>2 DEF HistoryInv, SameJournalSameHistory
    <2>2. CASE db.journal # 0
      <3>1. UNCHANGED <<db, last>>
        BY <1>5, <2>2 DEF EnsureJournal
      <3> QED BY <1>1, <1>2, <3>1, <2>0, HistoryStays
    <2> QED BY <2>1, <2>2
  <1>6. CASE Commits
    <2>0. db # None /\ db \in Database /\ rest.pc = "none"
      BY <1>6, OpenHas DEF Commits, Commit
    <2>1. /\ \E rows : db' = [db EXCEPT !.log = Append(db.log, last.event + 1), !.rows = rows]
          /\ last' = [last EXCEPT !.event = last.event + 1]
      BY <1>6 DEF Commits, Commit, Transact
    <2>2. /\ db'.journal = db.journal /\ db'.log = Append(db.log, last.event + 1)
          /\ last'.journal = last.journal
      BY <1>0, <2>0, <2>1 DEF Database
    <2>3. db.log \in Seq(Nat) /\ dev.log \in Seq(Nat)
      BY <1>0, <2>0 DEF Database
    <2>4. SameJournalSameHistory'
      BY <1>0, <1>1, <2>0, <2>2, <2>3, PrefixGrows DEF HistoryInv, SameJournalSameHistory
    <2> QED BY <1>1, <1>2, <2>0, <2>2, <2>4 DEF HistoryInv
  <1>7. CASE SweepStep
    <2>1. db' = db /\ (last' = last \/ \E grown : last' = [last EXCEPT !.old = last.old \cup grown])
      BY <1>7 DEF SweepStep, OrphanFiles, SweepEnds
    <2>2. last'.journal = last.journal
      BY <1>0, <2>1
    <2> QED BY <1>1, <1>2, <2>1, <2>2, HistoryStays
  <1> QED BY <1>3, <1>4, <1>5, <1>6, <1>7 DEF DbStep

\* A device reads, and a restore gives the data it brings back a new journal id.
LEMMA HistoryMoves ==
    ASSUME ~Race, HistoryInv, AskInv, PlaceInv, DeviceSyncs \/ RestorePrepares \/ PlaceDatabase
    PROVE  HistoryInv'
  <1>0. /\ dur = {} /\ last \in [key : Nat, journal : Nat, event : Nat, loss : Nat, old : SUBSET File]
        /\ dev \in [journal : Nat, log : Seq(Nat)] /\ last.journal \in Nat /\ dev.journal \in Nat
        /\ dev.journal <= last.journal
    BY DEF HistoryInv, PlaceInv, DiskTypeOK
  <1>1. CASE DeviceSyncs
    <2>0. UNCHANGED <<db, dur, last, rest>>
      BY <1>1 DEF DeviceSyncs, DataStep
    <2>1. db # None /\ db \in Database /\ rest.pc = "none"
      BY <1>1, OpenHas DEF DeviceSyncs
    <2>2. db.log \in Seq(Nat) /\ dev.log \in Seq(Nat) /\ db.journal \in Nat
      BY <1>0, <2>1 DEF Database
    <2>3. /\ dev'.journal = db.journal
          /\ dev'.log = IF dev.journal # db.journal THEN db.log
                        ELSE dev.log \o SubSeq(db.log, Len(dev.log) + 1, Len(db.log))
      BY <1>1 DEF DeviceSyncs
    <2>4. db.journal # 0 => dev'.log = db.log
      <3>1. CASE dev.journal # db.journal
        BY <2>3, <3>1
      <3>2. CASE dev.journal = db.journal /\ db.journal # 0
        <4>1. IsPrefix(dev.log, db.log)
          BY <2>1, <3>2 DEF HistoryInv, SameJournalSameHistory
        <4> QED BY <2>2, <2>3, <3>2, <4>1, PrefixCompletes
      <3> QED BY <3>1, <3>2
    <2>5. IsPrefix(db.log, db.log)
      BY <2>2, PrefixIs
    <2>6. SameJournalSameHistory'
      BY <2>0, <2>3, <2>4, <2>5 DEF SameJournalSameHistory
    <2> QED BY <2>0, <2>1, <2>3, <2>6 DEF HistoryInv
  <1>2. CASE RestorePrepares
    <2>0. /\ UNCHANGED <<db, dur, dev>> /\ rest.pc = "staged"
          /\ rest' = [rest EXCEPT !.pc = "prepared", !.db = RotateJournal(rest.db)]
          /\ last' = [last EXCEPT !.journal = last.journal + 1]
      BY <1>2 DEF RestorePrepares, RestoreStep
    <2>1. rest.db \in Database /\ db = None
          /\ rest \in [pc : {"none", "empty", "staged", "prepared", "filesIn", "dbIn"},
                       key : {rest.key}, db : {rest.db}, files : {rest.files}]
      BY <2>0 DEF PlaceInv, RestoreInv, Whole
    <2>2. RotateJournal(rest.db).journal = last.journal + 1
      BY <2>1 DEF RotateJournal, Database
    <2>3. rest'.db.journal = last.journal + 1 /\ last'.journal = last.journal + 1
      BY <1>0, <2>0, <2>1, <2>2
    <2>4. SameJournalSameHistory'
      BY <2>0, <2>1 DEF SameJournalSameHistory
    <2> QED BY <1>0, <2>0, <2>1, <2>3, <2>4 DEF HistoryInv
  <1>3. CASE PlaceDatabase
    <2>0. /\ db' = rest.db /\ dur' = {} /\ UNCHANGED <<last, dev>> /\ rest.pc = "filesIn"
          /\ rest' = [rest EXCEPT !.pc = "dbIn"]
      BY <1>3 DEF PlaceDatabase, RestoreStep
    <2>1. rest'.pc = "dbIn"
      BY <2>0 DEF PlaceInv, RestoreInv
    <2>2. rest.db.journal <= last.journal /\ dev.journal # rest.db.journal
      BY <2>0 DEF HistoryInv
    <2> QED BY <1>0, <2>0, <2>1, <2>2 DEF HistoryInv, SameJournalSameHistory
  <1> QED BY <1>1, <1>2, <1>3

\* Under one journal id a device only ever sees a history that goes on, when the
\* process may be killed, writes refused and machines lost and restored, but the power
\* stays on: a power cut takes back commits a device has seen (RotateJournal, Transact).
THEOREM SameJournalSameHistoryAlways ==
    ASSUME ~Race, "power" \notin Kinds
    PROVE  GateSpec => []SameJournalSameHistory
  <1>1. GateInit => HistoryInv
    BY DEF GateInit, HistoryInv, SameJournalSameHistory, NoRestore
  <1>2. AskInv /\ PlaceInv /\ HistoryInv /\ [GateNext]_gateVars => HistoryInv'
    <2> SUFFICES ASSUME AskInv, PlaceInv, HistoryInv, [GateNext]_gateVars PROVE HistoryInv'
      OBVIOUS
    <2>1. CASE \/ DbStep \/ SweepStep \/ Commits
               \/ \E f \in File : CreateUpload(f) \/ MarkUploaded(f) \/ SweepDeletes(f)
      BY <2>1, HistoryWrites
    <2>2. CASE DeviceSyncs \/ RestorePrepares \/ PlaceDatabase
      BY <2>2, HistoryMoves
    <2>3. CASE \/ Start \/ Stop \/ PageStops \/ Opened \/ Refuses \/ SetupCreates \/ SetupFails
               \/ \E x \in Asker, pw \in Pw : AskSetup(x, pw) \/ AskUnlock(x, pw) \/ AskChange(x, pw)
               \/ \E x \in Asker : Hears(x) \/ HangsUp(x) \/ AnswersState(x) \/ setup(x) \/ unlock(x)
                                   \/ change(x) \/ ChangeWrites(x) \/ ChangeFails(x)
               \/ BackupBegins \/ BackupSnapshots \/ BackupAppears \/ BackupFails \/ Damage
               \/ \E f \in File : BackupCopies(f) \/ Finalize(f) \/ SweepRemoves(f)
               \/ RestoreBegins \/ RestoreUnpacks \/ PlaceFiles \/ PlaceKey \/ RestoreFails
               \/ RestoreKilled \/ EndStep \/ MovesAside \/ UNCHANGED gateVars
      BY <2>3, HistoryQuiet
    <2> QED BY <2>1, <2>2, <2>3 DEF GateNext, ServeNext, DbStep, SweepStep, Commits, EndStep
  <1>3. HistoryInv => SameJournalSameHistory
    BY DEF HistoryInv
  <1> QED BY <1>1, <1>2, <1>3, PlaceInductive, PTL DEF GateSpec

(***************************************************************************)
(* The password                                                            *)
(***************************************************************************)

\* Steps that concern neither the key file nor a request.
LEMMA PasswordStays ==
    ASSUME PasswordInv, UNCHANGED <<keyf, ask, known, unsure>>, srv'.opener = srv.opener,
           \/ srv'.pc = srv.pc
           \/ srv.pc \in Opening /\ srv'.pc \in Opening
           \/ srv.pc \in {"off", "gate", "sealing"} /\ srv'.pc \in {"off", "gate"}
    PROVE  PasswordInv'
  BY DEF PasswordInv, Made, Served, Opening

\* One request: asked, heard of, given up on, or answered at once.
LEMMA PasswordAsked ==
    ASSUME AskInv, PasswordInv, NEW x \in Asker, \A y \in Asker : y = x,
           \/ \E pw \in Pw : AskSetup(x, pw) \/ AskUnlock(x, pw) \/ AskChange(x, pw)
           \/ Hears(x) \/ HangsUp(x)
    PROVE  PasswordInv'
  <1>0. /\ ServerTypeOK /\ ServerInv /\ IsRequest(ask[x]) /\ ServedInv(x)
        /\ ask = [y \in Asker |-> ask[y]] /\ UNCHANGED <<keyf, srv>>
    BY DEF AskInv, AskSetup, AskUnlock, AskChange, Ask, Hears, HangsUp, disk
  <1>1. CASE \E pw \in Pw : AskSetup(x, pw) \/ AskUnlock(x, pw) \/ AskChange(x, pw)
    <2>1. /\ ask[x].st = "none" /\ UNCHANGED <<known, unsure>>
          /\ ask'[x].st = "queued" /\ ask'[x].reply = "none"
      BY <1>0, <1>1 DEF AskSetup, AskUnlock, AskChange, Ask, ghosts
    <2>2. ~Made(x) /\ ~Made(x)' /\ ~(srv.pc \in Opening /\ srv.opener = x)
      BY <1>0, <2>1 DEF Made, Served, IsRequest, NoAsk, ServerInv
    <2> QED BY <1>0, <2>1, <2>2 DEF PasswordInv
  <1>2. CASE Hears(x)
    <2>1. /\ ask[x].st \in {"queued", "taken"} /\ ask' = [ask EXCEPT ![x] = NoAsk]
          /\ \/ ask[x].reply # "none"
             \/ ~srv.page /\ ~(ask[x].kind = "change" /\ ask[x].st = "taken")
          /\ known' = IF ask[x].reply \in {"ok", "why"} THEN ask[x].pw ELSE known
          /\ unsure' = IF ask[x].reply \in {"ok", "why"} THEN {}
                       ELSE IF ask[x].kind = "setup" /\ ask[x].reply = "none"
                            THEN unsure \cup {ask[x].pw} ELSE unsure
      BY <1>2 DEF Hears
    <2>2. ask'[x] = NoAsk
      BY <1>0, <2>1
    <2>3. ~(srv.pc \in Opening /\ srv.opener = x)
      BY <1>0, <2>1 DEF ServerInv, Served
    <2>4. keyf # None => keyf.pw \in {known'} \cup unsure'
      <3>1. CASE ask[x].reply \in {"ok", "why"}
        BY <2>1, <3>1 DEF PasswordInv
      <3>2. CASE ask[x].reply \notin {"ok", "why"}
        <4>1. Made(x) => ask[x].kind = "setup" /\ ask[x].reply = "none"
          BY <3>2 DEF Made, Served
        <4>2. unsure \subseteq unsure' /\ (Made(x) => ask[x].pw \in unsure') /\ known' = known
          BY <2>1, <3>2, <4>1
        <4> QED BY <4>2 DEF PasswordInv
      <3> QED BY <3>1, <3>2
    <2>5. NoAsk.st = "none" /\ NoAsk.reply = "none"
      BY DEF NoAsk
    <2> QED BY <1>0, <2>2, <2>3, <2>4, <2>5 DEF PasswordInv
  <1>3. CASE HangsUp(x)
    <2>1. /\ ask[x].st \in {"queued", "taken"} /\ known' = known
          /\ unsure' = IF ask[x].kind = "unlock" THEN unsure ELSE unsure \cup {ask[x].pw}
          /\ ask' = [ask EXCEPT ![x] = IF ask[x].st = "taken" /\ ask[x].reply = "none"
                                       THEN [ask[x] EXCEPT !.st = "gone"] ELSE NoAsk]
      BY <1>0, <1>3 DEF HangsUp
    <2>2. \/ /\ ask[x].st = "taken" /\ ask[x].reply = "none" /\ ask'[x].st = "gone"
             /\ ask'[x].reply = "none" /\ ask'[x].kind = ask[x].kind /\ ask'[x].pw = ask[x].pw
          \/ ~Served(x) /\ ask'[x].st = "none" /\ ask'[x].reply = "none"
      BY <1>0, <2>1 DEF Served, IsRequest, NoAsk
    <2>3. srv.pc \in Opening /\ srv.opener = x => Served(x)
      BY <1>0 DEF ServerInv
    <2>4. /\ keyf # None => keyf.pw \in {known'} \cup unsure'
          /\ ask[x].kind # "unlock" => ask[x].pw \in unsure'
      BY <2>1 DEF PasswordInv, Made
    <2>5. srv.pc \in Opening /\ srv.opener = x => keyf.pw = ask[x].pw
      BY DEF PasswordInv
    <2>6. srv.pc \in Opening /\ srv.opener = x => keyf.pw = ask'[x].pw
      BY <2>2, <2>3, <2>5
    <2> QED BY <1>0, <2>2, <2>4, <2>6 DEF PasswordInv
  <1> QED BY <1>1, <1>2, <1>3

\* The goroutine of the gate takes a request, or answers it at once.
LEMMA PasswordTaken ==
    ASSUME AskInv, PasswordInv, HoldsInv, NEW x \in Asker, \A y \in Asker : y = x,
           AnswersState(x) \/ setup(x) \/ unlock(x) \/ change(x)
    PROVE  PasswordInv'
  <1>0. /\ ServerTypeOK /\ ServerInv /\ IsRequest(ask[x])
        /\ ask = [y \in Asker |-> ask[y]] /\ UNCHANGED <<keyf, known, unsure>>
        /\ ask[x].st = "queued" /\ AtSelect
    BY DEF AskInv, AnswersState, setup, unlock, change, disk, ghosts
  <1>1. ~Made(x) /\ ask[x].reply = "none"
    BY <1>0 DEF Made, Served, IsRequest
  <1>2. \/ /\ ask'[x].st = "taken" /\ ask'[x].reply \in {"state", "wrong"}
           /\ srv'.pc = srv.pc /\ srv'.opener = srv.opener
        \/ /\ ask'[x].st = "taken" /\ ask'[x].reply = "none" /\ ask'[x].kind = "unlock"
           /\ ask'[x].pw = ask[x].pw /\ keyf.pw = ask[x].pw
        \/ /\ ask'[x].st = "taken" /\ ask'[x].reply = "none" /\ srv'.pc \in {"sealing", "open"}
    <2>1. answer(x, "state") \/ answer(x, "wrong") =>
            ask'[x].st = "taken" /\ ask'[x].reply \in {"state", "wrong"}
      BY <1>0, ZenonT(30) DEF answer, IsRequest
    <2>2. ask' = [ask EXCEPT ![x].st = "taken"] =>
            /\ ask'[x].st = "taken" /\ ask'[x].reply = "none" /\ ask'[x].kind = ask[x].kind
            /\ ask'[x].pw = ask[x].pw
      BY <1>0, <1>1 DEF IsRequest
    <2>3. CASE AnswersState(x)
      BY <2>1, <2>3 DEF AnswersState
    <2>4. CASE setup(x)
      <3>1. \/ answer(x, "state") /\ srv' = srv
            \/ answer(x, "state") /\ srv' = [srv EXCEPT !.lock = "locked"]
            \/ /\ ask' = [ask EXCEPT ![x].st = "taken"]
               /\ srv' = [srv EXCEPT !.pc = "sealing", !.opener = x]
        BY <2>4 DEF setup
      <3> QED BY <1>0, <2>1, <2>2, <3>1 DEF ServerTypeOK
    <2>5. CASE unlock(x)
      BY <2>1, <2>2, <2>5 DEF unlock, Unseals
    <2>6. CASE change(x)
      BY <2>1, <2>2, <2>6 DEF change
    <2> QED BY <2>3, <2>4, <2>5, <2>6
  <1>3. ~(srv.pc \in Opening)
    BY <1>0 DEF AtSelect, Waits, Opening
  <1>4. ~Made(x)'
    BY <1>2 DEF Made, Served, Opening
  <1> QED BY <1>0, <1>1, <1>2, <1>3, <1>4 DEF PasswordInv, Opening

\* The request that was served is answered: told, its owner knows; gone, they may not.
LEMMA PasswordAnswered ==
    ASSUME AskInv, PasswordInv, NEW x \in Asker, \A y \in Asker : y = x, NEW code \in Replies \ {"none"},
           Served(x), answer(x, code), UNCHANGED <<known, unsure>>, srv'.pc \in {"gate", "open", "failed"},
           \/ code = "internal" /\ keyf' = keyf /\ ~Made(x)
           \/ /\ code \in {"ok", "why"} /\ srv'.pc # "gate" /\ (keyf' # None => keyf'.pw = ask[x].pw)
              /\ ask[x].kind \in {"setup", "change"} \/ (keyf' = keyf /\ ~Made(x))
    PROVE  PasswordInv'
  <1>0. IsRequest(ask[x]) /\ ask = [y \in Asker |-> ask[y]] /\ ask[x].reply = "none"
    BY DEF AskInv, Served
  <1>1. CASE ask[x].st = "gone"
    <2>1. ask'[x] = NoAsk /\ NoAsk.st = "none" /\ NoAsk.reply = "none"
      BY <1>0, <1>1 DEF answer, NoAsk
    <2>2. ask[x].kind \in {"setup", "change"} => ask[x].pw \in unsure
      BY <1>1 DEF PasswordInv
    <2>3. keyf' # None => keyf'.pw \in {known} \cup unsure
      BY <2>2 DEF PasswordInv
    <2> QED BY <2>1, <2>3 DEF PasswordInv, Opening
  <1>2. CASE ask[x].st # "gone"
    <2>1. /\ ask'[x].st = "taken" /\ ask'[x].reply = code /\ ask'[x].kind = ask[x].kind
          /\ ask'[x].pw = ask[x].pw
      BY <1>0, <1>2 DEF answer, IsRequest
    <2>2. keyf' # None => keyf'.pw \in {known} \cup unsure \/ (Made(x)' /\ keyf'.pw = ask'[x].pw)
      BY <2>1 DEF PasswordInv, Made
    <2> QED BY <2>1, <2>2 DEF PasswordInv, Opening
  <1> QED BY <1>1, <1>2

\* Every step keeps what the owner can know of the password in force.
LEMMA PasswordKeeps ==
    ASSUME ~Race, "sync" \notin Kinds, \A x, y \in Asker : x = y,
           AskInv, PlaceInv, PasswordInv, [GateNext]_gateVars
    PROVE  PasswordInv'
  <1>0. /\ ServerTypeOK /\ ServerInv /\ HoldsInv /\ RestoreInv /\ DiskTypeOK
        /\ \A x \in Asker : IsRequest(ask[x]) /\ ServedInv(x)
        /\ ask = [x \in Asker |-> ask[x]]
    BY DEF AskInv, PlaceInv
  <1>1. CASE \E x \in Asker : Hears(x) \/ HangsUp(x)
               \/ \E pw \in Pw : AskSetup(x, pw) \/ AskUnlock(x, pw) \/ AskChange(x, pw)
    BY <1>1, PasswordAsked
  <1>2. CASE \E x \in Asker : AnswersState(x) \/ setup(x) \/ unlock(x) \/ change(x)
    BY <1>0, <1>2, PasswordTaken
  <1>3. CASE \E x \in Asker : ChangeWrites(x) \/ ChangeFails(x)
    <2> PICK x \in Asker : ChangeWrites(x) \/ ChangeFails(x)
      BY <1>3
    <2>1. /\ Served(x) /\ ask[x].kind = "change" /\ srv.pc = "open" /\ UNCHANGED <<srv, known, unsure>>
          /\ \/ keyf' = [keyf EXCEPT !.pw = ask[x].pw] /\ answer(x, "ok")
             \/ keyf' = keyf /\ answer(x, "internal")
      BY DEF ChangeWrites, ChangeFails, Changing, Refused, ghosts
    <2>2. keyf \in KeyFile
      BY <1>0, <2>1 DEF HoldsInv, DiskTypeOK
    <2>3. [keyf EXCEPT !.pw = ask[x].pw].pw = ask[x].pw
      BY <2>2 DEF KeyFile
    <2>4. ~Made(x)
      BY <2>1 DEF Made, Served
    <2> QED BY <2>1, <2>3, <2>4, PasswordAnswered DEF Replies
  <1>4. CASE Opened \/ (Refuses /\ ~srv.stop)
    <2>1. /\ srv.pc \in Opening /\ keyf' = keyf /\ UNCHANGED <<known, unsure>>
          /\ \/ answer(srv.opener, "ok") /\ srv' = [srv EXCEPT !.pc = "open", !.lock = "open", !.opener = None]
             \/ answer(srv.opener, "why") /\ srv' = [srv EXCEPT !.pc = "failed", !.opener = None]
      BY <1>4 DEF Opened, Refuses, Opening, disk, ghosts
    <2>2. srv.opener \in Asker /\ Served(srv.opener)
      BY <1>0, <2>1 DEF ServerInv
    <2>3. keyf.pw = ask[srv.opener].pw
      BY <2>1, <2>2 DEF PasswordInv
    <2>4. srv'.pc \in {"open", "failed"}
      BY <1>0, <2>1 DEF ServerTypeOK
    <2>5. ask[srv.opener].kind \in {"setup", "change"} \/ ~Made(srv.opener)
      BY DEF Made
    <2> QED BY <2>1, <2>2, <2>3, <2>4, <2>5, PasswordAnswered DEF Replies
  <1>5. CASE SetupFails
    <2>1. /\ srv.pc = "sealing" /\ keyf' = keyf /\ UNCHANGED <<known, unsure>>
          /\ answer(srv.opener, "internal") /\ srv' = [srv EXCEPT !.pc = "gate", !.opener = None]
      BY <1>5 DEF SetupFails, Refused
    <2>2. srv.opener \in Asker /\ Served(srv.opener) /\ srv'.pc = "gate"
      BY <1>0, <2>1 DEF ServerInv, ServerTypeOK
    <2>3. ~Made(srv.opener)
      BY <2>1, <2>2 DEF Made, Served, Opening
    <2> QED BY <2>1, <2>2, <2>3, PasswordAnswered DEF Replies
  <1>6. CASE SetupCreates
    <2>1. /\ srv.pc = "sealing" /\ UNCHANGED <<ask, known, unsure>>
          /\ keyf' = [pw |-> ask[srv.opener].pw, dk |-> last.key + 1]
          /\ srv' = [srv EXCEPT !.pc = "database", !.lock = "opening", !.key = last.key + 1]
      BY <1>6 DEF SetupCreates
    <2>2. /\ srv.opener \in Asker /\ Served(srv.opener) /\ ask[srv.opener].kind = "setup"
          /\ srv'.pc = "database" /\ srv'.opener = srv.opener /\ keyf'.pw = ask[srv.opener].pw
      BY <1>0, <2>1 DEF ServerInv, ServerTypeOK
    <2>3. Made(srv.opener)' /\ \A x \in Asker : x = srv.opener
      BY <2>1, <2>2 DEF Made, Served, Opening
    <2>4. ask[srv.opener].reply = "none"
      BY <2>2 DEF Served
    <2> QED BY <2>1, <2>2, <2>3, <2>4 DEF PasswordInv
  <1>7. CASE Refuses /\ srv.stop
    <2>1. /\ srv.pc \in Opening /\ UNCHANGED <<keyf, ask, known, unsure>>
          /\ srv' = [srv EXCEPT !.pc = "failed", !.opener = None]
      BY <1>7 DEF Refuses, disk, ghosts
    <2>2. srv'.pc = "failed"
      BY <1>0, <2>1 DEF ServerTypeOK
    <2>3. \A x \in Asker : Made(x) => Made(x)'
      BY <2>1, <2>2 DEF Made, Served, Opening
    <2> QED BY <2>1, <2>2, <2>3 DEF PasswordInv, Opening
  <1>8. CASE Start \/ Stop \/ PageStops \/ DbStep \/ SweepStep
    <2>1. UNCHANGED <<keyf, ask, known, unsure>>
      BY <1>8, DbFrame DEF Start, Stop, PageStops, disk, ghosts
    <2>2. CASE Start
      <3>1. srv.pc = "off" /\ srv'.pc = "gate" /\ ask = [x \in Asker |-> NoAsk]
        BY <2>2, <1>0 DEF Start, Off, ServerInv
      <3>2. \A x \in Asker : ask[x] = NoAsk
        BY <3>1
      <3> QED BY <2>1, <3>1, <3>2 DEF PasswordInv, Made, Served, NoAsk, Opening
    <2>3. CASE Stop \/ PageStops \/ DbStep \/ SweepStep
      <3>1. \/ srv' = [srv EXCEPT !.stop = TRUE] \/ srv' = [srv EXCEPT !.page = FALSE]
            \/ srv.pc \in Opening /\ \E p \in Opening : srv' = [srv EXCEPT !.pc = p]
        BY <2>3, DbFrame DEF Stop, PageStops
      <3>2. /\ srv'.opener = srv.opener
            /\ srv'.pc = srv.pc \/ (srv.pc \in Opening /\ srv'.pc \in Opening)
        BY <1>0, <3>1 DEF ServerTypeOK
      <3> QED BY <2>1, <3>2, PasswordStays
    <2> QED BY <1>8, <2>2, <2>3
  <1>9. CASE EndStep
    <2>1. srv' = Off /\ ask' = [x \in Asker |-> NoAsk] /\ srv'.pc = "off"
      BY <1>9, EndFrame DEF Off
    <2>2. keyf' # None => keyf'.pw \in {known'} \cup unsure'
      <3>1. CASE MachineLost
        BY <3>1 DEF MachineLost, EmptyPlace
      <3>2. CASE Kill
        <4>1. /\ keyf' = keyf /\ known' = known
              /\ unsure' = unsure \cup {ask[x].pw : x \in {y \in Asker : ask[y].kind \in {"setup", "change"}}}
          BY <3>2 DEF Kill
        <4> QED BY <4>1 DEF PasswordInv, Made
      <3>3. CASE Exits
        <4>1. /\ UNCHANGED <<keyf, known, unsure>>
              /\ \A x \in Asker : ask[x].st = "none" \/ ask[x].st = "gone"
          BY <3>3 DEF Exits, ghosts
        <4>2. \A x \in Asker : Made(x) => ask[x].st = "gone" /\ ask[x].pw \in unsure
          BY <1>0, <4>1 DEF Made, IsRequest, NoAsk, PasswordInv
        <4> QED BY <4>1, <4>2 DEF PasswordInv
      <3> QED BY <1>9, <3>1, <3>2, <3>3 DEF EndStep
    <2>3. \A x \in Asker : ask'[x].st = "none" /\ ask'[x].reply = "none"
      BY <2>1 DEF NoAsk
    <2> QED BY <2>1, <2>2, <2>3 DEF PasswordInv, Opening
  <1>10. CASE QuietStep \/ BackupBegins \/ UNCHANGED gateVars
    <2>1. UNCHANGED <<srv, ask>>
      BY <1>10, QuietFrame DEF BackupBegins, gateVars
    <2>2. CASE PlaceKey
      <3>1. rest.pc # "none" /\ keyf' = rest.key /\ known' = rest.key.pw /\ unsure' = unsure
        BY <2>2 DEF PlaceKey, RestoreStep
      <3>2. srv.pc \notin {"open", "failed"} \cup Opening
        BY <1>0, <3>1 DEF HoldsInv
      <3> QED BY <2>1, <3>1, <3>2 DEF PasswordInv
    <2>3. CASE MovesAside
      <3>1. keyf' = None /\ srv.pc = "off" /\ UNCHANGED <<known, unsure>>
        BY <2>3 DEF MovesAside, EmptyPlace, ghosts
      <3> QED BY <2>1, <3>1 DEF PasswordInv, Opening
    <2>4. CASE ~PlaceKey /\ ~MovesAside
      <3>1. UNCHANGED <<keyf, known, unsure>>
        BY <1>10, <2>4 DEF QuietStep, SweepRemoves, SweepDeletes, ServeStep, Commits, Commit,
           DeviceSyncs, BackupSnapshots, BackupAppears, BackupFails, Damage, CreateUpload, Finalize, MarkUploaded, BackupCopies, DataStep, RestoreStep,
           RestoreBegins, RestoreUnpacks, RestorePrepares, PlaceFiles, PlaceDatabase, RestoreFails,
           RestoreKilled, BackupBegins, gateVars, disk, ghosts, Refused
      <3> QED BY <2>1, <3>1, PasswordStays, SMTT(30)
    <2> QED BY <2>2, <2>3, <2>4
  <1> QED BY <1>1, <1>2, <1>3, <1>4, <1>5, <1>6, <1>7, <1>8, <1>9, <1>10
      DEF GateNext, ServeNext, DbStep, SweepStep, QuietStep, Commits, EndStep

\* The key file opens with a password the owner was told of or is still to hear of, if
\* the owner asks for one thing at a time and a directory that cannot be flushed is not
\* mistaken for a refused write (ask, change).
THEOREM PasswordKnownAlways ==
    ASSUME ~Race, "sync" \notin Kinds, \A x, y \in Asker : x = y
    PROVE  GateSpec => []PasswordKnown
  <1>1. GateInit => PasswordInv
    BY DEF GateInit, PasswordInv, NoAsk, Off, Opening
  <1>2. AskInv /\ PlaceInv /\ PasswordInv /\ [GateNext]_gateVars => PasswordInv'
    BY PasswordKeeps
  <1>3. PasswordInv => PasswordKnown
    BY DEF PasswordInv, PasswordKnown, Made
  <1> QED BY <1>1, <1>2, <1>3, PlaceInductive, PTL DEF GateSpec
=============================================================================
