------------------------------- MODULE Outbox -------------------------------
(***************************************************************************)
(* The outgoing queue of a device: OutboxServiceImpl drains it in passes,  *)
(* one at a time, over OutboxRepositoryImpl's records, and creates first   *)
(* the chats that wait for the server (ChatRepositoryImpl).  The server is *)
(* SendMessage and CreateChat, both idempotent by an id of the device's.   *)
(*                                                                         *)
(* A message is its place in the queue: enqueue hands out ordinals above   *)
(* every one in use, so the records sort by the order of writing.  Chat 0  *)
(* is on the server from the start; the chats from 1 on are made on this   *)
(* device, in that order.  A name is a version number.  A request on the   *)
(* way outlives the pass that gave up on it.                               *)
(***************************************************************************)
EXTENDS Integers, Sequences, FiniteSets, Bags, FiniteSetsExt, Functions

CONSTANTS
    Messages,      \* bound: messages the person writes
    WithFile,      \* those of them that carry an attachment
    NewChats,      \* bound: chats created on this device
    ServerKinds,   \* TRUE for a server that ignores the device's chat id
    RefusalLimit,  \* RetryLadder.refusalLimit
    MaxNames,      \* bound: renames of a chat before it is on the server; with a
                   \* server that ignores ids, none: it may make one chat of each
    MaxFaults      \* bound: dropped connections, timeouts, restarts

ASSUME OutboxAssumption ==
    /\ Messages \in Nat /\ NewChats \in Nat /\ MaxNames \in Nat /\ MaxFaults \in Nat
    /\ WithFile \subseteq 1 .. Messages
    /\ ServerKinds \subseteq BOOLEAN
    /\ RefusalLimit \in Nat \ {0}

Message == 1 .. Messages
NewChat == 1 .. NewChats
ChatId == 0 .. 2 * NewChats

NoMessage == 0
NoName == -1

VARIABLES
    queue,      \* records of the outbox store
    status,     \* OutboxStatus of each record
    refusals,   \* its count of answers that were refusals
    chat,       \* the chat it names
    fileOn,     \* records whose fileId is written
    stored,     \* messages in the local message store
    creation,   \* of each chat row: "absent" for no row, "none" for null
    name,       \* its name
    attempts,   \* its creationAttempts
    renames,    \* updateChatName between its read and its write: the new name
    live,       \* whether the phase is current
    mode,       \* "on", "stopping" from the logout's stop() on, "wiped"
    wanted,     \* a pass is chained behind the one running
    pass,       \* where the pass stands
    making,     \* rows of the chats the pass has still to create; the oldest is in hand
    todo,       \* records of its snapshot still to come; the least is in hand
    answer,     \* what came of the request in hand
    paused,     \* _pausedFor, with its timer
    cpause,     \* chats waiting out a pause in _creationRetryAt
    oldServer,  \* whether the server is one of before phase 041
    log,        \* the messages the server stored, in its order
    sname,      \* the server's chats: the name of each
    wire,       \* the bag of message.send requests the server may still take
    cwire,      \* chat.create requests, likewise: a chat and a name
    echo,       \* how far the sync applier is with each message's event
    made,       \* messages written so far
    born,       \* chats created on this device so far
    dropped,    \* ghost: how a message was thrown away, if it was
    skipped,    \* ghost: messages set aside, or passed over for the ones behind
    wish,       \* the name the person last gave a chat not yet created (see MaxNames)
    faults      \* how many faults have happened (see MaxFaults)

records == <<queue, status, refusals, chat, fileOn, made>>
rows == <<creation, name, attempts, born>>
drain == <<wanted, pass, making, todo, answer, paused, cpause>>
server == <<log, sname, wire, cwire, oldServer>>
ghosts == <<dropped, skipped, wish>>
rest == <<renames, live, mode, echo, stored, faults>>
outboxVars == <<records, rows, drain, server, ghosts, rest>>

OutboxInit ==
    /\ queue = {} /\ fileOn = {} /\ stored = {} /\ made = 0 /\ born = 0
    /\ status = [m \in Message |-> "pending"]
    /\ refusals = [m \in Message |-> 0]
    /\ chat = [m \in Message |-> 0]
    /\ creation = [c \in ChatId |-> IF c = 0 THEN "none" ELSE "absent"]
    /\ name = [c \in ChatId |-> 0]
    /\ attempts = [c \in ChatId |-> 0]
    /\ renames = [c \in ChatId |-> NoName]
    /\ live = "down" /\ mode = "on" /\ wanted = 0
    /\ pass = "idle" /\ making = {} /\ todo = {} /\ answer = "none"
    /\ paused = NoMessage /\ cpause = {}
    /\ log = <<>> /\ wire = EmptyBag /\ cwire = EmptyBag
    /\ sname = [c \in ChatId |-> IF c = 0 THEN 0 ELSE NoName]
    /\ echo = [m \in Message |-> "no"]
    /\ dropped = [m \in Message |-> "no"]
    /\ skipped = {}
    /\ wish = [c \in ChatId |-> 0]
    /\ oldServer \in ServerKinds
    /\ faults = 0

Current == Min(todo)
InHand(m) == todo # {} /\ m = Current
InLog(m) == m \in Range(log)

\* The id the server files chat c under: its own choice before phase 041.
ServerId(c) == IF oldServer THEN c + NewChats ELSE c

\* Faulty variant: a chat set aside does not hold its messages.
OnServerUnlessPending(c) == creation[c] # "pending"

\* isOnServer: a chat this device has no row of counts as there.
OnServer(c) == creation[c] \in {"absent", "none"}

\* A thread asks for a pass only while the channel is not held.
Ask == wanted' = IF live = "current" THEN 1 ELSE wanted

(***************************************************************************)
(* The person                                                              *)
(***************************************************************************)

\* createChat on this device, then flush.
CreateChat ==
    /\ mode = "on" /\ born < NewChats
    /\ born' = born + 1
    /\ creation' = [creation EXCEPT ![born + 1] = "pending"]
    /\ wanted' = 1
    /\ UNCHANGED <<records, name, attempts, pass, making, todo, answer, paused,
                   cpause, server, ghosts, rest>>

\* enqueue into a chat whose thread is open, then flush.
Enqueue(c) ==
    /\ mode # "wiped" /\ made < Messages
    /\ creation[c] # "absent"
    /\ made' = made + 1
    /\ queue' = queue \cup {made + 1}
    /\ chat' = [chat EXCEPT ![made + 1] = c]
    /\ Ask
    /\ UNCHANGED <<status, refusals, fileOn, rows, pass, making, todo, answer,
                   paused, cpause, server, ghosts, rest>>

\* A record goes with all its fields.
Remove(m) ==
    /\ queue' = queue \ {m}
    /\ status' = [status EXCEPT ![m] = "pending"]
    /\ refusals' = [refusals EXCEPT ![m] = 0]
    /\ fileOn' = fileOn \ {m}

\* How far a message had got when it was thrown away.
StageOf(m) ==
    IF BagIn(m, wire) \/ InLog(m) THEN "sent"
    ELSE IF InHand(m) /\ pass = "send" THEN "late" ELSE "early"

\* discard: the record goes, a pass is asked for.  The upload it ends is the
\* pass's next step.
Discard(m) ==
    /\ m \in queue /\ mode # "wiped"
    /\ Remove(m)
    /\ dropped' = [dropped EXCEPT ![m] = StageOf(m)]
    /\ wanted' = IF mode = "on" THEN 1 ELSE wanted
    /\ UNCHANGED <<chat, made, rows, pass, making, todo,
                   answer, paused, cpause, server, skipped, wish, rest>>

\* A tap on a message set aside: markPending, then flush.
Retry(m) ==
    /\ m \in queue /\ status[m] = "error" /\ mode # "wiped"
    /\ status' = [status EXCEPT ![m] = "pending"]
    /\ refusals' = [refusals EXCEPT ![m] = 0]
    /\ Ask
    /\ UNCHANGED <<queue, chat, fileOn, made, rows, pass, making, todo, answer,
                   paused, cpause, server, ghosts, rest>>

\* A tap on a chat set aside: retryCreation, then flush.
RetryCreation(c) ==
    /\ creation[c] = "failed" /\ mode = "on"
    /\ creation' = [creation EXCEPT ![c] = "pending"]
    /\ attempts' = [attempts EXCEPT ![c] = 0]
    /\ wanted' = 1
    /\ UNCHANGED <<records, name, born, pass, making, todo, answer, paused, cpause,
                   server, dropped, skipped, wish, rest>>

\* updateChatName reads that the server does not have the chat ...
RenameReads(c) ==
    /\ mode = "on" /\ renames[c] = NoName /\ wish[c] < MaxNames
    /\ creation[c] \notin {"absent", "none"} /\ ~oldServer
    /\ renames' = [renames EXCEPT ![c] = wish[c] + 1]
    /\ UNCHANGED <<records, rows, drain, server, ghosts, live, mode, echo, stored, faults>>

\* ... and writes the row, in a transaction of its own; then flush.
RenameWrites(c) ==
    /\ renames[c] # NoName
    /\ renames' = [renames EXCEPT ![c] = NoName]
    /\ IF creation[c] = "absent"
       THEN UNCHANGED <<creation, name, attempts, wish, wanted>>
       ELSE /\ creation' = [creation EXCEPT ![c] = "pending"]
            /\ name' = [name EXCEPT ![c] = renames[c]]
            /\ attempts' = [attempts EXCEPT ![c] = 0]
            /\ wish' = [wish EXCEPT ![c] = renames[c]]
            /\ wanted' = 1
    /\ UNCHANGED <<records, born, pass, making, todo, answer, paused, cpause, server,
                   dropped, skipped, live, mode, echo, stored, faults>>

(***************************************************************************)
(* The channel and the timers                                              *)
(***************************************************************************)

\* The phase turns current: every pause ends, a pass is asked for.
Connect ==
    /\ live = "down" /\ mode = "on"
    /\ live' = "current"
    /\ paused' = NoMessage /\ cpause' = {}
    /\ wanted' = 1
    /\ UNCHANGED <<records, rows, pass, making, todo, answer, server, ghosts,
                   renames, mode, echo, stored, faults>>

Awaiting == pass \in {"asked", "sent"} /\ answer = "none"

\* A teardown fails the request in hand; the server may still take it.
Lose == answer' = IF Awaiting THEN "lost" ELSE answer

Drop ==
    /\ live = "current" /\ faults < MaxFaults
    /\ live' = "down"
    /\ faults' = faults + 1
    /\ Lose
    /\ UNCHANGED <<records, rows, wanted, pass, making, todo, paused, cpause,
                   server, ghosts, renames, mode, echo, stored>>

\* No reply within sendTimeout.
TimesOut ==
    /\ Awaiting /\ faults < MaxFaults
    /\ faults' = faults + 1
    /\ answer' = "lost"
    /\ UNCHANGED <<records, rows, wanted, pass, making, todo, paused, cpause,
                   server, ghosts, renames, live, mode, echo, stored>>

\* Faulty variant: the timer ends the pause and asks for nothing.
RetryTimerQuiet ==
    /\ paused # NoMessage
    /\ paused' = NoMessage
    /\ UNCHANGED <<records, rows, wanted, pass, making, todo, answer, cpause, server,
                   ghosts, rest>>

\* _retryTimer.
RetryTimer ==
    /\ paused # NoMessage
    /\ paused' = NoMessage
    /\ wanted' = 1
    /\ UNCHANGED <<records, rows, pass, making, todo, answer, cpause, server,
                   ghosts, rest>>

\* The pause of c is over and _creationTimer fires.
CreationTimer(c) ==
    /\ c \in cpause
    /\ cpause' = cpause \ {c}
    /\ wanted' = 1
    /\ UNCHANGED <<records, rows, pass, making, todo, answer, paused, server,
                   ghosts, rest>>

(***************************************************************************)
(* A pass: the chats                                                       *)
(***************************************************************************)

Row(c) == [chat |-> c, name |-> name[c], attempts |-> attempts[c]]

\* pendingCreations ...
PendingCreations == {Row(c) : c \in {d \in NewChat : creation[d] = "pending"}}

\* ... the oldest first.
CurrentChat == CHOOSE r \in making : \A q \in making : r.chat <= q.chat

\* _drain up to the loop of _createPendingChats.
PassStarts ==
    /\ pass = "idle" /\ wanted = 1
    /\ wanted' = 0
    /\ IF live = "current" /\ mode = "on"
       THEN /\ pass' = "creations"
            /\ making' = PendingCreations
            /\ cpause' = {c \in cpause : creation[c] = "pending"}
       ELSE UNCHANGED <<pass, making, cpause>>
    /\ UNCHANGED <<records, rows, todo, answer, paused, server, ghosts, rest>>

\* One turn of the loop: stop, skip a chat in its pause, or ask the server.
CreationTurn ==
    /\ pass = "creations" /\ making # {}
    /\ IF mode # "on" \/ live = "down"
       THEN making' = {} /\ UNCHANGED <<pass, answer, cwire>>
       ELSE IF CurrentChat.chat \in cpause
       THEN making' = making \ {CurrentChat} /\ UNCHANGED <<pass, answer, cwire>>
       ELSE /\ cwire' = cwire (+) SetToBag({<<CurrentChat.chat, CurrentChat.name>>})
            /\ pass' = "asked" /\ answer' = "none"
            /\ UNCHANGED making
    /\ UNCHANGED <<records, rows, wanted, todo, paused, cpause, log, sname, wire,
                   oldServer, ghosts, rest>>

\* markCreation and the next turn.
Mark(c, state, n) ==
    /\ creation' = [creation EXCEPT ![c] = IF @ = "absent" THEN @ ELSE state]
    /\ attempts' = [attempts EXCEPT ![c] = IF creation[c] = "absent" THEN @ ELSE n]
    /\ UNCHANGED name

\* _isTerminal, or the server has refused often enough.
GivesUpOnChat(a, n) == a = "terminal" \/ (a = "refused" /\ n >= RefusalLimit)

\* createOnServer on success: the row becomes the server's.
Created(c) ==
    /\ creation' = [creation EXCEPT ![c] = "none"]
    /\ name' = [name EXCEPT ![c] = sname[c]]
    /\ attempts' = [attempts EXCEPT ![c] = 0]

\* The rest of _createOnServer, the reply in hand.
CreationReply ==
    /\ pass = "asked" /\ answer # "none"
    /\ LET c == CurrentChat.chat
           n == CurrentChat.attempts + 1
       IN \/ /\ answer = "ok" /\ oldServer
             /\ pass' = "moving"
             /\ UNCHANGED <<creation, name, attempts, making, cpause>>
          \/ /\ answer = "ok" /\ ~oldServer
             /\ Created(c)
             /\ cpause' = cpause \ {c}
             /\ pass' = "creations" /\ making' = making \ {CurrentChat}
          \/ /\ answer = "taken"
             /\ Mark(c, "taken", CurrentChat.attempts)
             /\ cpause' = cpause \ {c}
             /\ pass' = "creations" /\ making' = making \ {CurrentChat}
          \/ /\ answer \in {"refused", "terminal", "lost"}
             /\ IF GivesUpOnChat(answer, n)
                THEN Mark(c, "failed", n) /\ cpause' = cpause \ {c}
                ELSE Mark(c, "pending", n) /\ cpause' = cpause \cup {c}
             /\ pass' = "creations" /\ making' = making \ {CurrentChat}
    /\ answer' = "none"
    /\ UNCHANGED <<records, born, wanted, todo, paused, server, dropped, skipped, wish,
                   rest>>

\* moveChat: the queued messages follow the id the server gave.
MoveChat ==
    /\ pass = "moving"
    /\ chat' = [m \in Message |-> IF m \in queue /\ chat[m] = CurrentChat.chat
                                 THEN ServerId(chat[m]) ELSE chat[m]]
    /\ pass' = "adopting"
    /\ UNCHANGED <<queue, status, refusals, fileOn, made, rows, wanted, making, todo,
                   answer, paused, cpause, server, ghosts, rest>>

\* adoptServerChat: the server's row comes, the local one goes.
AdoptServerChat ==
    /\ pass = "adopting"
    /\ LET c == CurrentChat.chat
       IN /\ creation' = [creation EXCEPT ![ServerId(c)] = "none", ![c] = "absent"]
          /\ name' = [name EXCEPT ![ServerId(c)] = sname[ServerId(c)]]
          /\ cpause' = cpause \ {c}
    /\ pass' = "creations" /\ making' = making \ {CurrentChat}
    /\ UNCHANGED <<records, attempts, born, wanted, todo, answer, paused, server,
                   ghosts, rest>>

(***************************************************************************)
(* A pass: the messages                                                    *)
(***************************************************************************)

Pending == {m \in queue : status[m] = "pending"}

\* _pauseStillHolds: the first record the pass would try is the paused one.
PauseStillHolds ==
    LET tried == {m \in Pending : OnServer(chat[m])}
    IN  paused # NoMessage /\ tried # {} /\ Min(tried) = paused

\* The chats are done: read the queue, unless a pause holds it.
Listing ==
    /\ pass = "creations" /\ making = {}
    /\ IF mode # "on" \/ live = "down" \/ PauseStillHolds
       THEN pass' = "idle" /\ UNCHANGED <<todo, paused>>
       ELSE pass' = "next" /\ todo' = Pending /\ paused' = NoMessage
    /\ UNCHANGED <<records, rows, wanted, making, answer, cpause, server, ghosts, rest>>

\* Faulty variant: the snapshot of the queue is trusted.
StillPendingBySnapshot(m) == status[m] = "pending"

\* The re-read of a record when its turn comes.
StillPending(m) == m \in queue /\ status[m] = "pending"

\* The next record: gone, held by its chat, or on to its upload or its send.
Turn ==
    /\ pass = "next" /\ todo # {}
    /\ LET m == Current
       IN \/ /\ ~StillPending(m)
             /\ todo' = todo \ {m} /\ UNCHANGED <<pass, skipped>>
          \/ /\ StillPending(m) /\ ~OnServer(chat[m])
             /\ todo' = todo \ {m} /\ UNCHANGED pass
             /\ skipped' = IF todo = {m} THEN skipped ELSE skipped \cup {m}
          \/ /\ StillPending(m) /\ OnServer(chat[m])
             /\ pass' = IF m \in WithFile \ fileOn THEN "upload" ELSE "send"
             /\ UNCHANGED <<todo, skipped>>
    /\ UNCHANGED <<records, rows, wanted, making, answer, paused, cpause, server,
                   dropped, wish, rest>>

PassEnds ==
    /\ pass = "next" /\ todo = {}
    /\ pass' = "idle"
    /\ UNCHANGED <<records, rows, wanted, making, todo, answer, paused, cpause, server,
                   ghosts, rest>>

\* _isTerminal, or the server has refused often enough.
GivesUp(m, a) == a = "terminal" \/ (a = "refused" /\ refusals[m] + 1 >= RefusalLimit)

\* Faulty variant: a retryable refusal lets the pass go on.
StopsPassNever(m, a) == FALSE

\* Everything behind a record that will be tried again has to wait.
StopsPass(m, a) == ~GivesUp(m, a)

\* recordFailure, and _scheduleRetry where the failure is worth a retry.
Fails(m, a) ==
    /\ status' = IF m \in queue /\ GivesUp(m, a)
                 THEN [status EXCEPT ![m] = "error"] ELSE status
    /\ refusals' = IF m \in queue /\ a # "lost"
                   THEN [refusals EXCEPT ![m] = @ + 1] ELSE refusals
    /\ skipped' = IF GivesUp(m, a) THEN skipped \cup {m} ELSE skipped
    /\ IF StopsPass(m, a)
       THEN /\ pass' = "idle" /\ todo' = {}
            /\ paused' = IF mode = "on" THEN m ELSE paused
       ELSE pass' = "next" /\ todo' = todo \ {m} /\ UNCHANGED paused

\* Faulty variant: no second look at the record after the transfer.
UploadDoneBlind ==
    /\ pass = "upload"
    /\ fileOn' = IF Current \in queue THEN fileOn \cup {Current} ELSE fileOn
    /\ pass' = "send"
    /\ UNCHANGED <<queue, status, refusals, chat, made, rows, wanted, making, todo,
                   answer, paused, cpause, server, ghosts, rest>>

\* The bytes are confirmed: attachFile, and the second re-read.
UploadDone ==
    /\ pass = "upload"
    /\ fileOn' = IF Current \in queue THEN fileOn \cup {Current} ELSE fileOn
    /\ IF StillPending(Current)
       THEN pass' = "send" /\ UNCHANGED todo
       ELSE pass' = "next" /\ todo' = todo \ {Current}
    /\ UNCHANGED <<queue, status, refusals, chat, made, rows, wanted, making,
                   answer, paused, cpause, server, ghosts, rest>>

\* The upload fails; of a record that is gone nothing is left to fail.
UploadFails(a) ==
    /\ pass = "upload"
    /\ a = "lost" => faults < MaxFaults \/ Current \notin queue
    /\ faults' = IF a = "lost" /\ Current \in queue THEN faults + 1 ELSE faults
    /\ IF Current \in queue
       THEN Fails(Current, a)
       ELSE /\ pass' = "next" /\ todo' = todo \ {Current}
            /\ UNCHANGED <<status, refusals, skipped, paused>>
    /\ UNCHANGED <<queue, chat, fileOn, made, rows, wanted, making, answer, cpause,
                   server, dropped, wish, renames, live, mode, echo, stored>>

\* The frame leaves, at once or when the greeting it waits for is done.
SendLeaves ==
    /\ pass = "send" /\ live = "current"
    /\ wire' = wire (+) SetToBag({Current})
    /\ pass' = "sent" /\ answer' = "none"
    /\ UNCHANGED <<records, rows, wanted, making, todo, paused, cpause, log, sname,
                   cwire, oldServer, ghosts, rest>>

\* No connection, or no greeting in time.
SendUnavailable ==
    /\ pass = "send" /\ live = "down"
    /\ pass' = "sent" /\ answer' = "lost"
    /\ UNCHANGED <<records, rows, wanted, making, todo, paused, cpause, server,
                   ghosts, rest>>

\* Faulty variant: the record goes first, the message is stored after.
SendAcceptedEarly ==
    /\ pass = "sent" /\ answer = "ok"
    /\ Remove(Current)
    /\ pass' = "stored" /\ answer' = "none"
    /\ UNCHANGED <<chat, made, rows, wanted, making, todo,
                   paused, cpause, server, ghosts, rest>>

\* sendMessage's tail: the accepted message is stored ...
SendAccepted ==
    /\ pass = "sent" /\ answer = "ok"
    /\ stored' = stored \cup {Current}
    /\ pass' = "stored" /\ answer' = "none"
    /\ UNCHANGED <<records, rows, wanted, making, todo, paused, cpause, server,
                   ghosts, renames, live, mode, echo, faults>>

\* ... and only then its record goes.
Settle ==
    /\ pass = "stored"
    /\ Remove(Current)
    /\ pass' = "next" /\ todo' = todo \ {Current}
    /\ UNCHANGED <<chat, made, rows, wanted, making, answer,
                   paused, cpause, server, ghosts, rest>>

SendFailed ==
    /\ pass = "sent" /\ answer \in {"refused", "terminal", "lost"}
    /\ Fails(Current, answer)
    /\ answer' = "none"
    /\ UNCHANGED <<queue, chat, fileOn, made, rows, wanted, making, cpause,
                   server, dropped, wish, rest>>

(***************************************************************************)
(* The server                                                              *)
(***************************************************************************)

\* What SendMessage, and the checks in front of it, may answer.
SendAnswers(m) ==
    IF InLog(m) THEN {"ok", "refused"}
    ELSE IF sname[chat[m]] = NoName THEN {"refused", "terminal"}
    ELSE {"ok", "refused", "terminal"}

\* What CreateChat may answer: a known id is that chat again, whatever the
\* name; a server that mints ids itself finds its own chat's name taken.
CreateAnswers(c) ==
    IF sname[ServerId(c)] = NoName THEN {"ok", "taken", "refused", "terminal"}
    ELSE IF oldServer THEN {"taken", "refused"} ELSE {"ok", "refused"}

\* A reply reaches the pass unless it answers an earlier request of the same.
Reaches(awaited, copies, a) ==
    \/ awaited /\ answer' = a
    \/ (~awaited \/ copies > 1) /\ UNCHANGED answer

\* One message.send request is taken and answered.
ServerTakes(m) ==
    /\ BagIn(m, wire)
    /\ wire' = wire (-) SetToBag({m})
    /\ \E a \in SendAnswers(m) :
         /\ log' = IF a = "ok" /\ ~InLog(m) THEN Append(log, m) ELSE log
         /\ Reaches(Awaiting /\ pass = "sent" /\ InHand(m), wire[m], a)
    /\ UNCHANGED <<records, rows, wanted, pass, making, todo, paused, cpause, sname,
                   cwire, oldServer, ghosts, rest>>

\* One chat.create request is taken and answered.
ServerCreates(r) ==
    /\ BagIn(r, cwire)
    /\ cwire' = cwire (-) SetToBag({r})
    /\ LET c == r[1]
           awaited == /\ Awaiting /\ pass = "asked"
                      /\ CurrentChat.chat = c /\ CurrentChat.name = r[2]
       IN \E a \in CreateAnswers(c) :
            /\ sname' = IF a = "ok" /\ sname[ServerId(c)] = NoName
                        THEN [sname EXCEPT ![ServerId(c)] = r[2]] ELSE sname
            /\ Reaches(awaited, cwire[r], a)
    /\ UNCHANGED <<records, rows, wanted, pass, making, todo, paused, cpause, log,
                   wire, oldServer, ghosts, rest>>

(***************************************************************************)
(* The journal's events, applied by SyncService                            *)
(***************************************************************************)

\* message.new arrives and is chained behind the applies before it.
EchoArrives(m) ==
    /\ InLog(m) /\ echo[m] = "no" /\ mode = "on"
    /\ echo' = [echo EXCEPT ![m] = "queued"]
    /\ UNCHANGED <<records, rows, drain, server, ghosts, renames, live, mode, stored, faults>>

\* Faulty variant: the record goes before the message is stored.
EchoStoresLate(m) ==
    /\ echo[m] = "queued"
    /\ Remove(m)
    /\ echo' = [echo EXCEPT ![m] = "stored"]
    /\ UNCHANGED <<chat, made, rows, drain, server, ghosts,
                   renames, live, mode, stored, faults>>

\* _applyMessage stores the message ...
EchoStores(m) ==
    /\ echo[m] = "queued"
    /\ stored' = stored \cup {m}
    /\ echo' = [echo EXCEPT ![m] = "stored"]
    /\ UNCHANGED <<records, rows, drain, server, ghosts, renames, live, mode, faults>>

\* ... drops the record it settles, and the cursor moves past it.
EchoSettles(m) ==
    /\ echo[m] = "stored"
    /\ Remove(m)
    /\ echo' = [echo EXCEPT ![m] = "done"]
    /\ UNCHANGED <<chat, made, rows, drain, server, ghosts,
                   renames, live, mode, stored, faults>>

\* _applyChat: the server's row replaces what is there.
ChatEvent(c) ==
    /\ sname[c] # NoName /\ creation[c] # "none" /\ mode = "on"
    /\ creation' = [creation EXCEPT ![c] = "none"]
    /\ name' = [name EXCEPT ![c] = sname[c]]
    /\ attempts' = [attempts EXCEPT ![c] = 0]
    /\ UNCHANGED <<records, born, drain, server, dropped, skipped, wish, rest>>

(***************************************************************************)
(* Restart and logout                                                      *)
(***************************************************************************)

\* The process ends and starts again: the stores are what is left.
Crash ==
    /\ mode = "on" /\ faults < MaxFaults
    /\ faults' = faults + 1
    /\ live' = "down" /\ wanted' = 0
    /\ pass' = "idle" /\ making' = {} /\ todo' = {} /\ answer' = "none"
    /\ paused' = NoMessage /\ cpause' = {}
    /\ renames' = [c \in ChatId |-> NoName]
    /\ echo' = [m \in Message |-> IF echo[m] = "done" THEN "done" ELSE "no"]
    /\ UNCHANGED <<records, rows, server, ghosts, mode, stored>>

\* logout closes the channel, then calls stop().
Stop ==
    /\ mode = "on"
    /\ mode' = "stopping" /\ live' = "down"
    /\ Lose
    /\ UNCHANGED <<records, rows, wanted, pass, making, todo, paused, cpause, server,
                   ghosts, renames, echo, stored, faults>>

\* Everything the wipe empties, once stop() has returned.
Emptied ==
    /\ mode' = "wiped"
    /\ queue' = {} /\ fileOn' = {} /\ stored' = {}
    /\ creation' = [c \in ChatId |-> "absent"]
    /\ paused' = NoMessage /\ cpause' = {}
    /\ echo' = [m \in Message |-> IF echo[m] = "done" THEN "no" ELSE echo[m]]
    /\ dropped' = [m \in Message |-> IF m \in 1 .. made /\ dropped[m] = "no"
                                     THEN "wiped" ELSE dropped[m]]
    /\ UNCHANGED <<status, refusals, chat, made, name, attempts, born, wanted, pass,
                   making, todo, answer, server, skipped, wish, renames, live,
                   faults>>

\* Faulty variant: stop() does not wait for the pass that is running.
WipeAtOnce == mode = "stopping" /\ Emptied

\* stop() waits for the pass that is running; then the stores are emptied.
Wipe == mode = "stopping" /\ pass = "idle" /\ Emptied

(***************************************************************************)
(* The specification                                                       *)
(***************************************************************************)

Person ==
    \/ CreateChat
    \/ \E c \in ChatId : Enqueue(c) \/ RetryCreation(c) \/ RenameReads(c)
    \/ \E m \in Message : Discard(m) \/ Retry(m)

PassStep ==
    \/ PassStarts \/ CreationTurn \/ CreationReply \/ MoveChat \/ AdoptServerChat
    \/ Listing \/ Turn \/ PassEnds
    \/ UploadDone \/ \E a \in {"refused", "terminal", "lost"} : UploadFails(a)
    \/ SendLeaves \/ SendUnavailable \/ SendAccepted \/ Settle \/ SendFailed

Server ==
    \/ \E m \in Message : ServerTakes(m)
    \/ \E r \in BagToSet(cwire) : ServerCreates(r)

Sync ==
    \/ \E m \in Message : EchoArrives(m) \/ EchoStores(m) \/ EchoSettles(m)
    \/ \E c \in ChatId : ChatEvent(c)

OutboxNext ==
    \/ Person \/ PassStep \/ Server \/ Sync
    \/ \E c \in ChatId : RenameWrites(c) \/ CreationTimer(c)
    \/ Connect \/ Drop \/ TimesOut \/ RetryTimer
    \/ Crash \/ Stop \/ Wipe

OutboxSpec == OutboxInit /\ [][OutboxNext]_outboxVars

\* The drain runs, its timers fire, the channel comes back and a request on a
\* live channel is answered.  The person, the faults and the events owe nothing.
OutboxFairness ==
    /\ WF_outboxVars(PassStep)
    /\ WF_outboxVars(Awaiting /\ Server)
    /\ WF_outboxVars(Connect)
    /\ WF_outboxVars(RetryTimer)
    /\ \A c \in ChatId : WF_outboxVars(CreationTimer(c))
    /\ WF_outboxVars(Wipe)

FairOutboxSpec == OutboxSpec /\ OutboxFairness

(***************************************************************************)
(* Properties                                                              *)
(***************************************************************************)

\* A message the person wrote and did not throw away is in the queue, or the
\* server has it and it is in this device's store: remove() comes after the
\* upsert, in the drain and in the applier of its echo, over any restart.
NothingLost ==
    \A m \in 1 .. made :
        dropped[m] = "no" /\ m \notin queue => InLog(m) /\ m \in stored

\* A message thrown away before its send began never reaches the server,
\* whatever the pass had read of the queue before: the re-read at its turn and
\* the one after its upload see the discard.
DiscardHonoured == \A m \in Message : dropped[m] = "early" => ~InLog(m)

\* The server has n before m though m was written first only if m was thrown
\* away, set aside, or passed over while its chat was not on the server: a
\* retryable failure stops the pass, over lost replies and restarts.
QueueOrder ==
    \A i, j \in DOMAIN log :
        i < j /\ log[j] < log[i] => log[j] \in skipped \/ dropped[log[j]] # "no"

\* No request names a chat the server does not have: chats go first, and a
\* message of a chat that is waiting, refused or of a taken name is held.
ChatBeforeMessage == ~oldServer => \A m \in BagToSet(wire) : sname[chat[m]] # NoName

\* After a logout the queue is empty and the store holds nothing that the drain
\* wrote: stop() lets the running pass end before the wipe.
DrainEndsBeforeWipe == mode = "wiped" => queue = {} /\ \A m \in stored : echo[m] # "no"

\* A message that waits is sent, thrown away or set aside, unless its chat is
\* set aside at some time: every pause, failed creation, drop and restart ends in
\* another pass that reaches it.
EventuallySettled ==
    \A m \in Message :
        \/ m \in queue ~> (m \notin queue \/ status[m] = "error")
        \/ <>(m \in queue /\ creation[chat[m]] \in {"failed", "taken"})

(***************************************************************************)
(* What comments and tests say, and the code does not do                   *)
(***************************************************************************)

\* After a logout nothing is written into the stores that were emptied.
WipedStaysEmpty == mode = "wiped" => stored = {}
=============================================================================
