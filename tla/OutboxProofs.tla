---------------------------- MODULE OutboxProofs ----------------------------
(***************************************************************************)
(* What Outbox promises, for any number of messages, chats, renames and    *)
(* faults.                                                                 *)
(*                                                                         *)
(* The argument goes by what can no longer come back: a message that is in *)
(* the server's log, was thrown away, or was set aside once, is Behind the *)
(* ones after it for good, and a pass only sends a message when all those  *)
(* before it are.                                                          *)
(***************************************************************************)
EXTENDS Outbox, FiniteSetTheorems, SequenceTheorems, TLAPS

Passes == {"idle", "creations", "asked", "moving", "adopting", "next", "upload", "send", "sent", "stored"}
Answers == {"none", "ok", "taken", "refused", "terminal", "lost"}
ChatRow == [chat : NewChat, name : Nat, attempts : Nat]

\* What is written, and what the stores and the pass hold of it.
RecordTypeOK ==
    /\ made \in 0 .. Messages /\ queue \subseteq 1 .. made
    /\ status \in [Message -> {"pending", "error"}]
    /\ log \in Seq(Message) /\ Range(log) \subseteq 1 .. made /\ DOMAIN wire \subseteq 1 .. made
    /\ todo \subseteq 1 .. made /\ pass \in Passes /\ answer \in Answers
    /\ skipped \subseteq Message
    /\ dropped \in [Message -> {"no", "sent", "late", "early", "wiped"}]
    /\ echo \in [Message -> {"no", "queued", "stored", "done"}]
    /\ mode \in {"on", "stopping", "wiped"}

ChatTypeOK ==
    /\ born \in 0 .. NewChats /\ oldServer \in BOOLEAN /\ chat \in [Message -> ChatId]
    /\ creation \in [ChatId -> {"absent", "none", "pending", "taken", "failed"}]
    /\ name \in [ChatId -> Nat] /\ attempts \in [ChatId -> Nat] /\ wish \in [ChatId -> Nat]
    /\ renames \in [ChatId -> Nat \cup {NoName}] /\ sname \in [ChatId -> Nat \cup {NoName}]
    /\ making \subseteq ChatRow /\ DOMAIN cwire \subseteq NewChat \X Nat

\* What the pass has in hand, by where it stands.
PassInv ==
    /\ pass # "idle" => mode # "wiped"
    /\ pass \in {"upload", "send", "sent", "stored"} => todo # {}
    /\ pass = "sent" /\ answer = "ok" => InLog(Current)
    /\ pass = "stored" => InLog(Current) /\ Current \in stored

\* What the applier of the journal has done, and what the wipe leaves.
SyncInv ==
    /\ \A m \in Message : echo[m] # "no" => InLog(m)
    /\ mode # "wiped" => \A m \in Message : echo[m] \in {"stored", "done"} => m \in stored
    /\ mode = "wiped" => \A m \in 1 .. made : dropped[m] # "no"
    /\ DrainEndsBeforeWipe

\* Messages thrown away are not written again.
DropInv ==
    \A m \in Message :
        /\ dropped[m] # "no" => m \in 1 .. made /\ m \notin queue
        /\ dropped[m] = "early" =>
             ~InLog(m) /\ ~BagIn(m, wire) /\ ~(InHand(m) /\ pass = "send")

\* Message m cannot come in front of those after it any more, or may.
Behind(m) == m \in skipped \/ dropped[m] # "no" \/ InLog(m)

OrderInv ==
    /\ \A m \in Message : status[m] = "error" => m \in skipped
    /\ \A n \in todo : \A m \in 1 .. n - 1 : m \in todo \/ Behind(m)
    /\ \A n \in DOMAIN wire \cup Range(log) : \A m \in 1 .. n - 1 : Behind(m)

OutboxInv ==
    RecordTypeOK /\ PassInv /\ SyncInv /\ NothingLost /\ DropInv /\ OrderInv /\ QueueOrder

\* The chats, on the server and on their way there.
MakingInv ==
    /\ pass \in {"asked", "moving", "adopting"} => making # {}
    /\ (pass = "asked" /\ answer = "ok") \/ pass \in {"moving", "adopting"} =>
         sname[ServerId(CurrentChat.chat)] # NoName
    /\ pass \in {"moving", "adopting"} => oldServer
    /\ \A c \in ChatId : creation[c] = "none" => sname[c] # NoName

HeldInv ==
    ~oldServer =>
        /\ mode # "wiped" => \A m \in 1 .. made : creation[chat[m]] # "absent"
        /\ pass \in {"upload", "send"} => sname[chat[Current]] # NoName
        /\ ChatBeforeMessage

ChatsInv == ChatTypeOK /\ MakingInv /\ HeldInv

(***************************************************************************)
(* The operators                                                           *)
(***************************************************************************)

\* A set of natural numbers has a least one, which is what Min says it is.
LEMMA LeastOf ==
    ASSUME NEW T, T \subseteq Nat, T # {}
    PROVE  Min(T) \in T /\ \A n \in T : Min(T) <= n
  <1> DEFINE U == {1 .. n : n \in T}
  <1>1. U \subseteq FiniteSubsetsOf(Nat) /\ U # {}
    <2>1. \A n \in T : IsFiniteSet(1 .. n) /\ 1 .. n \subseteq Nat
      BY FS_Interval
    <2> QED BY <2>1 DEF FiniteSubsetsOf
  <1>2. PICK u \in U : \A v \in U : ~(<<v, u>> \in StrictSubsetOrdering(Nat))
    BY <1>1, FS_StrictSubsetOrderingWellFounded, WFMin
  <1>3. PICK n \in T : u = 1 .. n
    OBVIOUS
  <1>4. \A k \in T : n <= k
    <2> SUFFICES ASSUME NEW k \in T, k < n PROVE FALSE
      OBVIOUS
    <2>1. 1 .. k \subseteq 1 .. n /\ n \in 1 .. n /\ n \notin 1 .. k
      OBVIOUS
    <2>2. <<1 .. k, 1 .. n>> \in StrictSubsetOrdering(Nat)
      BY <2>1 DEF StrictSubsetOrdering
    <2>3. 1 .. k \in U
      OBVIOUS
    <2> QED BY <1>2, <1>3, <2>2, <2>3
  <1> QED BY <1>4 DEF Min

\* The record in hand is of the snapshot, and the oldest there.
LEMMA CurrentIs ==
    ASSUME RecordTypeOK, todo # {}
    PROVE  Current \in todo /\ \A n \in todo : Current <= n
  <1>1. todo \subseteq Nat
    BY DEF RecordTypeOK
  <1> QED BY <1>1, LeastOf DEF Current

\* The chat in hand is one of those the pass read.
LEMMA CurrentChatIs ==
    ASSUME ChatTypeOK, making # {}
    PROVE  CurrentChat \in making /\ CurrentChat \in ChatRow
  <1>1. making \subseteq ChatRow /\ NewChat \subseteq Nat
    BY OutboxAssumption DEF ChatTypeOK, NewChat
  <1> DEFINE T == {r.chat : r \in making}
  <1>2. T \subseteq Nat /\ T # {}
    BY <1>1 DEF ChatRow
  <1> HIDE DEF T
  <1>3. PICK n \in T : \A k \in T : n <= k
    BY <1>2, LeastOf
  <1>4. \E r \in making : \A q \in making : r.chat <= q.chat
    BY <1>3 DEF T
  <1> QED BY <1>1, <1>4 DEF CurrentChat

\* A request more, or less, on the way.
LEMMA WireMore ==
    ASSUME NEW B, NEW r
    PROVE  /\ DOMAIN (B (+) SetToBag({r})) = DOMAIN B \cup {r}
           /\ DOMAIN (B (-) SetToBag({r})) \subseteq DOMAIN B
  BY DEF (+), (-), SetToBag

\* A message more in the log.
LEMMA LogMore ==
    ASSUME NEW S, NEW s \in Seq(S), NEW m \in S
    PROVE  /\ Range(Append(s, m)) = Range(s) \cup {m} /\ Append(s, m) \in Seq(S)
           /\ \A i \in DOMAIN Append(s, m) :
                \/ i \in DOMAIN s /\ Append(s, m)[i] = s[i]
                \/ i = Len(s) + 1 /\ Append(s, m)[i] = m /\ \A j \in DOMAIN s : j < i
  <1>1. /\ Append(s, m) \in Seq(S) /\ Len(Append(s, m)) = Len(s) + 1
        /\ \A i \in 1 .. Len(s) : Append(s, m)[i] = s[i]
        /\ Append(s, m)[Len(s) + 1] = m
    BY AppendProperties
  <1>2. /\ Len(s) \in Nat /\ DOMAIN s = 1 .. Len(s) /\ DOMAIN Append(s, m) = 1 .. Len(s) + 1
    BY <1>1
  <1>3. \A i \in 1 .. Len(s) + 1 : i \in 1 .. Len(s) \/ i = Len(s) + 1
    BY <1>2
  <1>4. Range(Append(s, m)) \subseteq Range(s) \cup {m}
    BY <1>1, <1>2, <1>3 DEF Range
  <1>5. Len(s) + 1 \in DOMAIN Append(s, m) /\ DOMAIN s \subseteq DOMAIN Append(s, m)
    BY <1>2
  <1>6. Range(s) \cup {m} \subseteq Range(Append(s, m))
    BY <1>1, <1>2, <1>5 DEF Range
  <1> QED BY <1>1, <1>2, <1>3, <1>4, <1>6

(***************************************************************************)
(* The steps of a message                                                  *)
(***************************************************************************)

\* What a message is past does not come back.
LEMMA BehindStays ==
    ASSUME skipped \subseteq skipped', Range(log) \subseteq Range(log'),
           NEW m, dropped[m] # "no" => dropped'[m] # "no", Behind(m)
    PROVE  Behind(m)'
  BY DEF Behind, InLog

\* The order of a log that did not change.
LEMMA OrderStays ==
    ASSUME QueueOrder, log' = log, skipped \subseteq skipped',
           \A m : dropped[m] # "no" => dropped'[m] # "no"
    PROVE  QueueOrder'
  BY DEF QueueOrder

\* The steps that concern no message: a chat's, a timer's, the channel's, and what
\* the pass does between the messages.
LEMMA QuietKeeps ==
    ASSUME OutboxInv, pass' \in Passes, answer' \in Answers, mode' \in {mode, "stopping"},
           UNCHANGED <<made, queue, status, log, wire, todo, skipped, dropped, echo, stored>>,
           mode = "wiped" => mode' = mode /\ pass' = "idle",
           \/ pass' = pass /\ (answer' = answer \/ answer' # "ok" \/ pass # "sent")
           \/ pass' \in {"idle", "creations", "asked", "moving", "adopting"}
           \/ pass = "send" /\ pass' = "sent" /\ answer' # "ok"
    PROVE  OutboxInv'
  <1>1. Current' = Current /\ \A m : InLog(m)' = InLog(m) /\ InHand(m)' = InHand(m) /\ Behind(m)' = Behind(m)
    BY DEF Current, InLog, InHand, Behind
  <1>2. RecordTypeOK'
    BY DEF OutboxInv, RecordTypeOK
  <1>3. PassInv' /\ SyncInv'
    BY <1>1 DEF OutboxInv, PassInv, SyncInv, DrainEndsBeforeWipe
  <1>4. NothingLost' /\ OrderInv' /\ QueueOrder'
    BY <1>1 DEF OutboxInv, NothingLost, OrderInv, QueueOrder
  <1>5. DropInv'
    BY <1>1 DEF OutboxInv, DropInv, BagIn, BagToSet
  <1> QED BY <1>2, <1>3, <1>4, <1>5 DEF OutboxInv

\* A message is written behind all that were written before.
LEMMA EnqueueKeeps ==
    ASSUME OutboxInv, NEW c \in ChatId, Enqueue(c)
    PROVE  OutboxInv'
  <1>0. /\ mode # "wiped" /\ made < Messages /\ made' = made + 1 /\ queue' = queue \cup {made + 1}
        /\ UNCHANGED <<status, log, wire, todo, skipped, dropped, echo, mode, stored, pass, answer>>
    BY DEF Enqueue, server, ghosts, rest
  <1>1. Current' = Current /\ \A m : InLog(m)' = InLog(m) /\ InHand(m)' = InHand(m) /\ Behind(m)' = Behind(m)
    BY <1>0 DEF Current, InLog, InHand, Behind
  <1>2. made + 1 \in Message /\ 1 .. made \subseteq 1 .. made + 1 /\ made + 1 \notin 1 .. made
    BY <1>0, OutboxAssumption DEF OutboxInv, RecordTypeOK, Message
  <1>3. RecordTypeOK'
    <2>1. made' \in 0 .. Messages
      BY <1>0, OutboxAssumption DEF OutboxInv, RecordTypeOK
    <2> QED BY <1>0, <1>2, <2>1 DEF OutboxInv, RecordTypeOK
  <1>4. PassInv' /\ SyncInv'
    BY <1>0, <1>1 DEF OutboxInv, PassInv, SyncInv, DrainEndsBeforeWipe
  <1>5. \A m \in 1 .. made' : m \in 1 .. made \/ m = made + 1
    BY <1>0 DEF OutboxInv, RecordTypeOK
  <1>6. NothingLost'
    BY <1>0, <1>1, <1>5 DEF OutboxInv, NothingLost
  <1>7. DropInv'
    BY <1>0, <1>1, <1>2 DEF OutboxInv, DropInv, BagIn, BagToSet
  <1>8. OrderInv' /\ QueueOrder'
    BY <1>0, <1>1 DEF OutboxInv, OrderInv, QueueOrder
  <1> QED BY <1>3, <1>4, <1>6, <1>7, <1>8 DEF OutboxInv

\* A message is thrown away; how far it had got is remembered.
LEMMA DiscardKeeps ==
    ASSUME OutboxInv, NEW m \in Message, Discard(m)
    PROVE  OutboxInv'
  <1>0. /\ m \in queue /\ mode # "wiped" /\ queue' = queue \ {m}
        /\ status' = [status EXCEPT ![m] = "pending"] /\ dropped' = [dropped EXCEPT ![m] = StageOf(m)]
        /\ UNCHANGED <<made, log, wire, todo, skipped, echo, mode, stored, pass, answer>>
    BY DEF Discard, Remove, server, rest
  <1>1. Current' = Current /\ \A n : InLog(n)' = InLog(n) /\ InHand(n)' = InHand(n)
    BY <1>0 DEF Current, InLog, InHand
  <1>2. StageOf(m) \in {"sent", "late", "early"}
    BY DEF StageOf
  <1>3. dropped \in [Message -> {"no", "sent", "late", "early", "wiped"}]
        /\ status \in [Message -> {"pending", "error"}]
    BY DEF OutboxInv, RecordTypeOK
  <1>4. /\ \A n \in Message : n # m => dropped'[n] = dropped[n] /\ status'[n] = status[n]
        /\ dropped'[m] = StageOf(m) /\ status'[m] = "pending"
        /\ \A n : dropped[n] # "no" => dropped'[n] # "no"
    BY <1>0, <1>2, <1>3
  <1>5. RecordTypeOK'
    BY <1>0, <1>2, <1>3 DEF OutboxInv, RecordTypeOK
  <1>6. m \in 1 .. made /\ 1 .. made \subseteq Message
    BY <1>0, OutboxAssumption DEF OutboxInv, RecordTypeOK, Message
  <1>7. PassInv' /\ SyncInv' /\ NothingLost'
    <2>1. PassInv'
      BY <1>0, <1>1 DEF OutboxInv, PassInv
    <2>2. SyncInv'
      BY <1>0, <1>1, <1>4, <1>6 DEF OutboxInv, SyncInv, DrainEndsBeforeWipe
    <2>3. NothingLost'
      BY <1>0, <1>1, <1>2, <1>4, <1>6 DEF OutboxInv, NothingLost
    <2> QED BY <2>1, <2>2, <2>3
  <1>8. DropInv'
    BY <1>0, <1>1, <1>4, <1>6 DEF OutboxInv, DropInv, BagIn, BagToSet, StageOf
  <1>9. \A n : Behind(n) => Behind(n)'
    BY <1>0, <1>4, BehindStays
  <1>10. OrderInv' /\ QueueOrder'
    BY <1>0, <1>4, <1>9, OrderStays DEF OutboxInv, OrderInv
  <1> QED BY <1>5, <1>7, <1>8, <1>10 DEF OutboxInv

\* A message set aside is taken up again.
LEMMA RetryKeeps ==
    ASSUME OutboxInv, NEW m \in Message, Retry(m)
    PROVE  OutboxInv'
  <1>0. /\ status' = [status EXCEPT ![m] = "pending"]
        /\ UNCHANGED <<made, queue, log, wire, todo, skipped, dropped, echo, mode, stored, pass, answer>>
    BY DEF Retry, server, ghosts, rest
  <1>1. /\ Current' = Current
        /\ \A n : InLog(n)' = InLog(n) /\ InHand(n)' = InHand(n) /\ Behind(n)' = Behind(n)
    BY <1>0 DEF Current, InLog, InHand, Behind
  <1>2. RecordTypeOK'
    BY <1>0 DEF OutboxInv, RecordTypeOK
  <1>3. PassInv' /\ SyncInv' /\ NothingLost' /\ QueueOrder'
    BY <1>0, <1>1 DEF OutboxInv, PassInv, SyncInv, DrainEndsBeforeWipe, NothingLost, QueueOrder
  <1>4. DropInv'
    BY <1>0, <1>1 DEF OutboxInv, DropInv, BagIn, BagToSet
  <1>5. OrderInv'
    BY <1>0, <1>1 DEF OutboxInv, OrderInv, RecordTypeOK
  <1> QED BY <1>2, <1>3, <1>4, <1>5 DEF OutboxInv

\* The pass reads the queue: what it does not take is behind what it takes.
LEMMA ListingKeeps ==
    ASSUME OutboxInv, Listing, pass' = "next"
    PROVE  OutboxInv'
  <1>0. /\ todo' = Pending /\ mode = "on"
        /\ UNCHANGED <<made, queue, status, log, wire, skipped, dropped, echo, mode, stored, answer>>
    BY DEF Listing, records, server, ghosts, rest
  <1>1. Pending \subseteq queue /\ queue \subseteq 1 .. made /\ made \in Nat /\ 1 .. made \subseteq Message
    BY OutboxAssumption DEF OutboxInv, RecordTypeOK, Pending, Message
  <1>2. \A m : InLog(m)' = InLog(m) /\ Behind(m)' = Behind(m)
    BY <1>0 DEF InLog, Behind
  <1>3. RecordTypeOK'
    BY <1>0, <1>1 DEF OutboxInv, RecordTypeOK, Passes
  <1>4. PassInv' /\ SyncInv' /\ NothingLost' /\ QueueOrder'
    BY <1>0, <1>2 DEF OutboxInv, PassInv, SyncInv, DrainEndsBeforeWipe, NothingLost, QueueOrder
  <1>5. DropInv'
    BY <1>0, <1>2 DEF OutboxInv, DropInv, BagIn, BagToSet
  <1>6. OrderInv'
    <2>1. \A m \in 1 .. made : m \in Pending \/ Behind(m)
      BY <1>1 DEF OutboxInv, NothingLost, OrderInv, Pending, Behind, RecordTypeOK
    <2>2. \A n \in Pending : \A m \in 1 .. n - 1 : m \in 1 .. made
      BY <1>1
    <2> QED BY <1>0, <1>2, <2>1, <2>2 DEF OutboxInv, OrderInv
  <1> QED BY <1>3, <1>4, <1>5, <1>6 DEF OutboxInv

\* The pass is done with the record in hand, which the ones after it need not wait for.
LEMMA PassedOver ==
    ASSUME OutboxInv, NEW m, m = Current, todo # {}, pass # "idle",
           pass' = "next", todo' = todo \ {m},
           UNCHANGED <<made, log, wire, dropped, echo, mode, stored>>, answer' \in Answers,
           \/ queue' = queue
           \/ queue' = queue \ {m} /\ InLog(m) /\ m \in stored,
           skipped \subseteq skipped', skipped' \subseteq skipped \cup {m},
           \/ status' = status
           \/ status' = [status EXCEPT ![m] = "pending"]
           \/ status' = [status EXCEPT ![m] = "error"] /\ m \in skipped',
           Behind(m)' \/ todo' = {}
    PROVE  OutboxInv'
  <1>0. m \in todo /\ m \in Message
    <2>1. RecordTypeOK
      BY DEF OutboxInv
    <2>2. m \in todo /\ todo \subseteq 1 .. made /\ 1 .. made \subseteq Message
      BY <2>1, CurrentIs, OutboxAssumption DEF RecordTypeOK, Message
    <2> QED BY <2>2
  <1>1. \A k : InLog(k)' = InLog(k) /\ (Behind(k) => Behind(k)')
    BY BehindStays DEF InLog
  <1>2. RecordTypeOK'
    BY <1>0 DEF OutboxInv, RecordTypeOK, Passes
  <1>3. PassInv' /\ SyncInv' /\ NothingLost' /\ QueueOrder'
    BY <1>1, OrderStays DEF OutboxInv, PassInv, SyncInv, DrainEndsBeforeWipe, NothingLost
  <1>4. DropInv'
    BY <1>1 DEF OutboxInv, DropInv, BagIn, BagToSet
  <1>5. \A k \in Message : status'[k] = "error" => k \in skipped'
    BY <1>0 DEF OutboxInv, OrderInv, RecordTypeOK
  <1>6. \A n \in todo' : \A k \in 1 .. n - 1 : k \in todo' \/ Behind(k)'
    BY <1>1 DEF OutboxInv, OrderInv
  <1>7. \A n \in DOMAIN wire' \cup Range(log') : \A k \in 1 .. n - 1 : Behind(k)'
    BY <1>1 DEF OutboxInv, OrderInv
  <1>8. OrderInv'
    BY <1>5, <1>6, <1>7 DEF OrderInv
  <1> QED BY <1>2, <1>3, <1>4, <1>8 DEF OutboxInv

\* The pass is broken off, by a failure that is worth a retry or by a restart.
LEMMA PassStops ==
    ASSUME OutboxInv, pass' = "idle", todo' = {}, mode' = mode, answer' \in Answers,
           UNCHANGED <<made, queue, status, log, wire, skipped, dropped, stored>>,
           echo' \in [Message -> {"no", "queued", "stored", "done"}],
           mode # "on" => echo' = echo, \A m \in Message : echo'[m] # "no" => echo'[m] = echo[m]
    PROVE  OutboxInv'
  <1>1. \A m : InLog(m)' = InLog(m) /\ Behind(m)' = Behind(m)
    BY DEF InLog, Behind
  <1>2. RecordTypeOK'
    BY DEF OutboxInv, RecordTypeOK, Passes
  <1>3. PassInv' /\ NothingLost' /\ QueueOrder' /\ OrderInv'
    BY <1>1 DEF OutboxInv, PassInv, NothingLost, QueueOrder, OrderInv
  <1>4. SyncInv'
    BY <1>1 DEF OutboxInv, SyncInv, DrainEndsBeforeWipe
  <1>5. DropInv'
    BY <1>1 DEF OutboxInv, DropInv, BagIn, BagToSet
  <1> QED BY <1>2, <1>3, <1>4, <1>5 DEF OutboxInv

\* The record in hand is read again and found to be there: on to its upload or its send.
LEMMA TakenUp ==
    ASSUME OutboxInv, todo # {}, pass # "idle", Current \in queue, pass' \in {"upload", "send"},
           UNCHANGED <<made, queue, status, log, wire, todo, skipped, dropped, echo, mode, stored, answer>>
    PROVE  OutboxInv'
  <1>1. /\ Current' = Current
        /\ \A m : InLog(m)' = InLog(m) /\ InHand(m)' = InHand(m) /\ Behind(m)' = Behind(m)
    BY DEF Current, InLog, InHand, Behind
  <1>2. RecordTypeOK'
    BY DEF OutboxInv, RecordTypeOK, Passes
  <1>3. PassInv' /\ SyncInv' /\ NothingLost' /\ OrderInv' /\ QueueOrder'
    BY <1>1 DEF OutboxInv, PassInv, SyncInv, DrainEndsBeforeWipe, NothingLost, OrderInv, QueueOrder
  <1>4. DropInv'
    BY <1>1 DEF OutboxInv, DropInv, BagIn, BagToSet, InHand
  <1> QED BY <1>2, <1>3, <1>4 DEF OutboxInv

\* A record of the snapshot that is no longer pending is past waiting for.
LEMMA GoneIsBehind ==
    ASSUME OutboxInv, todo # {}, ~StillPending(Current)
    PROVE  Behind(Current)
  <1>1. RecordTypeOK
    BY DEF OutboxInv
  <1>2. Current \in todo /\ todo \subseteq 1 .. made /\ 1 .. made \subseteq Message
    BY <1>1, CurrentIs, OutboxAssumption DEF RecordTypeOK, Message
  <1> QED BY <1>1, <1>2 DEF OutboxInv, RecordTypeOK, NothingLost, OrderInv, StillPending, Behind

\* A turn of the loop, and the second look after an upload.
LEMMA TurnKeeps ==
    ASSUME OutboxInv, Turn \/ UploadDone
    PROVE  OutboxInv'
  <1>0. /\ UNCHANGED <<made, queue, status, log, wire, dropped, echo, mode, stored, answer>>
        /\ pass \in {"next", "upload"} /\ todo # {}
    BY DEF Turn, UploadDone, records, server, ghosts, rest, OutboxInv, PassInv
  <1>1. /\ answer' \in Answers /\ skipped \subseteq skipped
    BY <1>0 DEF OutboxInv, RecordTypeOK
  <1>2. \/ /\ pass' \in {"upload", "send"} /\ StillPending(Current) /\ UNCHANGED <<todo, skipped>>
        \/ /\ pass' = "next" /\ todo' = todo \ {Current}
           /\ \/ ~StillPending(Current) /\ skipped' = skipped
              \/ skipped' = skipped /\ todo = {Current}
              \/ skipped' = skipped \cup {Current}
    BY DEF Turn, UploadDone, ghosts
  <1>3. CASE pass' \in {"upload", "send"} /\ StillPending(Current) /\ UNCHANGED <<todo, skipped>>
    BY <1>0, <1>3, TakenUp DEF StillPending
  <1>4. CASE /\ pass' = "next" /\ todo' = todo \ {Current}
             /\ \/ ~StillPending(Current) /\ skipped' = skipped
                \/ skipped' = skipped /\ todo = {Current}
                \/ skipped' = skipped \cup {Current}
    <2> DEFINE m == Current
    <2>1. ~StillPending(Current) => Behind(m)
      BY <1>0, GoneIsBehind
    <2> SUFFICES ASSUME NEW k, k = Current PROVE OutboxInv'
      OBVIOUS
    <2>2. skipped \subseteq skipped' /\ skipped' \subseteq skipped \cup {k}
      BY <1>4
    <2>3. Behind(k)' \/ todo' = {}
      BY <1>0, <1>4, <2>1 DEF Behind, InLog
    <2> QED BY <1>0, <1>1, <1>4, <2>2, <2>3, PassedOver
  <1> QED BY <1>2, <1>3, <1>4

\* An upload or a send fails.
LEMMA FailKeeps ==
    ASSUME OutboxInv, SendFailed \/ \E a \in {"refused", "terminal", "lost"} : UploadFails(a)
    PROVE  OutboxInv'
  <1>0. /\ UNCHANGED <<made, queue, log, wire, dropped, echo, mode, stored>>
        /\ pass \in {"sent", "upload"} /\ answer' \in Answers
    BY DEF SendFailed, UploadFails, records, server, ghosts, rest, OutboxInv, RecordTypeOK, Answers
  <1>1. todo # {}
    BY <1>0 DEF OutboxInv, PassInv
  <1> SUFFICES ASSUME NEW k, k = Current PROVE OutboxInv'
    OBVIOUS
  <1>2. \/ /\ pass' = "idle" /\ todo' = {} /\ UNCHANGED <<status, skipped>>
        \/ /\ pass' = "next" /\ todo' = todo \ {k}
           /\ \/ skipped' = skipped \cup {k} /\ status' \in {status, [status EXCEPT ![k] = "error"]}
              \/ UNCHANGED <<skipped, status>> /\ k \notin queue
    BY DEF SendFailed, UploadFails, Fails, StopsPass
  <1>3. CASE pass' = "idle" /\ todo' = {} /\ UNCHANGED <<status, skipped>>
    BY <1>0, <1>3, PassStops DEF OutboxInv, RecordTypeOK
  <1>4. CASE /\ pass' = "next" /\ todo' = todo \ {k}
             /\ \/ skipped' = skipped \cup {k} /\ status' \in {status, [status EXCEPT ![k] = "error"]}
                \/ UNCHANGED <<skipped, status>> /\ k \notin queue
    <2>1. k \notin queue => Behind(k)
      BY <1>1, GoneIsBehind DEF StillPending
    <2>2. Behind(k)'
      BY <1>0, <1>4, <2>1 DEF Behind, InLog
    <2> QED BY <1>0, <1>1, <1>4, <2>2, PassedOver
  <1> QED BY <1>2, <1>3, <1>4

\* The frame leaves: everything before it is past waiting for.
LEMMA SendKeeps ==
    ASSUME OutboxInv, SendLeaves
    PROVE  OutboxInv'
  <1>0. /\ pass = "send" /\ wire' = wire (+) SetToBag({Current}) /\ pass' = "sent" /\ answer' = "none"
        /\ UNCHANGED <<made, queue, status, log, todo, skipped, dropped, echo, mode, stored>>
    BY DEF SendLeaves, records, ghosts, rest
  <1>1. todo # {} /\ RecordTypeOK
    BY <1>0 DEF OutboxInv, PassInv
  <1>2. Current \in todo /\ \A n \in todo : Current <= n
    BY <1>1, CurrentIs
  <1>3. DOMAIN wire' = DOMAIN wire \cup {Current}
    BY <1>0, WireMore
  <1>4. Current' = Current /\ \A m : InLog(m)' = InLog(m) /\ Behind(m)' = Behind(m)
    BY <1>0 DEF Current, InLog, Behind
  <1>5. RecordTypeOK'
    BY <1>0, <1>1, <1>2, <1>3 DEF RecordTypeOK, Passes, Answers
  <1>6. PassInv' /\ SyncInv' /\ NothingLost' /\ QueueOrder'
    BY <1>0, <1>1, <1>4 DEF OutboxInv, PassInv, SyncInv, DrainEndsBeforeWipe, NothingLost, QueueOrder
  <1>7. DropInv'
    BY <1>0, <1>1, <1>3, <1>4 DEF OutboxInv, DropInv, BagIn, BagToSet, InHand
  <1>8. OrderInv'
    <2>1. \A k \in 1 .. Current - 1 : Behind(k)
      <3>1. \A k \in 1 .. Current - 1 : k \notin todo
        BY <1>1, <1>2 DEF RecordTypeOK
      <3> QED BY <1>2, <3>1 DEF OutboxInv, OrderInv
    <2> QED BY <1>0, <1>3, <1>4, <2>1 DEF OutboxInv, OrderInv
  <1> QED BY <1>5, <1>6, <1>7, <1>8 DEF OutboxInv

\* The accepted message is stored, and only then its record goes.
LEMMA AcceptKeeps ==
    ASSUME OutboxInv, SendAccepted \/ Settle
    PROVE  OutboxInv'
  <1>0. RecordTypeOK
    BY DEF OutboxInv
  <1>1. CASE SendAccepted
    <2>0. /\ pass = "sent" /\ answer = "ok" /\ stored' = stored \cup {Current}
          /\ pass' = "stored" /\ answer' = "none"
          /\ UNCHANGED <<made, queue, status, log, wire, todo, skipped, dropped, echo, mode>>
      BY <1>1 DEF SendAccepted, records, server, ghosts
    <2>1. todo # {} /\ InLog(Current) /\ mode # "wiped"
      BY <2>0 DEF OutboxInv, PassInv
    <2>2. /\ Current' = Current
          /\ \A m : InLog(m)' = InLog(m) /\ InHand(m)' = InHand(m) /\ Behind(m)' = Behind(m)
      BY <2>0 DEF Current, InLog, InHand, Behind
    <2>3. RecordTypeOK'
      BY <2>0 DEF OutboxInv, RecordTypeOK, Passes, Answers
    <2>4. PassInv' /\ SyncInv' /\ NothingLost' /\ OrderInv' /\ QueueOrder'
      BY <2>0, <2>1, <2>2 DEF OutboxInv, PassInv, SyncInv, DrainEndsBeforeWipe, NothingLost, OrderInv,
         QueueOrder
    <2>5. DropInv'
      BY <2>0, <2>2 DEF OutboxInv, DropInv, BagIn, BagToSet
    <2> QED BY <2>3, <2>4, <2>5 DEF OutboxInv
  <1>2. CASE Settle
    <2> SUFFICES ASSUME NEW k, k = Current PROVE OutboxInv'
      OBVIOUS
    <2>1. /\ pass = "stored" /\ pass' = "next" /\ todo' = todo \ {k} /\ queue' = queue \ {k}
          /\ status' = [status EXCEPT ![k] = "pending"]
          /\ UNCHANGED <<made, log, wire, skipped, dropped, echo, mode, stored, answer>>
      BY <1>2 DEF Settle, Remove, server, ghosts, rest
    <2>2. todo # {} /\ InLog(k) /\ k \in stored /\ answer' \in Answers
      BY <1>0, <2>1 DEF OutboxInv, PassInv, RecordTypeOK
    <2>3. Behind(k)'
      BY <2>1, <2>2 DEF Behind, InLog
    <2> QED BY <2>1, <2>2, <2>3, PassedOver
  <1> QED BY <1>1, <1>2

\* The server takes a message: whatever it holds from after it had no need to wait.
LEMMA TakeKeeps ==
    ASSUME OutboxInv, NEW m \in Message, ServerTakes(m)
    PROVE  OutboxInv'
  <1>0. /\ m \in DOMAIN wire /\ wire' = wire (-) SetToBag({m})
        /\ \E a \in SendAnswers(m) :
             /\ log' = IF a = "ok" /\ ~InLog(m) THEN Append(log, m) ELSE log
             /\ \/ pass = "sent" /\ InHand(m) /\ answer' = a
                \/ answer' = answer
        /\ UNCHANGED <<made, queue, status, todo, skipped, dropped, echo, mode, stored, pass>>
    BY DEF ServerTakes, Reaches, BagIn, BagToSet, records, ghosts, rest
  <1>1. DOMAIN wire' \subseteq DOMAIN wire
    BY <1>0, WireMore
  <1>2. RecordTypeOK /\ m \in 1 .. made /\ log \in Seq(Message)
    BY <1>0 DEF OutboxInv, RecordTypeOK
  <1>3. /\ log' \in Seq(Message) /\ Range(log) \subseteq Range(log')
        /\ Range(log') \subseteq Range(log) \cup {m}
    BY <1>0, <1>2, LogMore
  <1>4. Current' = Current /\ \A k : InHand(k)' = InHand(k)
    BY <1>0 DEF Current, InHand
  <1>5. \A k : /\ InLog(k) => InLog(k)'
               /\ InLog(k)' => InLog(k) \/ k = m
               /\ Behind(k) => Behind(k)'
    BY <1>0, <1>3 DEF InLog, Behind
  <1>6. answer' \in Answers /\ (answer' = "ok" /\ answer # "ok" => InHand(m) /\ InLog(m)')
    <2>1. \A a \in SendAnswers(m) : a \in Answers
      BY DEF SendAnswers, Answers
    <2>2. CASE InLog(m)
      BY <1>0, <1>2, <1>5, <2>1, <2>2 DEF RecordTypeOK
    <2>3. CASE ~InLog(m)
      <3>1. Range(Append(log, m)) = Range(log) \cup {m}
        BY <1>2, LogMore
      <3> QED BY <1>0, <1>2, <2>1, <2>3, <3>1 DEF RecordTypeOK, InLog
    <2> QED BY <2>2, <2>3
  <1>7. RecordTypeOK'
    BY <1>0, <1>1, <1>2, <1>3, <1>6 DEF RecordTypeOK
  <1>8. PassInv' /\ SyncInv' /\ NothingLost'
    BY <1>0, <1>4, <1>5, <1>6 DEF OutboxInv, PassInv, SyncInv, DrainEndsBeforeWipe, NothingLost, InHand
  <1>9. DropInv'
    BY <1>0, <1>1, <1>4, <1>5 DEF OutboxInv, DropInv, BagIn, BagToSet
  <1>10. OrderInv'
    <2>1. \A k \in 1 .. m - 1 : Behind(k)
      BY <1>0 DEF OutboxInv, OrderInv
    <2> QED BY <1>0, <1>1, <1>3, <1>5, <2>1 DEF OutboxInv, OrderInv
  <1>11. QueueOrder'
    <2>1. CASE log' = log
      BY <1>0, <2>1, OrderStays DEF OutboxInv
    <2>2. CASE log' = Append(log, m) /\ ~InLog(m)
      <3> SUFFICES ASSUME NEW i \in DOMAIN log', NEW j \in DOMAIN log', i < j, log'[j] < log'[i]
                   PROVE  log'[j] \in skipped \/ dropped[log'[j]] # "no"
        BY <1>0 DEF QueueOrder
      <3>0. DOMAIN log = 1 .. Len(log) /\ Len(log) \in Nat
        BY <1>2
      <3>1. /\ \/ i \in DOMAIN log /\ log'[i] = log[i]
               \/ i = Len(log) + 1
            /\ \/ j \in DOMAIN log /\ log'[j] = log[j]
               \/ j = Len(log) + 1 /\ log'[j] = m
        BY <1>2, <2>2, LogMore
      <3>2. i \in DOMAIN log /\ log'[i] = log[i]
        BY <3>0, <3>1
      <3>3. CASE j \in DOMAIN log /\ log'[j] = log[j]
        BY <3>2, <3>3 DEF OutboxInv, QueueOrder
      <3>4. CASE log'[j] = m
        <4>0. log[i] \in Range(log) /\ log[i] \in Message
          BY <1>2, <3>2 DEF Range
        <4>1. log[i] \in Range(log) /\ m \in 1 .. log[i] - 1
          BY <3>2, <3>4, <4>0, OutboxAssumption DEF Message
        <4>2. Behind(m)
          BY <4>1 DEF OutboxInv, OrderInv
        <4> QED BY <2>2, <3>4, <4>2 DEF Behind
      <3> QED BY <3>1, <3>3, <3>4
    <2> QED BY <1>0, <2>1, <2>2
  <1> QED BY <1>7, <1>8, <1>9, <1>10, <1>11 DEF OutboxInv

\* A message's event is queued, applied, and settles its record after the store.
LEMMA EchoKeeps ==
    ASSUME OutboxInv, NEW m \in Message, EchoArrives(m) \/ EchoStores(m) \/ EchoSettles(m)
    PROVE  OutboxInv'
  <1>0. /\ UNCHANGED <<made, log, wire, todo, skipped, dropped, pass, answer, mode>>
        /\ \A k \in Message : k # m => echo'[k] = echo[k]
    BY DEF EchoArrives, EchoStores, EchoSettles, records, server, drain, ghosts, OutboxInv, RecordTypeOK
  <1>1. /\ Current' = Current
        /\ \A k : InLog(k)' = InLog(k) /\ InHand(k)' = InHand(k) /\ Behind(k)' = Behind(k)
    BY <1>0 DEF Current, InLog, InHand, Behind
  <1>2. echo \in [Message -> {"no", "queued", "stored", "done"}]
        /\ status \in [Message -> {"pending", "error"}]
    BY DEF OutboxInv, RecordTypeOK
  <1>3. QueueOrder'
    BY <1>0, OrderStays DEF OutboxInv
  <1>4. CASE EchoArrives(m)
    <2>0. /\ InLog(m) /\ mode = "on" /\ echo' = [echo EXCEPT ![m] = "queued"]
          /\ UNCHANGED <<queue, status, stored>>
      BY <1>4 DEF EchoArrives, records
    <2>1. RecordTypeOK' /\ PassInv' /\ NothingLost' /\ OrderInv'
      BY <1>0, <1>1, <1>2, <2>0 DEF OutboxInv, RecordTypeOK, PassInv, NothingLost, OrderInv
    <2>2. SyncInv'
      BY <1>0, <1>1, <1>2, <2>0 DEF OutboxInv, SyncInv, DrainEndsBeforeWipe
    <2>3. DropInv'
      BY <1>0, <1>1, <2>0 DEF OutboxInv, DropInv, BagIn, BagToSet
    <2> QED BY <1>3, <2>1, <2>2, <2>3 DEF OutboxInv
  <1>5. CASE EchoStores(m)
    <2>0. /\ echo[m] = "queued" /\ echo' = [echo EXCEPT ![m] = "stored"]
          /\ stored' = stored \cup {m} /\ UNCHANGED <<queue, status>>
      BY <1>5 DEF EchoStores, records
    <2>1. RecordTypeOK' /\ PassInv' /\ NothingLost' /\ OrderInv'
      BY <1>0, <1>1, <1>2, <2>0 DEF OutboxInv, RecordTypeOK, PassInv, NothingLost, OrderInv
    <2>2. SyncInv'
      BY <1>0, <1>1, <1>2, <2>0 DEF OutboxInv, SyncInv, DrainEndsBeforeWipe
    <2>3. DropInv'
      BY <1>0, <1>1, <2>0 DEF OutboxInv, DropInv, BagIn, BagToSet
    <2> QED BY <1>3, <2>1, <2>2, <2>3 DEF OutboxInv
  <1>6. CASE EchoSettles(m)
    <2>0. /\ echo[m] = "stored" /\ echo' = [echo EXCEPT ![m] = "done"] /\ queue' = queue \ {m}
          /\ status' = [status EXCEPT ![m] = "pending"] /\ stored' = stored
      BY <1>6 DEF EchoSettles, Remove
    <2>1. RecordTypeOK' /\ PassInv' /\ OrderInv'
      BY <1>0, <1>1, <1>2, <2>0 DEF OutboxInv, RecordTypeOK, PassInv, OrderInv
    <2>2. SyncInv'
      BY <1>0, <1>1, <1>2, <2>0 DEF OutboxInv, SyncInv, DrainEndsBeforeWipe
    <2>3. NothingLost'
      BY <1>0, <1>1, <1>2, <2>0 DEF OutboxInv, SyncInv, NothingLost
    <2>4. DropInv'
      BY <1>0, <1>1, <2>0 DEF OutboxInv, DropInv, BagIn, BagToSet
    <2> QED BY <1>3, <2>1, <2>2, <2>3, <2>4 DEF OutboxInv
  <1> QED BY <1>4, <1>5, <1>6

\* The stores are emptied, once the pass that ran is over.
LEMMA WipeKeeps ==
    ASSUME OutboxInv, Wipe
    PROVE  OutboxInv'
  <1>0. /\ pass = "idle" /\ mode' = "wiped" /\ queue' = {} /\ stored' = {}
        /\ echo' = [m \in Message |-> IF echo[m] = "done" THEN "no" ELSE echo[m]]
        /\ dropped' = [m \in Message |-> IF m \in 1 .. made /\ dropped[m] = "no" THEN "wiped" ELSE dropped[m]]
        /\ UNCHANGED <<made, status, log, wire, todo, skipped, pass, answer>>
    BY DEF Wipe, Emptied, server
  <1>1. 1 .. made \subseteq Message
    BY OutboxAssumption DEF OutboxInv, RecordTypeOK, Message
  <1>2. /\ Current' = Current
        /\ \A k : InLog(k)' = InLog(k) /\ InHand(k)' = InHand(k)
        /\ \A k \in Message : Behind(k) => Behind(k)'
    BY <1>0 DEF Current, InLog, InHand, Behind
  <1>3. RecordTypeOK'
    BY <1>0 DEF OutboxInv, RecordTypeOK
  <1>4. PassInv' /\ SyncInv' /\ NothingLost'
    BY <1>0, <1>1, <1>2, <1>3 DEF OutboxInv, PassInv, SyncInv, DrainEndsBeforeWipe, NothingLost
  <1>5. DropInv'
    BY <1>0, <1>1, <1>2 DEF OutboxInv, DropInv, BagIn, BagToSet
  <1>6. OrderInv'
    <2>1. \A n \in todo \cup DOMAIN wire \cup Range(log) : \A m \in 1 .. n - 1 : m \in Message
      BY <1>1 DEF OutboxInv, RecordTypeOK
    <2> QED BY <1>0, <1>2, <2>1 DEF OutboxInv, OrderInv
  <1>7. QueueOrder'
    <2>1. \A i \in DOMAIN log : log[i] \in Message
      BY DEF OutboxInv, RecordTypeOK
    <2> QED BY <1>0, <2>1 DEF OutboxInv, QueueOrder
  <1> QED BY <1>3, <1>4, <1>5, <1>6, <1>7 DEF OutboxInv

\* The steps that concern no message, by what each changes that is looked at here.
LEMMA QuietSteps ==
    ASSUME OutboxInv,
           \/ CreateChat \/ \E c \in ChatId : RetryCreation(c) \/ RenameReads(c) \/ RenameWrites(c)
           \/ Connect \/ Drop \/ TimesOut \/ RetryTimer \/ \E c \in ChatId : CreationTimer(c)
           \/ PassStarts \/ CreationTurn \/ CreationReply \/ MoveChat \/ AdoptServerChat
           \/ PassEnds \/ SendUnavailable \/ \E c \in ChatId : ChatEvent(c)
           \/ \E r \in BagToSet(cwire) : ServerCreates(r)
           \/ Stop
    PROVE  OutboxInv'
  <1>0. pass \in Passes /\ answer \in Answers /\ mode \in {"on", "stopping", "wiped"}
        /\ (pass # "idle" => mode # "wiped")
    BY DEF OutboxInv, RecordTypeOK, PassInv
  <1> USE DEF Passes, Answers
  <1>1. CASE \/ CreateChat \/ \E c \in ChatId : RetryCreation(c) \/ RenameReads(c) \/ RenameWrites(c)
             \/ Connect \/ RetryTimer \/ \E c \in ChatId : CreationTimer(c)
             \/ \E c \in ChatId : ChatEvent(c)
    <2>1. UNCHANGED <<made, queue, status, log, wire, todo, skipped, dropped, echo, stored, pass, answer, mode>>
      BY <1>1 DEF CreateChat, RetryCreation, RenameReads, RenameWrites, Connect, RetryTimer,
         CreationTimer, ChatEvent, records, server, drain, ghosts, rest
    <2> QED BY <1>0, <2>1, QuietKeeps
  <1>2. CASE Drop \/ TimesOut \/ Stop
    <2>1. /\ UNCHANGED <<made, queue, status, log, wire, todo, skipped, dropped, echo, stored, pass>>
          /\ answer' \in {answer, "lost"}
          /\ mode' = mode \/ (mode = "on" /\ mode' = "stopping")
      BY <1>2 DEF Drop, TimesOut, Stop, Lose, records, server, ghosts
    <2> QED BY <1>0, <2>1, QuietKeeps
  <1>3. CASE PassStarts \/ CreationTurn \/ CreationReply \/ MoveChat \/ AdoptServerChat \/ PassEnds
    <2>1. /\ UNCHANGED <<made, queue, status, log, wire, todo, skipped, dropped, echo, stored, mode>>
          /\ answer' \in {answer, "none"}
      BY <1>3 DEF PassStarts, CreationTurn, CreationReply, MoveChat, AdoptServerChat, PassEnds,
         records, server, ghosts, rest
    <2>2. /\ pass' \in {"idle", "creations", "asked", "moving", "adopting"}
          /\ (mode = "wiped" => pass' = "idle")
      BY <1>0, <1>3 DEF PassStarts, CreationTurn, CreationReply, MoveChat, AdoptServerChat, PassEnds
    <2> QED BY <1>0, <2>1, <2>2, QuietKeeps
  <1>4. CASE SendUnavailable
    <2>1. /\ UNCHANGED <<made, queue, status, log, wire, todo, skipped, dropped, echo, stored, mode>>
          /\ pass = "send" /\ pass' = "sent" /\ answer' = "lost"
      BY <1>4 DEF SendUnavailable, records, server, ghosts, rest
    <2> QED BY <1>0, <2>1, QuietKeeps
  <1>5. CASE \E r \in BagToSet(cwire) : ServerCreates(r)
    <2>1. /\ UNCHANGED <<made, queue, status, log, wire, todo, skipped, dropped, echo, stored, mode, pass>>
          /\ answer' = answer \/ (pass = "asked" /\ answer' \in {"ok", "taken", "refused", "terminal"})
      BY <1>5 DEF ServerCreates, CreateAnswers, Reaches, records, ghosts, rest
    <2> QED BY <1>0, <2>1, QuietKeeps
  <1> QED BY <1>1, <1>2, <1>3, <1>4, <1>5

\* Every step keeps the messages in order.
LEMMA OutboxKeeps ==
    ASSUME OutboxInv, [OutboxNext]_outboxVars
    PROVE  OutboxInv'
  <1>1. CASE Person
    BY <1>1, QuietSteps, EnqueueKeeps, DiscardKeeps, RetryKeeps DEF Person
  <1>2. CASE PassStep
    <2>1. CASE Listing
      <3>1. CASE pass' = "next"
        BY <2>1, <3>1, ListingKeeps
      <3>2. CASE pass' = "idle"
        <4>1. /\ UNCHANGED <<made, queue, status, log, wire, todo, skipped, dropped, echo, stored, mode, answer>>
          BY <2>1, <3>2 DEF Listing, records, server, ghosts, rest
        <4> QED BY <3>2, <4>1, QuietKeeps DEF OutboxInv, RecordTypeOK, Passes
      <3> QED BY <2>1, <3>1, <3>2 DEF Listing
    <2> QED BY <1>2, <2>1, QuietSteps, TurnKeeps, FailKeeps, SendKeeps, AcceptKeeps DEF PassStep
  <1>3. CASE Server
    BY <1>3, TakeKeeps, QuietSteps DEF Server
  <1>4. CASE Sync
    BY <1>4, EchoKeeps, QuietSteps DEF Sync
  <1>5. CASE \E c \in ChatId : RenameWrites(c) \/ CreationTimer(c)
    BY <1>5, QuietSteps
  <1>6. CASE Connect \/ Drop \/ TimesOut \/ RetryTimer \/ Stop
    BY <1>6, QuietSteps
  <1>7. CASE Crash
    <2>1. /\ UNCHANGED <<made, queue, status, log, wire, skipped, dropped, stored, mode>> /\ mode = "on"
          /\ pass' = "idle" /\ todo' = {} /\ answer' = "none"
          /\ echo' = [m \in Message |-> IF echo[m] = "done" THEN "done" ELSE "no"]
      BY <1>7 DEF Crash, records, server, ghosts
    <2>2. /\ echo' \in [Message -> {"no", "queued", "stored", "done"}]
          /\ \A m \in Message : echo'[m] # "no" => echo'[m] = echo[m]
          /\ answer' \in Answers
      BY <2>1 DEF Answers
    <2> QED BY <2>1, <2>2, PassStops
  <1>8. CASE Wipe
    BY <1>8, WipeKeeps
  <1>9. CASE UNCHANGED outboxVars
    <2>1. UNCHANGED <<made, queue, status, log, wire, todo, skipped, dropped, echo, stored, mode, pass, answer>>
      BY <1>9 DEF outboxVars, records, server, drain, ghosts, rest
    <2> QED BY <2>1, QuietKeeps DEF OutboxInv, RecordTypeOK, PassInv
  <1> QED BY <1>1, <1>2, <1>3, <1>4, <1>5, <1>6, <1>7, <1>8, <1>9 DEF OutboxNext

\* What is written, thrown away, on the way and in the server's log stays in this
\* relation, whatever the person, the connection, the pass and the restarts do.
THEOREM OutboxInductive == OutboxSpec => []OutboxInv
  <1>1. OutboxInit => OutboxInv
    <2> SUFFICES ASSUME OutboxInit PROVE OutboxInv
      OBVIOUS
    <2>1. DOMAIN wire = {} /\ Range(log) = {} /\ DOMAIN log = {}
      BY DEF OutboxInit, EmptyBag, SetToBag, Range
    <2>2. RecordTypeOK
      BY <2>1, OutboxAssumption DEF OutboxInit, RecordTypeOK, Passes, Answers, Message
    <2>3. PassInv /\ SyncInv /\ NothingLost /\ DropInv /\ QueueOrder
      BY <2>1 DEF OutboxInit, PassInv, SyncInv, DrainEndsBeforeWipe, NothingLost, DropInv, QueueOrder
    <2>4. OrderInv
      BY <2>1 DEF OutboxInit, OrderInv
    <2> QED BY <2>2, <2>3, <2>4 DEF OutboxInv
  <1>2. OutboxInv /\ [OutboxNext]_outboxVars => OutboxInv'
    BY OutboxKeeps
  <1> QED BY <1>1, <1>2, PTL DEF OutboxSpec

\* A message the person wrote and did not throw away is in the queue, or in the
\* server's log and in this device's store, for any number of them.
THEOREM NothingLostAlways == OutboxSpec => []NothingLost
  <1>1. OutboxInv => NothingLost
    BY DEF OutboxInv
  <1> QED BY <1>1, OutboxInductive, PTL

\* A message thrown away before its send began never reaches the server.
THEOREM DiscardHonouredAlways == OutboxSpec => []DiscardHonoured
  <1>1. OutboxInv => DiscardHonoured
    BY DEF OutboxInv, DropInv, DiscardHonoured
  <1> QED BY <1>1, OutboxInductive, PTL

\* The server's log overtakes a message only if it was thrown away or passed over.
THEOREM QueueOrderAlways == OutboxSpec => []QueueOrder
  <1>1. OutboxInv => QueueOrder
    BY DEF OutboxInv
  <1> QED BY <1>1, OutboxInductive, PTL

\* After a logout the store holds nothing that the drain wrote.
THEOREM DrainEndsBeforeWipeAlways == OutboxSpec => []DrainEndsBeforeWipe
  <1>1. OutboxInv => DrainEndsBeforeWipe
    BY DEF OutboxInv, SyncInv
  <1> QED BY <1>1, OutboxInductive, PTL

(***************************************************************************)
(* The steps of a chat                                                     *)
(***************************************************************************)

chatVars == <<born, oldServer, chat, creation, name, attempts, wish, renames, sname, making, cwire>>

\* The steps of the messages, of the channel and of the timers leave the chats alone.
LEMMA MessageSteps ==
    ASSUME \/ \E m \in Message : Discard(m) \/ Retry(m)
           \/ Connect \/ Drop \/ TimesOut \/ RetryTimer \/ \E c \in ChatId : CreationTimer(c)
           \/ Listing \/ Turn \/ PassEnds \/ UploadDone
           \/ \E a \in {"refused", "terminal", "lost"} : UploadFails(a)
           \/ SendLeaves \/ SendUnavailable \/ SendAccepted \/ Settle \/ SendFailed
           \/ \E m \in Message : ServerTakes(m)
           \/ \E m \in Message : EchoArrives(m) \/ EchoStores(m) \/ EchoSettles(m)
           \/ Stop
    PROVE  /\ UNCHANGED <<chatVars, made>>
           /\ pass' \in {"asked", "moving", "adopting"} => pass' = pass /\ (answer' = "ok" => answer = "ok")
           /\ mode' = mode \/ (mode = "on" /\ mode' = "stopping")
  <1> USE DEF chatVars, records, rows, server, drain, ghosts, rest
  <1>1. CASE \E m \in Message : Discard(m) \/ Retry(m)
    BY <1>1 DEF Discard, Retry
  <1>2. CASE Connect \/ Drop \/ TimesOut \/ RetryTimer \/ Stop \/ \E c \in ChatId : CreationTimer(c)
    BY <1>2 DEF Connect, Drop, TimesOut, RetryTimer, Stop, CreationTimer, Lose
  <1>3. CASE Listing \/ Turn \/ PassEnds
    BY <1>3 DEF Listing, Turn, PassEnds
  <1>4. CASE \/ UploadDone \/ \E a \in {"refused", "terminal", "lost"} : UploadFails(a)
    BY <1>4 DEF UploadDone, UploadFails, Fails
  <1>5. CASE SendLeaves \/ SendUnavailable \/ SendAccepted \/ Settle \/ SendFailed
    BY <1>5 DEF SendLeaves, SendUnavailable, SendAccepted, Settle, SendFailed, Fails
  <1>6. CASE \E m \in Message : ServerTakes(m)
    BY <1>6 DEF ServerTakes, Reaches
  <1>7. CASE \E m \in Message : EchoArrives(m) \/ EchoStores(m) \/ EchoSettles(m)
    BY <1>7 DEF EchoArrives, EchoStores, EchoSettles
  <1> QED BY <1>1, <1>2, <1>3, <1>4, <1>5, <1>6, <1>7

\* The steps that do concern the chats, and the two that end everything.
ChatStep ==
    \/ CreateChat
    \/ \E c \in ChatId : Enqueue(c) \/ RetryCreation(c) \/ RenameReads(c) \/ RenameWrites(c) \/ ChatEvent(c)
    \/ PassStarts \/ CreationTurn \/ CreationReply \/ MoveChat \/ AdoptServerChat
    \/ \E r \in BagToSet(cwire) : ServerCreates(r)
    \/ Crash \/ Wipe

\* Where a chat's id may lead.
LEMMA ChatIds ==
    /\ NewChat \subseteq ChatId /\ NewChat \subseteq Nat
    /\ \A c \in NewChat : ServerId(c) \in ChatId /\ (~oldServer => ServerId(c) = c)
  BY OutboxAssumption DEF NewChat, ChatId, ServerId

\* The rows keep their shape.
LEMMA ChatTypeKeeps ==
    ASSUME ChatTypeOK, MakingInv, ChatStep
    PROVE  ChatTypeOK'
  <1> USE DEF ChatTypeOK, rows, records, server, drain, ghosts, rest, NoName
  <1>1. CASE CreateChat
    <2>1. born + 1 \in 0 .. NewChats
      BY <1>1, OutboxAssumption DEF CreateChat
    <2> QED BY <1>1, <2>1 DEF CreateChat
  <1>2. CASE \E c \in ChatId : Enqueue(c) \/ RetryCreation(c) \/ RenameReads(c)
    BY <1>2 DEF Enqueue, RetryCreation, RenameReads
  <1>3. CASE \E c \in ChatId : RenameWrites(c) \/ ChatEvent(c)
    BY <1>3 DEF RenameWrites, ChatEvent
  <1>4. CASE PassStarts
    <2>1. PendingCreations \subseteq ChatRow
      BY ChatIds DEF PendingCreations, Row, ChatRow
    <2> QED BY <1>4, <2>1 DEF PassStarts
  <1>5. CASE CreationTurn
    <2>1. making # {} /\ CurrentChat \in ChatRow
      BY <1>5, CurrentChatIs DEF CreationTurn
    <2>2. <<CurrentChat.chat, CurrentChat.name>> \in NewChat \X Nat
      BY <2>1 DEF ChatRow
    <2>3. DOMAIN (cwire (+) SetToBag({<<CurrentChat.chat, CurrentChat.name>>}))
            = DOMAIN cwire \cup {<<CurrentChat.chat, CurrentChat.name>>}
      BY WireMore
    <2>4. DOMAIN cwire' \subseteq NewChat \X Nat /\ making' \subseteq ChatRow
      BY <1>5, <2>2, <2>3 DEF CreationTurn
    <2> QED BY <1>5, <2>4 DEF CreationTurn
  <1>6. CASE CreationReply
    <2>0. making # {} /\ (answer = "ok" => sname[ServerId(CurrentChat.chat)] # NoName)
      BY <1>6 DEF CreationReply, MakingInv
    <2> SUFFICES ASSUME NEW k, k = CurrentChat PROVE ChatTypeOK'
      OBVIOUS
    <2>1. k.chat \in NewChat /\ k.chat \in ChatId /\ k.attempts \in Nat
      BY <2>0, CurrentChatIs, ChatIds DEF ChatRow
    <2>2. answer = "ok" /\ ~oldServer => sname[k.chat] \in Nat
      BY <2>0, <2>1, ChatIds
    <2>3. UNCHANGED <<born, oldServer, chat, wish, renames, sname, cwire>> /\ making' \subseteq making
      BY <1>6 DEF CreationReply
    <2>4. \/ UNCHANGED <<creation, name, attempts>>
          \/ Created(k.chat) /\ answer = "ok" /\ ~oldServer
          \/ \E s \in {"taken", "failed", "pending"}, n \in Nat : Mark(k.chat, s, n)
      BY <1>6, <2>1 DEF CreationReply
    <2>5. /\ creation' \in [ChatId -> {"absent", "none", "pending", "taken", "failed"}]
          /\ name' \in [ChatId -> Nat] /\ attempts' \in [ChatId -> Nat]
      BY <2>1, <2>2, <2>4 DEF Created, Mark
    <2> QED BY <2>3, <2>5
  <1>7. CASE MoveChat
    <2> SUFFICES ASSUME NEW k, k = CurrentChat PROVE ChatTypeOK'
      OBVIOUS
    <2>1. making # {}
      BY <1>7 DEF MoveChat, MakingInv
    <2>2. k.chat \in NewChat /\ ServerId(k.chat) \in ChatId
      BY <2>1, CurrentChatIs, ChatIds DEF ChatRow
    <2>3. chat' = [m \in Message |-> IF m \in queue /\ chat[m] = k.chat THEN ServerId(chat[m]) ELSE chat[m]]
      BY <1>7 DEF MoveChat
    <2>4. chat' \in [Message -> ChatId]
      BY <2>2, <2>3
    <2> QED BY <1>7, <2>4 DEF MoveChat
  <1>8. CASE AdoptServerChat
    <2> SUFFICES ASSUME NEW k, k = CurrentChat PROVE ChatTypeOK'
      OBVIOUS
    <2>1. making # {} /\ sname[ServerId(k.chat)] # NoName
      BY <1>8 DEF AdoptServerChat, MakingInv
    <2>2. k.chat \in NewChat /\ ServerId(k.chat) \in ChatId
      BY <2>1, CurrentChatIs, ChatIds DEF ChatRow
    <2>3. sname[ServerId(k.chat)] \in Nat
      BY <2>1, <2>2
    <2> QED BY <1>8, <2>2, <2>3 DEF AdoptServerChat
  <1>9. CASE \E r \in BagToSet(cwire) : ServerCreates(r)
    <2>1. PICK r \in DOMAIN cwire : ServerCreates(r)
      BY <1>9 DEF BagToSet
    <2>2. r[2] \in Nat /\ DOMAIN cwire' \subseteq DOMAIN cwire
      BY <2>1, WireMore DEF ServerCreates
    <2>3. sname' = sname \/ sname' = [sname EXCEPT ![ServerId(r[1])] = r[2]]
      BY <2>1 DEF ServerCreates
    <2>4. sname' \in [ChatId -> Nat \cup {NoName}]
      BY <2>2, <2>3
    <2>5. UNCHANGED <<born, oldServer, chat, creation, name, attempts, wish, renames, making>>
      BY <2>1 DEF ServerCreates
    <2> QED BY <2>2, <2>4, <2>5
  <1>10. CASE Crash
    BY <1>10 DEF Crash
  <1>11. CASE Wipe
    BY <1>11 DEF Wipe, Emptied
  <1> QED BY <1>1, <1>2, <1>3, <1>4, <1>5, <1>6, <1>7, <1>8, <1>9, <1>10, <1>11 DEF ChatStep

\* What the server has made it keeps.
LEMMA NamesStay ==
    ASSUME ChatTypeOK, ChatStep
    PROVE  oldServer' = oldServer /\ \A c \in ChatId : sname[c] # NoName => sname'[c] # NoName
  <1>1. CASE \E r \in BagToSet(cwire) : ServerCreates(r)
    <2>1. PICK r \in DOMAIN cwire : ServerCreates(r)
      BY <1>1 DEF BagToSet
    <2>2. r[2] \in Nat /\ sname \in [ChatId -> Nat \cup {NoName}]
      BY DEF ChatTypeOK
    <2>3. sname' = sname \/ sname' = [sname EXCEPT ![ServerId(r[1])] = r[2]]
      BY <2>1 DEF ServerCreates
    <2>4. oldServer' = oldServer
      BY <2>1 DEF ServerCreates
    <2> QED BY <2>2, <2>3, <2>4 DEF NoName
  <1>2. CASE ~\E r \in BagToSet(cwire) : ServerCreates(r)
    BY <1>2 DEF ChatStep, CreateChat, Enqueue, RetryCreation, RenameReads, RenameWrites, ChatEvent,
       PassStarts, CreationTurn, CreationReply, MoveChat, AdoptServerChat, Crash, Wipe, Emptied, server
  <1> QED BY <1>1, <1>2

\* A chat this device takes for the server's is there, and a reply that says so is true.
LEMMA MakingKeeps ==
    ASSUME ChatTypeOK, MakingInv, ChatStep
    PROVE  MakingInv'
  <1>0. oldServer' = oldServer /\ \A c \in ChatId : sname[c] # NoName => sname'[c] # NoName
    BY NamesStay
  <1>1. \A c : ServerId(c)' = ServerId(c)
    BY <1>0 DEF ServerId
  <1>11. making # {} => CurrentChat.chat \in NewChat /\ ServerId(CurrentChat.chat) \in ChatId
    BY CurrentChatIs, ChatIds DEF ChatRow
  <1> USE DEF MakingInv, rows, records, server, drain, ghosts, rest
  <1>2. CASE CreateChat \/ \E c \in ChatId : Enqueue(c) \/ RetryCreation(c) \/ RenameReads(c) \/ RenameWrites(c) \/ ChatEvent(c)
    <2>1. UNCHANGED <<pass, answer, making, sname>> /\ CurrentChat' = CurrentChat
      BY <1>2 DEF CreateChat, Enqueue, RetryCreation, RenameReads, RenameWrites, ChatEvent, CurrentChat
    <2>2. \A c \in ChatId : creation'[c] = "none" => creation[c] = "none" \/ sname[c] # NoName
      BY <1>2 DEF CreateChat, Enqueue, RetryCreation, RenameReads, RenameWrites, ChatEvent, ChatTypeOK
    <2> QED BY <1>0, <1>1, <2>1, <2>2
  <1>3. CASE PassStarts
    BY <1>0, <1>3 DEF PassStarts
  <1>4. CASE CreationTurn
    <2>1. CurrentChat' = CurrentChat \/ pass' = "creations"
      BY <1>4 DEF CreationTurn, CurrentChat
    <2> QED BY <1>0, <1>4, <2>1 DEF CreationTurn
  <1>5. CASE CreationReply
    <2>0. making # {} /\ pass = "asked"
      BY <1>5 DEF CreationReply
    <2> SUFFICES ASSUME NEW k, k = CurrentChat PROVE MakingInv'
      OBVIOUS
    <2>1. k.chat \in NewChat /\ k.chat \in ChatId
      BY <2>0, CurrentChatIs, ChatIds DEF ChatRow
    <2>2. /\ sname' = sname /\ answer' = "none"
          /\ \/ /\ pass' = "moving" /\ answer = "ok" /\ oldServer /\ UNCHANGED <<creation, making>>
             \/ /\ pass' = "creations"
                /\ \/ Created(k.chat) /\ answer = "ok" /\ ~oldServer
                   \/ \E s \in {"taken", "failed", "pending"} : \E n : Mark(k.chat, s, n)
      BY <1>5 DEF CreationReply
    <2>3. making' = making => CurrentChat' = CurrentChat
      BY DEF CurrentChat
    <2>4. \A c \in ChatId : creation'[c] = "none" => sname[c] # NoName
      BY <2>0, <2>1, <2>2, ChatIds DEF ChatTypeOK, Created, Mark
    <2> QED BY <1>0, <1>1, <2>0, <2>2, <2>3, <2>4
  <1>6. CASE MoveChat
    <2>1. UNCHANGED <<making, sname, creation>> /\ CurrentChat' = CurrentChat /\ pass = "moving" /\ pass' = "adopting"
      BY <1>6 DEF MoveChat, CurrentChat
    <2> QED BY <1>0, <1>1, <2>1
  <1>7. CASE AdoptServerChat
    BY <1>0, <1>7 DEF AdoptServerChat, ChatTypeOK
  <1>8. CASE \E r \in BagToSet(cwire) : ServerCreates(r)
    <2>1. PICK r \in DOMAIN cwire : ServerCreates(r)
      BY <1>8 DEF BagToSet
    <2>2. UNCHANGED <<pass, making, creation>> /\ CurrentChat' = CurrentChat
      BY <2>1 DEF ServerCreates, CurrentChat
    <2>3. answer' = answer \/ (answer' = "ok" => CurrentChat.chat = r[1] /\ sname'[ServerId(r[1])] # NoName)
      <3>1. r[1] \in NewChat /\ r[2] \in Nat /\ ServerId(r[1]) \in ChatId
        BY ChatIds DEF ChatTypeOK
      <3>2. PICK a \in CreateAnswers(r[1]) :
              /\ sname' = IF a = "ok" /\ sname[ServerId(r[1])] = NoName
                          THEN [sname EXCEPT ![ServerId(r[1])] = r[2]] ELSE sname
              /\ answer' = answer \/ (CurrentChat.chat = r[1] /\ answer' = a)
        BY <2>1 DEF ServerCreates, Reaches
      <3> QED BY <3>1, <3>2 DEF ChatTypeOK, NoName
    <2> QED BY <1>0, <1>1, <1>11, <2>2, <2>3
  <1>9. CASE Crash
    BY <1>0, <1>9 DEF Crash
  <1>10. CASE Wipe
    BY <1>0, <1>10 DEF Wipe, Emptied
  <1> QED BY <1>2, <1>3, <1>4, <1>5, <1>6, <1>7, <1>8, <1>9, <1>10 DEF ChatStep

\* Where nothing is sent and no message moves, those on the way keep their chats.
LEMMA HeldStays ==
    ASSUME OutboxInv, ChatTypeOK, HeldInv, UNCHANGED <<made, chat, oldServer>>,
           \A c \in ChatId : sname[c] # NoName => sname'[c] # NoName,
           \A c \in ChatId : mode' # "wiped" /\ creation[c] # "absent" => creation'[c] # "absent",
           mode' # "wiped" => mode # "wiped", DOMAIN wire' \subseteq DOMAIN wire,
           pass' \in {"upload", "send"} => pass \in {"upload", "send"} /\ todo' = todo
    PROVE  HeldInv'
  <1>1. \A m \in 1 .. made : chat[m] \in ChatId
    <2>1. 1 .. made \subseteq Message
      BY OutboxAssumption DEF OutboxInv, RecordTypeOK, Message
    <2> QED BY <2>1 DEF ChatTypeOK
  <1>2. DOMAIN wire \subseteq 1 .. made
    BY DEF OutboxInv, RecordTypeOK
  <1>3. pass \in {"upload", "send"} => Current \in 1 .. made
    <2>1. RecordTypeOK /\ todo \subseteq 1 .. made /\ (pass \in {"upload", "send"} => todo # {})
      BY DEF OutboxInv, RecordTypeOK, PassInv
    <2> QED BY <2>1, CurrentIs
  <1>4. todo' = todo => Current' = Current
    BY DEF Current
  <1> QED BY <1>1, <1>2, <1>3, <1>4 DEF HeldInv, ChatBeforeMessage, BagToSet

\* No message goes to a chat that the server does not have.
LEMMA HeldKeeps ==
    ASSUME OutboxInv, ChatTypeOK, MakingInv, HeldInv, OutboxNext
    PROVE  HeldInv'
  <1>0. /\ \A m \in 1 .. made : chat[m] \in ChatId
        /\ todo # {} => Current \in 1 .. made
    <2>1. 1 .. made \subseteq Message /\ RecordTypeOK /\ todo \subseteq 1 .. made
      BY OutboxAssumption DEF OutboxInv, RecordTypeOK, Message
    <2> QED BY <2>1, CurrentIs DEF ChatTypeOK
  <1>1. CASE \E c \in ChatId : Enqueue(c)
    <2>1. PICK c \in ChatId : Enqueue(c)
      BY <1>1
    <2>2. /\ creation[c] # "absent" /\ made' = made + 1 /\ chat' = [chat EXCEPT ![made + 1] = c]
          /\ UNCHANGED <<wire, sname, creation, mode, todo, pass, oldServer>>
      BY <2>1 DEF Enqueue, rows, server, rest
    <2>3. made + 1 \in Message /\ \A m \in 1 .. made : m # made + 1
      BY <2>1, OutboxAssumption DEF OutboxInv, RecordTypeOK, Enqueue, Message
    <2>4. \A m \in 1 .. made : chat'[m] = chat[m]
      BY <2>2, <2>3 DEF ChatTypeOK
    <2>5. chat'[made + 1] = c /\ \A m \in 1 .. made' : m \in 1 .. made \/ m = made + 1
      BY <2>2, <2>3 DEF ChatTypeOK, OutboxInv, RecordTypeOK
    <2>6. DOMAIN wire \subseteq 1 .. made /\ (pass \in {"upload", "send"} => todo # {}) /\ Current' = Current
      BY <2>2 DEF OutboxInv, RecordTypeOK, PassInv, Current
    <2> QED BY <1>0, <2>2, <2>4, <2>5, <2>6 DEF HeldInv, ChatBeforeMessage, BagToSet
  <1>2. CASE Turn
    <2>1. /\ UNCHANGED <<made, wire, sname, creation, chat, mode, oldServer>>
          /\ \/ pass' = "next"
             \/ todo # {} /\ todo' = todo /\ OnServer(chat[Current]) /\ mode # "wiped"
      BY <1>2 DEF Turn, records, rows, server, rest, OutboxInv, PassInv
    <2>2. CASE pass' = "next"
      BY <2>1, <2>2, HeldStays
    <2>3. CASE todo # {} /\ todo' = todo /\ OnServer(chat[Current]) /\ mode # "wiped"
      <3>1. Current' = Current /\ chat[Current] \in ChatId
        BY <1>0, <2>3 DEF Current
      <3>2. ~oldServer => sname[chat[Current]] # NoName
        BY <1>0, <2>3, <3>1 DEF OnServer, HeldInv, MakingInv
      <3> QED BY <2>1, <3>1, <3>2 DEF HeldInv, ChatBeforeMessage
    <2> QED BY <2>1, <2>2, <2>3
  <1>3. CASE SendLeaves
    <2>1. /\ UNCHANGED <<made, sname, creation, chat, mode, oldServer>>
          /\ pass = "send" /\ pass' = "sent" /\ wire' = wire (+) SetToBag({Current})
      BY <1>3 DEF SendLeaves, records, rows, rest
    <2>2. DOMAIN wire' = DOMAIN wire \cup {Current}
      BY <2>1, WireMore
    <2> QED BY <2>1, <2>2 DEF HeldInv, ChatBeforeMessage, BagToSet
  <1>4. CASE MoveChat \/ AdoptServerChat
    BY <1>4 DEF MoveChat, AdoptServerChat, MakingInv, HeldInv, server, ChatBeforeMessage
  <1>5. CASE ChatStep /\ ~MoveChat /\ ~AdoptServerChat /\ ~\E c \in ChatId : Enqueue(c)
    <2>0. oldServer' = oldServer /\ \A c \in ChatId : sname[c] # NoName => sname'[c] # NoName
      BY <1>5, NamesStay
    <2>1. /\ UNCHANGED <<made, chat>> /\ wire' = wire /\ (mode' # "wiped" => mode # "wiped")
          /\ pass' \in {"upload", "send"} => pass \in {"upload", "send"} /\ todo' = todo
      BY <1>5 DEF ChatStep, CreateChat, RetryCreation, RenameReads, RenameWrites, ChatEvent, ServerCreates,
         PassStarts, CreationTurn, CreationReply, Crash, Wipe, Emptied, records, server, drain, rest
    <2>2. \A c \in ChatId : mode' # "wiped" /\ creation[c] # "absent" => creation'[c] # "absent"
      BY <1>5, ZenonT(40) DEF ChatStep, CreateChat, RetryCreation, RenameReads, RenameWrites, ChatEvent, ServerCreates,
         PassStarts, CreationTurn, CreationReply, Crash, Wipe, Emptied, rows, Created, Mark, ChatTypeOK
    <2> QED BY <2>0, <2>1, <2>2, HeldStays
  <1>6. CASE ~Turn /\ ~SendLeaves /\ ~ChatStep
    <2>1. /\ UNCHANGED <<chatVars, made>> /\ (mode' # "wiped" => mode # "wiped")
      BY <1>6, MessageSteps DEF OutboxNext, Person, PassStep, Server, Sync, ChatStep
    <2>2. pass' \in {"upload", "send"} => pass \in {"upload", "send"} /\ todo' = todo
      BY <1>6 DEF OutboxNext, Person, PassStep, Server, Sync, ChatStep, Discard, Retry, Connect, Drop, TimesOut,
         RetryTimer, CreationTimer, Listing, PassEnds, UploadDone, UploadFails, Fails, SendUnavailable, SendAccepted,
         Settle, SendFailed, ServerTakes, EchoArrives, EchoStores, EchoSettles, Stop, drain
    <2>3. DOMAIN wire' \subseteq DOMAIN wire
      <3>1. CASE \E m \in Message : ServerTakes(m)
        BY <3>1, WireMore DEF ServerTakes
      <3>2. CASE ~\E m \in Message : ServerTakes(m)
        <4>1. wire' = wire
          BY <1>6, <3>2 DEF OutboxNext, Person, PassStep, Server, Sync, ChatStep, Discard, Retry, Connect, Drop,
             TimesOut, RetryTimer, CreationTimer, Listing, PassEnds, UploadDone, UploadFails, SendUnavailable,
             SendAccepted, Settle, SendFailed, EchoArrives, EchoStores, EchoSettles, Stop, server
        <4> QED BY <4>1
      <3> QED BY <3>1, <3>2
    <2> QED BY <2>1, <2>2, <2>3, HeldStays DEF chatVars
  <1> QED BY <1>1, <1>2, <1>3, <1>4, <1>5, <1>6 DEF ChatStep

\* What the device holds of its chats and what the server holds of them agree, and no
\* request is on the way to a chat that is not there.
THEOREM ChatsInductive == OutboxSpec => []ChatsInv
  <1>1. OutboxInit => ChatsInv
    <2> SUFFICES ASSUME OutboxInit PROVE ChatsInv
      OBVIOUS
    <2>1. DOMAIN wire = {} /\ DOMAIN cwire = {}
      BY DEF OutboxInit, EmptyBag, SetToBag
    <2>2. ChatTypeOK
      BY <2>1, OutboxAssumption DEF OutboxInit, ChatTypeOK, ChatId, NoName
    <2>3. MakingInv
      BY DEF OutboxInit, MakingInv, NoName
    <2>4. HeldInv
      BY <2>1, OutboxAssumption DEF OutboxInit, HeldInv, ChatBeforeMessage, BagToSet
    <2> QED BY <2>2, <2>3, <2>4 DEF ChatsInv
  <1>2. OutboxInv /\ ChatsInv /\ [OutboxNext]_outboxVars => ChatsInv'
    <2> SUFFICES ASSUME OutboxInv, ChatsInv, [OutboxNext]_outboxVars PROVE ChatsInv'
      OBVIOUS
    <2>1. CASE UNCHANGED outboxVars
      <3>1. UNCHANGED <<chatVars, made, pass, answer, mode, todo, wire>>
        BY <2>1 DEF outboxVars, chatVars, records, rows, drain, server, ghosts, rest
      <3>2. ChatTypeOK' /\ MakingInv'
        BY <3>1 DEF ChatsInv, ChatTypeOK, MakingInv, chatVars, CurrentChat, ServerId
      <3> QED BY <3>1, <3>2, HeldStays DEF ChatsInv, chatVars
    <2>2. CASE OutboxNext /\ ChatStep
      BY <2>2, ChatTypeKeeps, MakingKeeps, HeldKeeps DEF ChatsInv
    <2>3. CASE OutboxNext /\ ~ChatStep
      <3>1. /\ UNCHANGED <<chatVars, made>>
            /\ pass' \in {"asked", "moving", "adopting"} => pass' = pass /\ (answer' = "ok" => answer = "ok")
        BY <2>3, MessageSteps DEF OutboxNext, Person, PassStep, Server, Sync, ChatStep
      <3>2. ChatTypeOK' /\ MakingInv'
        BY <3>1 DEF ChatsInv, ChatTypeOK, MakingInv, chatVars, CurrentChat, ServerId
      <3> QED BY <2>3, <3>2, HeldKeeps DEF ChatsInv
    <2> QED BY <2>1, <2>2, <2>3
  <1> QED BY <1>1, <1>2, OutboxInductive, PTL DEF OutboxSpec

\* No request names a chat the server does not have, for any number of chats, renames
\* and faults.
THEOREM ChatBeforeMessageAlways == OutboxSpec => []ChatBeforeMessage
  <1>1. ChatsInv => ChatBeforeMessage
    BY DEF ChatsInv, HeldInv, ChatBeforeMessage
  <1> QED BY <1>1, ChatsInductive, PTL
=============================================================================
