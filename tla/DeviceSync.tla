----------------------------- MODULE DeviceSync -----------------------------
(***************************************************************************)
(* The client end of the stream, composed with the server of Delivery:     *)
(* NoxSocketClient greets on every connection and decides when the device  *)
(* has caught up; SyncService applies the events one by one and moves the  *)
(* stored cursor after each.                                               *)
(*                                                                         *)
(* Every await of the code is a point where other work may run: the        *)
(* greeting is a read of the cursor, a send, and a continuation after the  *)
(* reply; an apply is a store write and then a cursor write.  The apply    *)
(* queue outlives the connection that filled it.                           *)
(***************************************************************************)
EXTENDS Delivery

CONSTANTS
    QueueCap,   \* bound: events waiting to be applied
    MaxFails    \* bound: applies that fail

ASSUME DeviceSyncAssumption == QueueCap \in Nat \ {0} /\ MaxFails \in Nat

VARIABLES
    cursor,     \* the stored `since'; NoSince when none is stored
    applied,    \* seqs whose event is in the local stores
    queue,      \* SyncService._queue: events waiting; the head is being applied
    stored,     \* devices where the head of the queue is stored, its cursor
                \* write due
    halted,     \* devices whose SyncService is _halted
    greet,      \* where _greet stands on this connection
    asked,      \* its local `since'
    first,      \* devices whose greeting found no cursor stored (firstEver)
    hello,      \* _helloCursor
    seen,       \* _seenSeq
    phase,      \* SessionPhase
    base,       \* ghost: the bootstrap by list reads covers everything up to it
    skipped,    \* ghost: seqs an apply failed on, or that were let go while halted
    fails       \* how many applies have failed (see MaxFails)

store == <<cursor, applied, base>>
applier == <<queue, stored, halted, skipped, fails>>
socket == <<greet, asked, first, hello, seen, phase>>
clientVars == <<store, applier, socket>>
vars == <<deliveryVars, clientVars>>

Larger(a, b) == IF a > b THEN a ELSE b

\* readSince: an absent cursor reads as 0.
Since(d) == IF cursor[d] = NoSince THEN 0 ELSE cursor[d]

\* advanceSince: written when absent, and otherwise only raised.
Advanced(d, n) == [cursor EXCEPT ![d] = Larger(@, n)]

Init ==
    /\ DeliveryInit
    /\ cursor = [d \in Device |-> NoSince]
    /\ applied = [d \in Device |-> {}]
    /\ queue = [d \in Device |-> <<>>]
    /\ stored = {}
    /\ halted = {}
    /\ greet = [d \in Device |-> "idle"]
    /\ asked = [d \in Device |-> 0]
    /\ first = {}
    /\ hello = [d \in Device |-> 0]
    /\ seen = [d \in Device |-> 0]
    /\ phase = [d \in Device |-> "disconnected"]
    /\ base = [d \in Device |-> 0]
    /\ skipped = [d \in Device |-> {}]
    /\ fails = 0

(***************************************************************************)
(* The socket                                                              *)
(***************************************************************************)

\* _openOnce: a connection is up, the server's greeting is on its way.
Open(d) ==
    /\ Accept(d)
    /\ phase' = [phase EXCEPT ![d] = "connecting"]
    /\ UNCHANGED <<store, applier, greet, asked, first, hello, seen>>

\* _greet up to its first await: the cursor is read.
GreetReads(d) ==
    /\ stage[d] = "open" /\ greet[d] = "idle"
    /\ greet' = [greet EXCEPT ![d] = "read"]
    /\ asked' = [asked EXCEPT ![d] = Since(d)]
    /\ UNCHANGED <<deliveryVars, store, applier, first, hello, seen, phase>>

\* Faulty variant: a cursor of 0 is taken for none.
GreetChecksZero(d) ==
    /\ greet[d] = "read"
    /\ greet' = [greet EXCEPT ![d] = "checked"]
    /\ first' = IF asked[d] = 0 THEN first \cup {d} ELSE first
    /\ UNCHANGED <<deliveryVars, store, applier, asked, hello, seen, phase>>

\* Its second await: whether a cursor is stored at all, which 0 does not tell.
GreetChecks(d) ==
    /\ greet[d] = "read"
    /\ greet' = [greet EXCEPT ![d] = "checked"]
    /\ first' = IF cursor[d] = NoSince THEN first \cup {d} ELSE first
    /\ UNCHANGED <<deliveryVars, store, applier, asked, hello, seen, phase>>

\* _greet sends session.hello, without `since' on a first greeting.
GreetSends(d) ==
    /\ greet[d] = "checked"
    /\ greet' = [greet EXCEPT ![d] = "sent"]
    /\ Register(d, IF d \in first THEN NoSince ELSE asked[d])
    /\ UNCHANGED <<store, applier, asked, first, hello, seen, phase>>

\* The server answers.  A device with no cursor will fetch what came before
\* the cursor of the reply through list reads, and starts from there.
ServerReplies(d) ==
    /\ Reply(d)
    /\ base' = [base EXCEPT ![d] = IF since[d] = NoSince THEN head ELSE @]
    /\ UNCHANGED <<cursor, applied, applier, socket>>

\* _onRawFrame completes the pending hello; _greet is not yet running again.
ReplyArrives(d) ==
    /\ TakeReply(d)
    /\ greet' = [greet EXCEPT ![d] = "answered"]
    /\ hello' = [hello EXCEPT ![d] = reply[d]]
    /\ UNCHANGED <<store, applier, asked, first, seen, phase>>

\* Faulty variant: frames that came before _greet resumed are not counted.
LevelByCursor(d) == asked[d] >= hello[d]

\* Level with the server, or the replay overtook this very continuation.
Level(d) == asked[d] >= hello[d] \/ seen[d] >= hello[d]

\* _greet resumes: catch-up begins, which also releases a halted applier.
GreetResumes(d) ==
    /\ greet[d] = "answered"
    /\ halted' = halted \ {d}
    /\ greet' = [greet EXCEPT ![d] = IF d \in first THEN "adopting" ELSE "done"]
    /\ phase' = [phase EXCEPT ![d] = IF d \notin first /\ Level(d) THEN "live"
                                     ELSE "catchingUp"]
    /\ UNCHANGED <<deliveryVars, store, queue, stored, skipped, fails, asked,
                   first, hello, seen>>

\* The first greeting adopts the cursor of the reply.
GreetAdopts(d) ==
    /\ greet[d] = "adopting"
    /\ greet' = [greet EXCEPT ![d] = "done"]
    /\ cursor' = Advanced(d, hello[d])
    /\ phase' = [phase EXCEPT ![d] = "live"]
    /\ UNCHANGED <<deliveryVars, applied, base, applier, asked, first, hello, seen>>

\* _onRawFrame on an event: queued for the applier, and the catch-up rule.
FrameArrives(d) ==
    /\ TakeFrame(d)
    /\ Len(queue[d]) < QueueCap
    /\ LET e == Head(out[d])
       IN  /\ queue' = [queue EXCEPT ![d] = Append(@, e)]
           /\ seen' = [seen EXCEPT ![d] = Larger(@, e)]
           /\ phase' = [phase EXCEPT ![d] =
                          IF @ = "catchingUp" /\ e >= hello[d] THEN "live" ELSE @]
    /\ UNCHANGED <<store, stored, halted, skipped, fails, greet, asked, first,
                   hello>>

\* _teardown of the devices in D: the applier and its queue are not touched.
TornDown(D) ==
    /\ greet' = [d \in Device |-> IF d \in D THEN "idle" ELSE greet[d]]
    /\ first' = first \ D
    /\ seen' = [d \in Device |-> IF d \in D THEN 0 ELSE seen[d]]
    /\ phase' = [d \in Device |-> IF d \in D THEN "disconnected" ELSE phase[d]]
    /\ UNCHANGED <<asked, hello>>

Dropped(d) ==
    /\ Disconnect(d) \/ CloseSlow(d)
    /\ TornDown({d})
    /\ UNCHANGED <<store, applier>>

ServerRestarts ==
    /\ Restart
    /\ TornDown(Device)
    /\ UNCHANGED <<store, applier>>

(***************************************************************************)
(* The applier                                                             *)
(***************************************************************************)

Queued(d) == queue[d] # <<>> /\ d \notin stored

\* Halted: the event is let go, to be redelivered by the next catch-up.
ApplySkips(d) ==
    /\ Queued(d) /\ d \in halted
    /\ queue' = [queue EXCEPT ![d] = Tail(@)]
    /\ skipped' = [skipped EXCEPT ![d] = @ \cup {Head(queue[d])}]
    /\ UNCHANGED <<deliveryVars, store, stored, halted, fails, socket>>

\* At or below the cursor: a duplicate of what has been applied.
ApplyDrops(d) ==
    /\ Queued(d) /\ d \notin halted
    /\ Head(queue[d]) <= Since(d)
    /\ queue' = [queue EXCEPT ![d] = Tail(@)]
    /\ UNCHANGED <<deliveryVars, store, stored, halted, skipped, fails, socket>>

\* _applyChat, _applyMessage: the event is written to the local stores.
ApplyStores(d) ==
    /\ Queued(d) /\ d \notin halted
    /\ Head(queue[d]) > Since(d)
    /\ applied' = [applied EXCEPT ![d] = @ \cup {Head(queue[d])}]
    /\ stored' = stored \cup {d}
    /\ UNCHANGED <<deliveryVars, cursor, base, queue, halted, skipped, fails, socket>>

\* The cursor moves, only now that the event is stored.
ApplyAdvances(d) ==
    /\ d \in stored
    /\ cursor' = Advanced(d, Head(queue[d]))
    /\ stored' = stored \ {d}
    /\ queue' = [queue EXCEPT ![d] = Tail(@)]
    /\ UNCHANGED <<deliveryVars, applied, base, halted, skipped, fails, socket>>

\* Faulty variant: a failed apply is logged and the next event goes on.
HaltsNever(d) == halted

\* Nothing after a failed apply may move the cursor past it.
Halts(d) == halted \cup {d}

\* The store write or the cursor write throws.
ApplyFails(d) ==
    /\ fails < MaxFails
    /\ fails' = fails + 1
    /\ queue[d] # <<>> /\ d \notin halted
    /\ d \in stored \/ Head(queue[d]) > Since(d)
    /\ queue' = [queue EXCEPT ![d] = Tail(@)]
    /\ stored' = stored \ {d}
    /\ halted' = Halts(d)
    /\ skipped' = [skipped EXCEPT ![d] = @ \cup {Head(queue[d])}]
    /\ UNCHANGED <<deliveryVars, store, socket>>

\* The app is killed and starts again: only what is stored survives.
AppRestarts(d) ==
    /\ faults < MaxFaults
    /\ faults' = faults + 1
    /\ Gone({d})
    /\ TornDown({d})
    /\ queue' = [queue EXCEPT ![d] = <<>>]
    /\ stored' = stored \ {d}
    /\ halted' = halted \ {d}
    /\ UNCHANGED <<journal, dispatcher, store, skipped, fails>>

(***************************************************************************)
(* The system                                                              *)
(***************************************************************************)

ServerWorks(d) == ReadReplay(d) \/ SendReplay(d) \/ StartForward(d) \/ Forward(d)

ServerAlone ==
    /\ \/ Commit \/ Kick \/ FirstRead \/ TakeKick \/ ReadBatch \/ BackToSelect
       \/ ReadFails \/ Broadcast
       \/ \E d \in Device : ServerWorks(d)
    /\ UNCHANGED clientVars

SocketStep(d) ==
    \/ Open(d) \/ GreetReads(d) \/ GreetChecks(d) \/ GreetSends(d)
    \/ ServerReplies(d) \/ ReplyArrives(d) \/ GreetResumes(d) \/ GreetAdopts(d) \/ FrameArrives(d)
    \/ Dropped(d)

ApplierStep(d) ==
    \/ ApplySkips(d) \/ ApplyDrops(d) \/ ApplyStores(d) \/ ApplyAdvances(d)
    \/ ApplyFails(d)

Next ==
    \/ ServerAlone
    \/ ServerRestarts
    \/ \E d \in Device : SocketStep(d) \/ ApplierStep(d) \/ AppRestarts(d)

Spec == Init /\ [][Next]_vars

Fairness ==
    /\ WF_vars(Kick /\ UNCHANGED clientVars)
    /\ WF_vars(FirstRead /\ UNCHANGED clientVars)
    /\ WF_vars(TakeKick /\ UNCHANGED clientVars)
    /\ WF_vars(ReadBatch /\ UNCHANGED clientVars)
    /\ WF_vars(BackToSelect /\ UNCHANGED clientVars)
    /\ WF_vars(Broadcast /\ UNCHANGED clientVars)
    /\ \A d \in Device :
         /\ WF_vars(ServerWorks(d) /\ UNCHANGED clientVars)
         /\ WF_vars(CloseSlow(d) /\ Dropped(d))
         /\ WF_vars(Open(d))
         /\ WF_vars(GreetReads(d))
         /\ WF_vars(GreetChecks(d))
         /\ WF_vars(GreetSends(d))
         /\ WF_vars(ServerReplies(d))
         /\ WF_vars(ReplyArrives(d))
         /\ WF_vars(GreetResumes(d))
         /\ WF_vars(GreetAdopts(d))
         /\ WF_vars(FrameArrives(d))
         /\ WF_vars(ApplySkips(d) \/ ApplyDrops(d) \/ ApplyStores(d) \/ ApplyAdvances(d))

FairSpec == Spec /\ Fairness

(***************************************************************************)
(* What it promises                                                        *)
(***************************************************************************)

\* The cursor's promise, "everything up to seq is applied HERE" (sync_dao.dart):
\* past the bootstrap, each event at or below the cursor is in the local
\* stores, unless an apply failed on it or let it go while halted, or the server
\* never sent it because its dispatcher was still starting.
CursorMeansApplied ==
    \A d \in Device : \A n \in base[d] + 1 .. cursor[d] :
      n \in applied[d] \/ n \in skipped[d] \/ n \in silent[d]

\* The same without the exception for failed applies: the guarantee SyncService
\* states, that the cursor never moves past the gap one leaves.
NoGapAfterFailure ==
    \A d \in Device : base[d] + 1 .. cursor[d] \subseteq applied[d] \cup silent[d]

\* A device's place in the feed is what it has applied or will have from the
\* bootstrap; a first greeting that has not been settled is the way to one.
Feed == INSTANCE OrderedFeed WITH
    Limit <- MaxSeq,
    feed <- head,
    place <- [d \in Device |-> IF cursor[d] = NoSince THEN NoSince
                               ELSE Larger(cursor[d], base[d])],
    awake <- disp # "starting",
    unsaid <- silent,
    moving <- {d \in first : greet[d] \in {"checked", "sent", "answered", "adopting"}}

\* As long as no apply fails, the whole of it - journal, dispatcher, overflow,
\* replay, greeting, applier, restarts at both ends - hands every device the
\* events of the journal in order, each exactly once past its starting point; and
\* none is left out but what a starting dispatcher took for old.
WorksThroughTheFeed == Feed!FeedSpec

\* Every committed event comes to rest in the local stores of every device
\* that has ever greeted, through disconnects, overflows and restarts - or the
\* dispatcher's read failed, or it had not started when the event committed to a
\* device already subscribed.
EventuallyApplied ==
    \A d \in Device : \A n \in 1 .. MaxSeq :
      head >= n ~> n <= cursor[d] \/ disp = "failed" \/ n \in silent[d]

\* A device that starts to catch up gets there: it goes live or loses the
\* connection.  The outgoing queue waits for exactly this.
CatchUpEnds ==
    \A d \in Device : phase[d] = "catchingUp" ~> phase[d] \in {"live", "disconnected"}
=============================================================================
