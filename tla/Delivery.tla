------------------------------ MODULE Delivery ------------------------------
(***************************************************************************)
(* How noxd turns committed journal events into frames on a connection:    *)
(* the journal itself, the dispatcher that reads it, the hub that fans out *)
(* to bounded subscriber buffers, the hello handshake that joins a         *)
(* connection to the stream, and the bounded outbound queue behind it.     *)
(*                                                                         *)
(* An event is its seq.  The journal only grows and its seqs are           *)
(* consecutive (one AUTOINCREMENT row per committed write transaction), so *)
(* its contents are `head', the largest seq; a result set of EventsSince   *)
(* is the interval it covers.  Queues are sequences of seqs.               *)
(*                                                                         *)
(* Each device has at most one connection that counts: the client ignores  *)
(* frames of any connection but its newest (_connectionEpoch).             *)
(***************************************************************************)
EXTENDS Integers, Sequences

CONSTANTS
    Device,     \* the paired devices
    SubCap,     \* subscriberBuffer of the hub
    OutCap,     \* outBuffer of a connection
    MaxSeq,     \* bound: events committed in a behaviour
    MaxFaults   \* bound: spontaneous disconnects, crashes and read failures

ASSUME DeliveryAssumption ==
    /\ SubCap \in Nat \ {0}
    /\ OutCap \in Nat \ {0}
    /\ MaxSeq \in Nat
    /\ MaxFaults \in Nat

VARIABLES
    head,      \* MAX(seq) of the events table
    owed,      \* handlers that committed an event and have not kicked yet
    silent,    \* ghost: events committed while the device was subscribed and
               \* the dispatcher had not started: no live frame carries them
    kick,      \* how many kicks the one-slot channel holds
    disp,      \* where the dispatcher goroutine stands; "starting" is before
               \* its first read, "failed" is waiting for a kick after a read
               \* that failed
    last,      \* its `last': everything up to it has been broadcast
    end,       \* the last row of the batch it is broadcasting
    stage,     \* how far the connection's handler has come
    since,     \* what session.hello stated; NoSince when it stated nothing
    subs,      \* the hub's subscribers, by the device they stand for
    sub,       \* what the hub has put in the subscriber's buffer
    rnext,     \* the next replay row to queue ...
    rend,      \* ... and the last one
    out,       \* event frames queued for the wire or on it
    doomed,    \* slow consumers whose connection a goroutine is closing
    reply,     \* the cursor of a hello reply still on the wire, or NoReply
    top,       \* ghost: the last seq the peer was given on this connection
    faults     \* how many faults have happened (see MaxFaults)

journal == <<head, owed, silent>>
dispatcher == <<kick, disp, last, end>>
link == <<stage, since, subs, sub, rnext, rend, out, doomed, reply, top>>
deliveryVars == <<journal, dispatcher, link, faults>>

NoSince == -1
NoReply == -1
NotJoined == -1   \* top before the peer has a starting point

\* The dispatcher waits for a kick.
Waiting == {"idle", "failed"}

Stages == {"none", "open", "registered", "replied", "replay", "live", "ended"}

DeliveryInit ==
    /\ head = 0 /\ owed = 0 /\ kick = 0
    /\ silent = [d \in Device |-> {}]
    /\ disp = "starting" /\ last = 0 /\ end = 0
    /\ stage = [d \in Device |-> "none"]
    /\ since = [d \in Device |-> NoSince]
    /\ subs = {}
    /\ sub = [d \in Device |-> <<>>]
    /\ rnext = [d \in Device |-> 0]
    /\ rend = [d \in Device |-> 0]
    /\ out = [d \in Device |-> <<>>]
    /\ doomed = {}
    /\ reply = [d \in Device |-> NoReply]
    /\ top = [d \in Device |-> NotJoined]
    /\ faults = 0

(***************************************************************************)
(* The journal and the dispatcher                                          *)
(***************************************************************************)

\* A dispatcher that has not started will take what commits now for old: a
\* subscriber must have it from its own replay or not at all.
Unheard(d) == disp = "starting" /\ d \in subs

\* A write transaction that creates an event row commits (SendMessage,
\* CreateChat, RenameChat).  The handler has still to reply and to kick.
Commit ==
    /\ head < MaxSeq
    /\ head' = head + 1
    /\ owed' = owed + 1
    /\ silent' = [d \in Device |-> IF Unheard(d) THEN silent[d] \cup {head + 1}
                                   ELSE silent[d]]
    /\ UNCHANGED <<dispatcher, link, faults>>

\* Faulty variant: a kick channel without its slot loses a kick that finds the
\* dispatcher at work.
KickUnbuffered ==
    /\ owed > 0
    /\ owed' = owed - 1
    /\ kick' = IF disp \in Waiting THEN 1 ELSE 0
    /\ UNCHANGED <<head, silent, disp, last, end, link, faults>>

\* kickDispatcher: a full slot is left as it is.
Kick ==
    /\ owed > 0
    /\ owed' = owed - 1
    /\ kick' = 1
    /\ UNCHANGED <<head, silent, disp, last, end, link, faults>>

\* runDispatcher's first Cursor read, in a goroutine of its own: connections may
\* have been accepted and events committed since the port opened.  A read that
\* fails ends the run (see Restart).
FirstRead ==
    /\ disp = "starting"
    /\ disp' = "idle"
    /\ last' = head
    /\ UNCHANGED <<journal, kick, end, link, faults>>

\* The dispatcher takes the kick and starts its read loop.
TakeKick ==
    /\ disp \in Waiting /\ kick > 0
    /\ kick' = kick - 1
    /\ disp' = "read"
    /\ UNCHANGED <<journal, last, end, link, faults>>

\* EventsSince(last) in the loop: rows to broadcast, or none.
ReadBatch ==
    /\ disp = "read"
    /\ disp' = IF head > last THEN "cast" ELSE "empty"
    /\ end' = head
    /\ UNCHANGED <<journal, kick, last, link, faults>>

\* Back to the select after an empty read; events may have committed since.
BackToSelect ==
    /\ disp = "empty"
    /\ disp' = "idle"
    /\ UNCHANGED <<journal, kick, last, end, link, faults>>

\* EventsSince fails: only the next kick retries.
ReadFails ==
    /\ disp = "read"
    /\ faults < MaxFaults
    /\ faults' = faults + 1
    /\ disp' = "failed"
    /\ UNCHANGED <<journal, kick, last, end, link>>

HasRoom(d) == Len(sub[d]) < SubCap

\* Faulty variant: the overflow is logged, the subscriber kept.
StaysThoughFull(d) == d \in subs

\* A subscriber whose buffer is full is deleted from the hub's set.
StaysSubscribed(d) == d \in subs /\ HasRoom(d)

\* hub.Run on a broadcast: every subscriber gets the envelope or, with its
\* buffer full, is removed, its channel closed and its connection closed.
Broadcast ==
    /\ disp = "cast"
    /\ sub' = [d \in Device |-> IF d \in subs /\ HasRoom(d)
                               THEN Append(sub[d], last + 1) ELSE sub[d]]
    /\ subs' = {d \in subs : StaysSubscribed(d)}
    /\ doomed' = doomed \cup {d \in subs : ~HasRoom(d)}
    /\ last' = last + 1
    /\ disp' = IF last + 1 = end THEN "read" ELSE "cast"
    /\ UNCHANGED <<journal, kick, end, stage, since, rnext, rend, out,
                   reply, top, faults>>

(***************************************************************************)
(* One connection                                                          *)
(***************************************************************************)

\* handleWS: the upgrade is accepted, writePump runs, the greeting is queued.
Accept(d) ==
    /\ stage[d] = "none"
    /\ stage' = [stage EXCEPT ![d] = "open"]
    /\ UNCHANGED <<journal, dispatcher, since, subs, sub, rnext, rend, out,
                   doomed, reply, top, faults>>

\* handleSessionHello up to hub.Register: subscribed before the cursor is read.
Register(d, s) ==
    /\ stage[d] = "open"
    /\ stage' = [stage EXCEPT ![d] = "registered"]
    /\ since' = [since EXCEPT ![d] = s]
    /\ subs' = subs \cup {d}
    /\ UNCHANGED <<journal, dispatcher, sub, rnext, rend, out, doomed, reply,
                   top, faults>>

\* The cursor is read and the reply queued ahead of every event frame.
Reply(d) ==
    /\ stage[d] = "registered"
    /\ stage' = [stage EXCEPT ![d] = "replied"]
    /\ reply' = [reply EXCEPT ![d] = head]
    /\ top' = [top EXCEPT ![d] = IF since[d] = NoSince THEN head ELSE since[d]]
    /\ UNCHANGED <<journal, dispatcher, since, subs, sub, rnext, rend, out,
                   doomed, faults>>

\* Faulty variant: the replay starts one row too late.
ReadReplayPast(d) ==
    /\ stage[d] = "replied"
    /\ stage' = [stage EXCEPT ![d] = "replay"]
    /\ rnext' = [rnext EXCEPT ![d] = IF since[d] = NoSince THEN head + 1
                                     ELSE since[d] + 2]
    /\ rend' = [rend EXCEPT ![d] = head]
    /\ UNCHANGED <<journal, dispatcher, since, subs, sub, out, doomed,
                   reply, top, faults>>

\* EventsSince(since), or nothing to replay when the hello stated no cursor.
ReadReplay(d) ==
    /\ stage[d] = "replied"
    /\ stage' = [stage EXCEPT ![d] = "replay"]
    /\ rnext' = [rnext EXCEPT ![d] = IF since[d] = NoSince THEN head + 1
                                     ELSE since[d] + 1]
    /\ rend' = [rend EXCEPT ![d] = head]
    /\ UNCHANGED <<journal, dispatcher, since, subs, sub, out, doomed,
                   reply, top, faults>>

\* send: a replay frame waits for room, it is never dropped.
SendReplay(d) ==
    /\ stage[d] = "replay"
    /\ rnext[d] <= rend[d]
    /\ Len(out[d]) < OutCap
    /\ out' = [out EXCEPT ![d] = Append(@, rnext[d])]
    /\ rnext' = [rnext EXCEPT ![d] = @ + 1]
    /\ UNCHANGED <<journal, dispatcher, stage, since, subs, sub, rend,
                   doomed, reply, top, faults>>

\* go c.forward(): only once the whole replay is queued.
StartForward(d) ==
    /\ stage[d] = "replay"
    /\ rnext[d] > rend[d]
    /\ stage' = [stage EXCEPT ![d] = "live"]
    /\ UNCHANGED <<journal, dispatcher, since, subs, sub, rnext, rend, out,
                   doomed, reply, top, faults>>

\* Faulty variant: the forwarder ends and the connection stays open.
ForwardGivesUp(d) ==
    /\ stage[d] = "live"
    /\ sub[d] # <<>>
    /\ sub' = [sub EXCEPT ![d] = Tail(@)]
    /\ IF Len(out[d]) < OutCap
       THEN /\ out' = [out EXCEPT ![d] = Append(@, Head(sub[d]))]
            /\ UNCHANGED stage
       ELSE /\ stage' = [stage EXCEPT ![d] = "ended"]
            /\ UNCHANGED out
    /\ UNCHANGED <<journal, dispatcher, since, subs, rnext, rend, doomed,
                   reply, top, faults>>

\* forward + enqueueLive: a live frame never waits.  A full queue loses it,
\* closes the connection and ends the forwarder.
Forward(d) ==
    /\ stage[d] = "live"
    /\ sub[d] # <<>>
    /\ sub' = [sub EXCEPT ![d] = Tail(@)]
    /\ IF Len(out[d]) < OutCap
       THEN /\ out' = [out EXCEPT ![d] = Append(@, Head(sub[d]))]
            /\ UNCHANGED <<stage, doomed>>
       ELSE /\ stage' = [stage EXCEPT ![d] = "ended"]
            /\ doomed' = doomed \cup {d}
            /\ UNCHANGED out
    /\ UNCHANGED <<journal, dispatcher, since, subs, rnext, rend, reply,
                   top, faults>>

\* The peer takes the hello reply off the wire.
TakeReply(d) ==
    /\ reply[d] # NoReply
    /\ reply' = [reply EXCEPT ![d] = NoReply]
    /\ UNCHANGED <<journal, dispatcher, stage, since, subs, sub, rnext,
                   rend, out, doomed, top, faults>>

\* The peer takes the next event frame off the wire, behind the reply.
TakeFrame(d) ==
    /\ reply[d] = NoReply
    /\ out[d] # <<>>
    /\ out' = [out EXCEPT ![d] = Tail(@)]
    /\ top' = [top EXCEPT ![d] = Head(out[d])]
    /\ UNCHANGED <<journal, dispatcher, stage, since, subs, sub, rnext,
                   rend, doomed, reply, faults>>

\* The connections of D are gone and what they held with them (cleanup).
Gone(D) ==
    /\ stage' = [d \in Device |-> IF d \in D THEN "none" ELSE stage[d]]
    /\ since' = [d \in Device |-> IF d \in D THEN NoSince ELSE since[d]]
    /\ subs' = subs \ D
    /\ sub' = [d \in Device |-> IF d \in D THEN <<>> ELSE sub[d]]
    /\ rnext' = [d \in Device |-> IF d \in D THEN 0 ELSE rnext[d]]
    /\ rend' = [d \in Device |-> IF d \in D THEN 0 ELSE rend[d]]
    /\ out' = [d \in Device |-> IF d \in D THEN <<>> ELSE out[d]]
    /\ doomed' = doomed \ D
    /\ reply' = [d \in Device |-> IF d \in D THEN NoReply ELSE reply[d]]
    /\ top' = [d \in Device |-> IF d \in D THEN NotJoined ELSE top[d]]

\* A slow consumer's connection is closed by the goroutine sent to do it.
CloseSlow(d) ==
    /\ d \in doomed
    /\ Gone({d})
    /\ UNCHANGED <<journal, dispatcher, faults>>

\* The network, a write or ping timeout, or either end drops the connection.
Disconnect(d) ==
    /\ stage[d] # "none"
    /\ faults < MaxFaults
    /\ faults' = faults + 1
    /\ Gone({d})
    /\ UNCHANGED <<journal, dispatcher>>

\* The server stops or dies, for one because the dispatcher's first read failed,
\* and starts again: only the journal survives, and the new dispatcher has not
\* read the cursor yet.
Restart ==
    /\ faults < MaxFaults
    /\ faults' = faults + 1
    /\ owed' = 0
    /\ kick' = 0
    /\ disp' = "starting"
    /\ last' = 0
    /\ end' = 0
    /\ Gone(Device)
    /\ UNCHANGED <<head, silent>>

ServerStep ==
    \/ Commit \/ Kick \/ FirstRead \/ TakeKick \/ ReadBatch \/ BackToSelect
    \/ ReadFails \/ Broadcast
    \/ \E d \in Device : Reply(d) \/ ReadReplay(d) \/ SendReplay(d)
                         \/ StartForward(d) \/ Forward(d)

\* Any peer: connects, states any cursor (one ahead of the log is only warned
\* about), reads at its own pace.
DeliveryNext ==
    \/ ServerStep
    \/ \E d \in Device :
         \/ Accept(d)
         \/ \E s \in {NoSince} \cup 0 .. MaxSeq : Register(d, s)
         \/ TakeReply(d) \/ TakeFrame(d) \/ CloseSlow(d) \/ Disconnect(d)
    \/ Restart

DeliverySpec == DeliveryInit /\ [][DeliveryNext]_deliveryVars

(***************************************************************************)
(* What it promises                                                        *)
(***************************************************************************)

\* Every variable has its type and every queue keeps to its capacity.
DeliveryTypeOK ==
    /\ head \in Nat /\ owed \in Nat /\ kick \in 0 .. 1
    /\ silent \in [Device -> SUBSET Nat]
    /\ disp \in Waiting \cup {"starting", "read", "empty", "cast"}
    /\ last \in Nat /\ end \in Nat
    /\ stage \in [Device -> Stages]
    /\ since \in [Device -> Nat \cup {NoSince}]
    /\ subs \subseteq Device /\ doomed \subseteq Device
    /\ sub \in [Device -> Seq(Nat)] /\ out \in [Device -> Seq(Nat)]
    /\ rnext \in [Device -> Nat] /\ rend \in [Device -> Nat]
    /\ reply \in [Device -> Nat \cup {NoReply}]
    /\ top \in [Device -> Nat \cup {NotJoined}]
    /\ faults \in Nat
    /\ \A d \in Device : Len(sub[d]) <= SubCap /\ Len(out[d]) <= OutCap

\* The wire never skips an event: the next frame a peer takes is at most one
\* past the last it was given, counted from the cursor it greeted with (or,
\* with none, from the cursor of the reply).  Duplicates where the replay
\* meets the live stream are allowed, a gap is not - whatever the dispatcher,
\* the hub's overflow and the two queues do meanwhile (contract section 3).
\* Only what committed between the peer's greeting and the first read of a
\* dispatcher still starting may be passed over.
WireNeverSkips ==
    \A d \in Device : out[d] # <<>> => top[d] + 1 .. Head(out[d]) - 1 \subseteq silent[d]

\* The one-slot kick channel loses no wakeup: a dispatcher waiting, or about to
\* wait, with no kick in the slot and none owed has broadcast the whole journal,
\* unless its last read failed ("failed" rather than "idle").
NoLostKick ==
    disp \in {"empty", "idle"} /\ kick = 0 /\ owed = 0 => last = head
=============================================================================
