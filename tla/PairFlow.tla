------------------------------ MODULE PairFlow ------------------------------
(***************************************************************************)
(* Pairing as it runs: the connections of noxd, what a connection of a key *)
(* nobody paired is held to, and who is told what of a pairing request and *)
(* when.  The store's transactions are single steps (PairStore looks       *)
(* inside them); everything a handler does around them is a step of its    *)
(* own, so that other connections, timers and the sweep come between.      *)
(*                                                                         *)
(* A frame counts as delivered when it is queued: frames of a connection   *)
(* arrive in that order or not at all, and what the app makes of them      *)
(* depends on the order alone.                                             *)
(***************************************************************************)
EXTENDS Integers, FiniteSets

CONSTANTS
    Key,          \* device keys
    Owner,        \* the key that issued the invites, paired from the start
    Conn,         \* connections the server can have at a time
    Request,      \* invites of the owner, each with the request it may open
    Sweeper,      \* runRequestSweeper's goroutine
    None,
    MaxUnpaired,  \* s.maxUnpaired
    MaxTries,     \* bound: pairings begun by the apps
    MaxRevokes,   \* bound: revocations
    MaxFaults     \* bound: lost connections, idle strangers, timers, failed reads

ASSUME PairFlowAssumption ==
    /\ Owner \in Key
    /\ None \notin Key \cup Conn \cup Request \cup {Sweeper}
    /\ Sweeper \notin Conn
    /\ MaxUnpaired \in Nat \ {0}
    /\ {MaxTries, MaxRevokes, MaxFaults} \subseteq Nat

VARIABLES
    \* the store
    paired,     \* keys with a row in devices
    asker,      \* of a request: the key that opened it
    outcome,    \* of a request: "none", "waiting" or how it closed
    due,        \* requests whose time has run out
    spent,      \* keys that have used the machine link they were given last
    \* the apps, one per key
    app,        \* what it is about, the invite it presents, a nudge to look again
    link,       \* its connection, or None
    \* the server's connections
    key,        \* deviceKey; None for a slot that is free
    inbox,      \* the command on its way in
    task,       \* the step its handler is at, or the sweeper
    unpaired,   \* s.unpaired, the places, in the order of ...
    ahead,      \* ... those that stand before each, having come first
    waits,      \* s.waits
    fired,      \* a deadline's callback that has not run yet
    closing,    \* connections with a close under way
    revoked,    \* c.revoked
    greeted,    \* c.greeted
    dialog,     \* requests the frames queued so far leave on the issuer's screen
    missed,     \* requests a listing that failed did not ask the issuer about there
    left        \* what is left of the bounds

storeVars == <<paired, asker, outcome, due, spent>>
appVars == <<app, link>>
holdVars == <<unpaired, ahead, waits, fired, closing>>
flagVars == <<revoked, greeted, dialog, missed>>
flowVars == <<storeVars, appVars, key, inbox, task, holdVars, flagVars, left>>

Waiting(r) == outcome[r] = "waiting"
Closed(r) == outcome[r] \notin {"none", "waiting"}

At(step) == [at |-> step, r |-> None, todo |-> {}, who |-> None]
Idle == At("read")
On(step, r) == [Idle EXCEPT !.at = step, !.r = r]
\* About to tell both sides that the requests R are over.
Announce(R, who) == IF R = {} THEN Idle
                    ELSE [Idle EXCEPT !.at = "end", !.todo = R, !.who = who]

Goes(a, step) == task' = [task EXCEPT ![a] = step]

FlowInit ==
    /\ paired \in {P \in SUBSET Key : Owner \in P}
    /\ due = {} /\ spent = {}
    /\ asker = [r \in Request |-> None] /\ outcome = [r \in Request |-> "none"]
    /\ app = [k \in Key |-> [at |-> IF k \in paired THEN "in" ELSE "out",
                             r |-> None, nudge |-> FALSE]]
    /\ link = [k \in Key |-> None]
    /\ key = [c \in Conn |-> None] /\ inbox = [c \in Conn |-> None]
    /\ task = [a \in Conn \cup {Sweeper} |-> IF a = Sweeper THEN Idle ELSE At("free")]
    /\ unpaired = {} /\ ahead = [c \in Conn |-> {}] /\ waits = [r \in Request |-> None]
    /\ fired = [c \in Conn |-> "no"] /\ closing = {}
    /\ revoked = {} /\ greeted = {}
    /\ dialog = [c \in Conn |-> {}] /\ missed = [c \in Conn |-> {}]
    /\ left = [tries |-> MaxTries, revokes |-> MaxRevokes, faults |-> MaxFaults]

Fault == left.faults > 0 /\ left' = [left EXCEPT !.faults = @ - 1]

(***************************************************************************)
(* What a connection is held to.  Each operator is one critical section of *)
(* s.mu: it takes the holds as they are and says what they become.         *)
(***************************************************************************)

Hold == [unpaired |-> unpaired, ahead |-> ahead, waits |-> waits, fired |-> fired,
         closing |-> closing]
Held(c) == c \in unpaired \/ \E r \in Request : waits[r] = c

SetHold(h) ==
    /\ unpaired' = h.unpaired /\ ahead' = h.ahead /\ waits' = h.waits
    /\ fired' = h.fired /\ closing' = h.closing

\* letGoLocked, over C: holdGen moves on, so a callback already fired is out of date.
letGoAll(h, C) ==
    [h EXCEPT !.unpaired = @ \ C,
              !.ahead = [c \in Conn |-> IF c \in C THEN {} ELSE @[c] \ C],
              !.waits = [r \in Request |-> IF @[r] \in C THEN None ELSE @[r]],
              !.fired = [c \in Conn |-> IF c \in C /\ @[c] # "no" THEN "stale" ELSE @[c]]]

letGo(h, c) == letGoAll(h, {c})

\* The n that have had their places longest; none for n < 1.
Oldest(h, n) == {c \in h.unpaired : Cardinality(h.ahead[c]) < n}

\* Faulty variant: room is made once there are more than the cap.
PlacesOneMore(h, c) ==
    LET cut  == Oldest(h, Cardinality(h.unpaired) - MaxUnpaired)
        free == letGoAll(h, cut)
    IN  [free EXCEPT !.unpaired = @ \cup {c}, !.ahead[c] = free.unpaired,
                     !.closing = @ \cup cut]

\* placeUnpairedLocked and closeToMakeRoom: the newest, and the oldest are cut
\* while there are too many.
placeUnpaired(h, c) ==
    LET cut  == Oldest(h, Cardinality(h.unpaired) - MaxUnpaired + 1)
        free == letGoAll(h, cut)
    IN  [free EXCEPT !.unpaired = @ \cup {c}, !.ahead[c] = free.unpaired,
                     !.closing = @ \cup cut]

\* Faulty variant: whoever waited is let go, however the request ended.
EndWaitFrees(h, r, how) ==
    IF h.waits[r] = None THEN h ELSE letGo(h, h.waits[r])

endWait(h, r, how) ==
    LET c == h.waits[r]
    IN  IF c = None THEN h
        ELSE IF how = "allowed" THEN letGo(h, c)
        ELSE placeUnpaired(letGo(h, c), c)

\* awaitAnswer up to its unlock: the connection that presented last waits, and
\* the one that waited before is closed.
takeWait(h, r, c) ==
    LET free == letGo(h, c)
        prev == free.waits[r]
        rest == IF prev = None THEN free ELSE letGo(free, prev)
    IN  [rest EXCEPT !.waits[r] = c,
                     !.closing = @ \cup ({prev} \ {None})]

(***************************************************************************)
(* Connections come and go                                                 *)
(***************************************************************************)

\* The app dials.  A stranger that wants nothing dials too, while the bound
\* lasts.
Connect(k, c) ==
    /\ link[k] = None /\ key[c] = None
    /\ IF app[k].at = "out" THEN Fault ELSE UNCHANGED left
    /\ link' = [link EXCEPT ![k] = c]
    /\ key' = [key EXCEPT ![c] = k]
    /\ app' = [app EXCEPT ![k].nudge = (app[k].at = "wait")]
    /\ Goes(c, At("ask"))
    /\ UNCHANGED <<storeVars, inbox, holdVars, flagVars>>

\* handleWS asks whose key it is once the connection is in the registry.  A
\* store that cannot answer counts as "nobody's".
AsksWhose(c) ==
    /\ task[c].at = "ask"
    /\ \/ UNCHANGED left /\ Goes(c, IF key[c] \in paired THEN Idle ELSE At("hold"))
       \/ key[c] \in paired /\ Fault /\ Goes(c, At("hold"))
    /\ UNCHANGED <<storeVars, appVars, key, inbox, holdVars, flagVars>>

holdUnpaired(c) ==
    /\ task[c].at = "hold"
    /\ SetHold(placeUnpaired(Hold, c))
    /\ Goes(c, Idle)
    /\ UNCHANGED <<storeVars, appVars, key, inbox, flagVars, left>>

\* The app loses its connection, or leaves it for another; the server finds out
\* later.
Lost(k) ==
    /\ link[k] # None /\ Fault
    /\ link' = [link EXCEPT ![k] = None]
    /\ app' = [app EXCEPT ![k].at = IF @ = "asked" THEN "wait" ELSE @]
    /\ UNCHANGED <<storeVars, key, inbox, task, holdVars, flagVars>>

\* The handler returns: the connection was closed, or its peer is gone.
untrack(c) ==
    /\ key[c] # None /\ task[c] = Idle
    /\ c \in closing \/ (link[key[c]] # c /\ inbox[c] = None)
    /\ SetHold([letGo(Hold, c) EXCEPT !.fired[c] = "no", !.closing = @ \ {c}])
    /\ key' = [key EXCEPT ![c] = None]
    /\ inbox' = [inbox EXCEPT ![c] = None]
    /\ Goes(c, At("free"))
    /\ revoked' = revoked \ {c} /\ greeted' = greeted \ {c}
    /\ dialog' = [dialog EXCEPT ![c] = {}] /\ missed' = [missed EXCEPT ![c] = {}]
    /\ link' = [k \in Key |-> IF link[k] = c THEN None ELSE link[k]]
    /\ app' = [k \in Key |-> IF link[k] = c /\ app[k].at = "asked"
                             THEN [app[k] EXCEPT !.at = "wait"] ELSE app[k]]
    /\ UNCHANGED <<storeVars, left>>

\* A deadline comes: of a place at any time, of a wait only past its request's.
TimerFires(c) ==
    /\ fired[c] = "no" /\ Fault
    /\ c \in unpaired \/ \E r \in due : waits[r] = c
    /\ fired' = [fired EXCEPT ![c] = "current"]
    /\ UNCHANGED <<storeVars, appVars, key, inbox, task, unpaired, ahead, waits,
                   closing, flagVars>>

\* Faulty variant: holdGen is not compared.
OutOfAnyTime(c) ==
    /\ fired[c] # "no"
    /\ SetHold([letGo([Hold EXCEPT !.fired[c] = "no"], c) EXCEPT !.closing = @ \cup {c}])
    /\ UNCHANGED <<storeVars, appVars, key, inbox, task, flagVars, left>>

\* Closes the connection when the hold the deadline was armed for still stands.
outOfTime(c) ==
    /\ fired[c] # "no"
    /\ LET h == [Hold EXCEPT !.fired[c] = "no"]
       IN  SetHold(IF fired[c] = "current"
                   THEN [letGo(h, c) EXCEPT !.closing = @ \cup {c}] ELSE h)
    /\ UNCHANGED <<storeVars, appVars, key, inbox, task, flagVars, left>>

(***************************************************************************)
(* The apps                                                                *)
(***************************************************************************)

\* A person presents a link on a device: an invite, or a link minted at the
\* machine (no request).  The app restarts its connection first.
Begins(k, r) ==
    /\ app[k].at = "out" /\ left.tries > 0
    /\ app' = [app EXCEPT ![k] = [at |-> "wait", r |-> r, nudge |-> TRUE]]
    /\ link' = [link EXCEPT ![k] = None]
    /\ spent' = spent \ {k}
    /\ left' = [left EXCEPT !.tries = @ - 1]
    /\ UNCHANGED <<paired, asker, outcome, due, key, inbox, task, holdVars, flagVars>>

Send(k, cmd) ==
    /\ link[k] # None /\ inbox[link[k]] = None
    /\ inbox' = [inbox EXCEPT ![link[k]] = cmd]
    /\ UNCHANGED <<storeVars, link, key, task, holdVars, flagVars>>

\* Whatever may have changed the answer has the app present the token again.
Presents(k) ==
    /\ app[k].at = "wait" /\ app[k].nudge
    /\ app' = [app EXCEPT ![k].at = "asked", ![k].nudge = FALSE]
    /\ Send(k, [cmd |-> "pair", r |-> app[k].r])
    /\ UNCHANGED left

\* The withdrawal is followed by another look (_withdraw).
Withdraws(k) ==
    /\ app[k].at = "wait" /\ app[k].r # None /\ ~app[k].nudge
    /\ app' = [app EXCEPT ![k].nudge = TRUE]
    /\ Send(k, [cmd |-> "pair.cancel", r |-> app[k].r])
    /\ UNCHANGED left

Greets(k) ==
    /\ app[k].at = "in" /\ link[k] # None /\ link[k] \notin greeted
    /\ task[link[k]] = Idle
    /\ UNCHANGED app
    /\ Send(k, [cmd |-> "session.hello"])
    /\ UNCHANGED left

\* The owner answers what its screen shows.
Answers(r, allow) ==
    /\ link[Owner] # None /\ r \in dialog[link[Owner]]
    /\ UNCHANGED app
    /\ Send(Owner, [cmd |-> "device.approve", r |-> r, allow |-> allow])
    /\ UNCHANGED left

Revokes(k, d) ==
    /\ left.revokes > 0 /\ link[k] \in greeted
    /\ left' = [left EXCEPT !.revokes = @ - 1]
    /\ UNCHANGED app
    /\ Send(k, [cmd |-> "device.revoke", d |-> d])

\* What the app of connection c makes of an answer, if it still listens there.
\* Paired, it leaves the connection and greets on a new one.
Hears(c, now) ==
    LET k == key[c]
    IN  IF link[k] # c THEN UNCHANGED appVars
        ELSE /\ app' = [app EXCEPT ![k].at = now]
             /\ link' = [link EXCEPT ![k] = IF now = "wait" THEN c ELSE None]

\* pair.resolved on the connections C: each app that listens looks again.
Nudged(C) ==
    app' = [k \in Key |-> [app[k] EXCEPT !.nudge = @ \/ link[k] \in C]]

(***************************************************************************)
(* pair                                                                    *)
(***************************************************************************)

Reads(c, cmd) ==
    /\ task[c] = Idle /\ inbox[c] # None /\ inbox[c].cmd = cmd
    /\ inbox' = [inbox EXCEPT ![c] = None]

\* dispatch: a revoked device's connection runs nothing more.
Refuses(c) ==
    /\ task[c] = Idle /\ inbox[c] # None /\ c \in revoked
    /\ inbox' = [inbox EXCEPT ![c] = None]
    /\ \/ inbox[c].cmd = "session.hello" /\ Hears(c, "out")
       \/ inbox[c].cmd = "pair" /\ Hears(c, "wait")
       \/ inbox[c].cmd \notin {"session.hello", "pair"} /\ UNCHANGED appVars
    /\ UNCHANGED <<storeVars, key, task, holdVars, flagVars, left>>

Runs(c, cmd) == Reads(c, cmd) /\ c \notin revoked

\* store.Pair with a machine link: pairs, or answers its repeat.
pairByLink(c) ==
    LET k == key[c]
    IN  /\ Runs(c, "pair") /\ inbox[c].r = None
        /\ \/ /\ k \notin spent \/ k \in paired
              /\ paired' = paired \cup {k} /\ spent' = spent \cup {k}
              /\ Goes(c, At("settle")) /\ UNCHANGED appVars
           \/ /\ k \in spent \ paired
              /\ Hears(c, "out") /\ UNCHANGED <<task, paired, spent>>
        /\ UNCHANGED <<asker, outcome, due, key, holdVars, flagVars, left>>

\* store.Pair with an invite: opens the request, or answers its repeat.
pairByInvite(c, r) ==
    LET k == key[c]
        mine == asker[r] = k
        opens == outcome[r] = "none" /\ r \notin due /\ Owner \in paired
        late == mine /\ Waiting(r) /\ r \in due
    IN  /\ Runs(c, "pair") /\ inbox[c].r = r
        /\ asker' = IF opens THEN [asker EXCEPT ![r] = k] ELSE asker
        /\ outcome' = [outcome EXCEPT ![r] = IF opens THEN "waiting"
                                             ELSE IF late THEN "expired" ELSE @]
        /\ \/ /\ opens \/ (mine /\ Waiting(r) /\ ~late)
              /\ Goes(c, [On("await", r) EXCEPT !.todo = IF opens THEN {r} ELSE {}])
              /\ UNCHANGED appVars
           \/ late /\ Hears(c, "out") /\ Goes(c, Announce({r}, None))
           \/ /\ mine /\ outcome[r] = "allowed" /\ k \in paired
              /\ Goes(c, At("settle")) /\ UNCHANGED appVars
           \/ /\ ~opens /\ ~(mine /\ Waiting(r))
              /\ ~(mine /\ outcome[r] = "allowed" /\ k \in paired)
              /\ Hears(c, "out") /\ UNCHANGED task
        /\ UNCHANGED <<paired, due, spent, key, holdVars, flagVars, left>>

\* settleUnpaired, then the reply.
Settles(c) ==
    /\ task[c].at = "settle"
    /\ SetHold(letGo(Hold, c))
    /\ Hears(c, "in")
    /\ Goes(c, Idle)
    /\ UNCHANGED <<storeVars, key, inbox, flagVars, left>>

\* awaitAnswer: a connection held to nothing has nothing to be exempt from.
awaitAnswer(c) ==
    LET r == task[c].r
    IN  /\ task[c].at = "await"
        /\ SetHold(IF Held(c) THEN takeWait(Hold, r, c) ELSE Hold)
        /\ Goes(c, [task[c] EXCEPT !.at = IF Held(c) THEN "reread" ELSE "pending"])
        /\ UNCHANGED <<storeVars, appVars, key, inbox, flagVars, left>>

\* The reply says "pending" whatever has happened since the transaction; the
\* issuer is asked after it, if this call opened the request.
RepliesPending(c) ==
    /\ Hears(c, "wait")
    /\ Goes(c, IF task[c].todo = {} THEN Idle ELSE [task[c] EXCEPT !.at = "opened"])

\* Faulty variant: the store's "pending" is believed.
BelievesPending(c) ==
    /\ task[c].at = "reread"
    /\ RepliesPending(c)
    /\ UNCHANGED <<storeVars, key, inbox, holdVars, flagVars, left>>

\* The request may have closed before the wait took hold: it is read again.
\* A store that cannot answer counts as "no longer waiting".
ReadsAgain(c) ==
    LET r == task[c].r
    IN  /\ task[c].at = "reread"
        /\ \/ /\ SetHold(IF Closed(r) THEN endWait(Hold, r, outcome[r]) ELSE Hold)
              /\ UNCHANGED left
           \/ SetHold(endWait(Hold, r, "unread")) /\ Fault
        /\ RepliesPending(c)
        /\ UNCHANGED <<storeVars, key, inbox, flagVars>>

RepliesUnheld(c) ==
    /\ task[c].at = "pending"
    /\ RepliesPending(c)
    /\ UNCHANGED <<storeVars, key, inbox, holdVars, flagVars, left>>

IssuersScreens == {c \in greeted : key[c] = Owner}

announcePairRequested(c) ==
    /\ task[c].at = "opened"
    /\ dialog' = [i \in Conn |-> IF i \in IssuersScreens THEN dialog[i] \cup task[c].todo
                                  ELSE dialog[i]]
    /\ Goes(c, Idle)
    /\ UNCHANGED <<storeVars, appVars, key, inbox, holdVars, revoked, greeted, missed, left>>

(***************************************************************************)
(* How a request ends                                                      *)
(***************************************************************************)

Close(R, how) == outcome' = [r \in Request |-> IF r \in R THEN how ELSE outcome[r]]

handlePairCancel(c) ==
    LET r == inbox[c].r
        mine == Waiting(r) /\ asker[r] = key[c]
    IN  /\ Runs(c, "pair.cancel")
        /\ Close({q \in {r} : mine}, IF r \in due THEN "expired" ELSE "cancelled")
        /\ Goes(c, IF mine THEN Announce({r}, None) ELSE Idle)
        /\ UNCHANGED <<paired, asker, due, spent, appVars, key, holdVars, flagVars, left>>

\* An answer to a request that is not there any more closes the dialog too.
handleDeviceApprove(c) ==
    LET r == inbox[c].r
        ok == key[c] \in paired /\ Waiting(r) /\ r \notin due
        yes == ok /\ inbox[c].allow
    IN  /\ Runs(c, "device.approve")
        /\ Close({q \in {r} : ok}, IF yes THEN "allowed" ELSE "denied")
        /\ paired' = paired \cup {asker[q] : q \in {q \in {r} : yes}}
        /\ dialog' = [dialog EXCEPT ![c] = @ \ {q \in {r} : key[c] \in paired}]
        /\ Goes(c, IF ok THEN Announce({r}, None) ELSE Idle)
        /\ UNCHANGED <<asker, due, spent, appVars, key, holdVars, revoked, greeted, missed, left>>

\* RevokeDeviceAs closes what the device asked for, and what it was asked.
handleDeviceRevoke(c) ==
    LET d == inbox[c].d
        ends == {r \in Request : Waiting(r) /\ (d = Owner \/ asker[r] = d)}
        ok == key[c] \in paired
    IN  /\ Runs(c, "device.revoke")
        /\ \/ /\ ok
              /\ paired' = paired \ {d}
              /\ outcome' = [r \in Request |-> IF r \notin ends THEN outcome[r]
                                               ELSE IF r \in due THEN "expired" ELSE "denied"]
              /\ Goes(c, [Announce(ends, d) EXCEPT !.at = "drop", !.who = d])
           \/ ~ok /\ UNCHANGED <<paired, outcome, task>>
        /\ UNCHANGED <<asker, due, spent, appVars, key, holdVars, flagVars, left>>

\* dropDevice, over every connection of the key; each is told, then closed.
dropDevice(c) ==
    LET doomed == {x \in Conn : key[x] = task[c].who}
    IN  /\ task[c].at = "drop"
        /\ revoked' = revoked \cup doomed
        /\ SetHold([letGoAll(Hold, doomed) EXCEPT !.closing = @ \cup doomed])
        /\ app' = [k \in Key |-> IF link[k] \in doomed /\ app[k].at = "in"
                                 THEN [app[k] EXCEPT !.at = "out"] ELSE app[k]]
        /\ Goes(c, Announce(task[c].todo, task[c].who))
        /\ UNCHANGED <<storeVars, link, key, inbox, greeted, dialog, missed, left>>

\* Faulty variant: its connections that have greeted, like the issuer's.
GreetedAskers(r) == {c \in greeted : key[c] = asker[r]}

\* tellNewDevice: its connections that have not greeted.
Askers(r) == {c \in Conn : key[c] # None /\ key[c] = asker[r] /\ c \notin greeted}

\* announcePairClosed, by a connection's handler or by the sweeper: the wait
\* ends first ...
EndsWait(a) ==
    /\ task[a].at = "end"
    /\ \E r \in task[a].todo :
         /\ SetHold(endWait(Hold, r, outcome[r]))
         /\ Goes(a, [task[a] EXCEPT !.at = "tell", !.r = r])
    /\ UNCHANGED <<storeVars, appVars, key, inbox, flagVars, left>>

\* ... then both sides are told; an issuer just revoked is not.
TellsBoth(a) ==
    LET r == task[a].r
    IN  /\ task[a].at = "tell"
        /\ Nudged(Askers(r))
        /\ dialog' = [i \in Conn |-> IF i \in IssuersScreens /\ task[a].who # Owner
                                      THEN dialog[i] \ {r} ELSE dialog[i]]
        /\ Goes(a, Announce(task[a].todo \ {r}, task[a].who))
        /\ UNCHANGED <<storeVars, link, key, inbox, holdVars, revoked, greeted, missed, left>>

TimeUp(r) ==
    /\ r \notin due /\ ~Closed(r)
    /\ due' = due \cup {r}
    /\ UNCHANGED <<paired, asker, outcome, spent, appVars, key, inbox, task, holdVars,
                   flagVars, left>>

\* ExpirePairRequests; the ticker keeps no other work waiting.
runRequestSweeper ==
    LET ends == {r \in due : Waiting(r)}
    IN  /\ task[Sweeper] = Idle /\ ends # {}
        /\ Close(ends, "expired")
        /\ Goes(Sweeper, Announce(ends, None))
        /\ UNCHANGED <<paired, asker, due, spent, appVars, key, inbox, holdVars, flagVars, left>>

(***************************************************************************)
(* session.hello, as far as pairing goes                                   *)
(***************************************************************************)

ResolvesIdentity(c) ==
    /\ Runs(c, "session.hello")
    /\ \/ key[c] \in paired /\ Goes(c, At("mark")) /\ UNCHANGED appVars
       \/ key[c] \notin paired /\ Hears(c, "out") /\ UNCHANGED task
    /\ UNCHANGED <<storeVars, key, holdVars, flagVars, left>>

\* settleUnpaired, the reply, markGreeted.
markGreeted(c) ==
    /\ task[c].at = "mark"
    /\ SetHold(letGo(Hold, c))
    /\ greeted' = greeted \cup {c}
    /\ Goes(c, At("list"))
    /\ UNCHANGED <<storeVars, appVars, key, inbox, revoked, dialog, missed, left>>

\* WaitingPairRequests of the connection's device.
WaitingFor(k) == {r \in Request : k = Owner /\ Waiting(r) /\ r \notin due}

\* Faulty variant: a greeting hands over nothing.
ListsNothing(c) ==
    /\ task[c].at = "list" /\ Goes(c, Idle)
    /\ UNCHANGED <<storeVars, appVars, key, inbox, holdVars, flagVars, left>>

\* resendPairRequests reads what waits ...  A store that cannot answer ends it:
\* the connection stays greeted and is asked nothing.
ListsWaiting(c) ==
    LET open == WaitingFor(key[c])
    IN  /\ task[c].at = "list"
        /\ \/ /\ Goes(c, IF open = {} THEN Idle ELSE [At("resend") EXCEPT !.todo = open])
              /\ UNCHANGED <<missed, left>>
           \/ /\ Fault /\ Goes(c, Idle)
              /\ missed' = [missed EXCEPT ![c] = @ \cup open]
        /\ UNCHANGED <<storeVars, appVars, key, inbox, holdVars, revoked, greeted, dialog>>

\* ... asks about each ...
Resends(c) ==
    /\ task[c].at = "resend"
    /\ dialog' = [dialog EXCEPT ![c] = @ \cup task[c].todo]
    /\ Goes(c, [task[c] EXCEPT !.at = "recheck"])
    /\ UNCHANGED <<storeVars, appVars, key, inbox, holdVars, revoked, greeted, missed, left>>

\* ... and takes back what closed meanwhile, if the store can say.
Rechecks(c) ==
    /\ task[c].at = "recheck"
    /\ \/ /\ dialog' = [dialog EXCEPT ![c] = @ \ (task[c].todo \ WaitingFor(key[c]))]
          /\ UNCHANGED left
       \/ Fault /\ UNCHANGED dialog
    /\ Goes(c, Idle)
    /\ UNCHANGED <<storeVars, appVars, key, inbox, holdVars, revoked, greeted, missed>>

(***************************************************************************)
(* The specification                                                       *)
(***************************************************************************)

OnInvite(c) == \E r \in Request : pairByInvite(c, r)

\* What a connection's own goroutine does next.
Serves(c) ==
    \/ AsksWhose(c) \/ holdUnpaired(c) \/ untrack(c) \/ Refuses(c)
    \/ pairByLink(c) \/ OnInvite(c) \/ Settles(c)
    \/ awaitAnswer(c) \/ ReadsAgain(c) \/ RepliesUnheld(c) \/ announcePairRequested(c)
    \/ handlePairCancel(c) \/ handleDeviceApprove(c)
    \/ handleDeviceRevoke(c) \/ dropDevice(c)
    \/ ResolvesIdentity(c) \/ markGreeted(c)
    \/ ListsWaiting(c) \/ Resends(c) \/ Rechecks(c)

Announces(a) == EndsWait(a) \/ TellsBoth(a)

Dials(k) == \E c \in Conn : Connect(k, c)

\* What the app does by itself, and what a person may do.
AppActs(k) == (app[k].at # "out" /\ Dials(k)) \/ Presents(k) \/ Greets(k)

PersonActs(k) ==
    \/ app[k].at = "out" /\ Dials(k)
    \/ Lost(k) \/ Withdraws(k)
    \/ \E r \in Request \cup {None} : Begins(k, r)
    \/ \E d \in Key : Revokes(k, d)

FlowNext ==
    \/ \E c \in Conn : Serves(c) \/ TimerFires(c) \/ outOfTime(c)
    \/ \E a \in Conn \cup {Sweeper} : Announces(a)
    \/ runRequestSweeper
    \/ \E k \in Key : AppActs(k) \/ PersonActs(k)
    \/ \E r \in Request : TimeUp(r) \/ \E allow \in BOOLEAN : Answers(r, allow)

FlowSpec == FlowInit /\ [][FlowNext]_flowVars

\* Handlers, the sweep and callbacks run; invites run out; an app that is in or
\* wants to be dials, presents and greets by itself.
FairFlowSpec ==
    /\ FlowSpec
    /\ \A c \in Conn : WF_flowVars(Serves(c) \/ Announces(c)) /\ WF_flowVars(outOfTime(c))
    /\ WF_flowVars(runRequestSweeper \/ Announces(Sweeper))
    /\ \A r \in Request : WF_flowVars(TimeUp(r))
    /\ \A k \in Key : WF_flowVars(AppActs(k))

(***************************************************************************)
(* What it promises                                                        *)
(***************************************************************************)

\* Every variable has its type; there are never more places than the cap, and a
\* connection has a place or waits, never both (placeUnpairedLocked).
FlowTypeOK ==
    /\ paired \subseteq Key /\ due \subseteq Request /\ spent \subseteq Key
    /\ asker \in [Request -> Key \cup {None}]
    /\ outcome \in [Request -> {"none", "waiting", "allowed", "denied", "expired", "cancelled"}]
    /\ link \in [Key -> Conn \cup {None}] /\ key \in [Conn -> Key \cup {None}]
    /\ waits \in [Request -> Conn \cup {None}]
    /\ fired \in [Conn -> {"no", "current", "stale"}]
    /\ closing \cup revoked \cup greeted \subseteq {c \in Conn : key[c] # None}
    /\ dialog \in [Conn -> SUBSET Request] /\ missed \in [Conn -> SUBSET Request]
    /\ Cardinality(unpaired) <= MaxUnpaired /\ ahead \in [Conn -> SUBSET unpaired]
    /\ \A c \in unpaired, r \in Request : waits[r] # c

\* A revocation of k that has committed and is about to drop its connections.
DropOnItsWay(k) == \E a \in Conn : task[a].at = "drop" /\ task[a].who = k

\* No connection of a key nobody paired escapes the limits: once the server has
\* asked whose it is, it has a place or waits on a request, unless it is being
\* closed or is about to be (handleWS, endWait, dropDevice).
StrangersAreHeld ==
    \A c \in Conn :
      key[c] # None /\ key[c] \notin paired /\ task[c].at \notin {"ask", "hold"}
        => Held(c) \/ c \in closing \/ DropOnItsWay(key[c])

Telling(a, r) == task[a].at \in {"drop", "end", "tell"} /\ r \in task[a].todo

\* Nobody waits in vain: when a request has closed, the connection that waits on
\* it is about to read so itself, or somebody is about to let go of it - the
\* wait's own deadline, minutes away, is not needed (awaitAnswer).
NobodyWaitsInVain ==
    \A r \in Request : Closed(r) /\ waits[r] # None =>
      \/ task[waits[r]].at = "reread" /\ task[waits[r]].r = r
      \/ \E a \in Conn \cup {Sweeper} : Telling(a, r)

\* A connection that waits for an answer still to come is closed by nobody but a
\* revocation or a connection that took its wait over: no newcomer pushes it out
\* and no deadline of the place it had before reaches it (armLocked, holdGen).
PatienceKept ==
    [][\A r \in Request, c \in Conn :
         waits[r] = c /\ Waiting(r) /\ r \notin due /\ c \in closing' \ closing
           => c \in revoked' \/ waits'[r] \in Conn \ {c}]_flowVars

\* The ask of r is on its way to the issuer's connection c.
Asking(c, r) ==
    \/ task[c].at = "list" \/ (task[c].at = "resend" /\ r \in task[c].todo)
    \/ \E a \in Conn : task[a].at \in {"await", "reread", "pending", "opened"}
                       /\ r \in task[a].todo

\* Every waiting request is on every screen of the issuer, or on its way there:
\* one that opens while a connection greets falls between neither
\* announcePairRequested nor resendPairRequests.  Only a listing that failed
\* leaves out what waited then; what opens later is asked there all the same.
OwnerIsAsked ==
    \A r \in Request, c \in IssuersScreens :
      Waiting(r) /\ r \notin due /\ c \notin closing
        => r \in dialog[c] \/ Asking(c, r) \/ r \in missed[c]

\* A device that presents its invite learns how it ends: in, or out
\* (tellNewDevice, runRequestSweeper, the repeat of pair).
AskerLearns ==
    \A k \in Key : app[k].at \in {"asked", "wait"} ~> app[k].at \in {"in", "out"}
=============================================================================
