------------------------------- MODULE Channel -------------------------------
(***************************************************************************)
(* The main port of noxd, from the accepted socket to the request that is  *)
(* served: the entry's limits on connections still proving who they are,   *)
(* the check of POST /auth and POST /auth2, the hand-over to the HTTP      *)
(* server, the door every request passes, and the cut of a revoked         *)
(* device's transfers.  A session opened at /ws goes on in PairFlow.       *)
(*                                                                         *)
(* TLS and the signatures are external: a signature verifies exactly when  *)
(* the key shown made it over this connection's challenge.                 *)
(***************************************************************************)
EXTENDS Integers, FiniteSets

CONSTANTS
    Conn,         \* connections the server can have at a time
    Source,       \* what a connection counts against (sourceOf)
    Here,         \* localSource: this machine, where tor connects from
    Key,          \* device keys
    Guest,        \* those of devices that pair here; the others stay strangers
    None,
    MaxPending,   \* l.maxPending
    MaxPerSource, \* l.maxPerSource
    MaxLocal      \* l.maxLocal

ASSUME ChannelAssumption ==
    /\ Here \in Source /\ Guest \subseteq Key
    /\ None \notin Conn \cup Key
    /\ {MaxPending, MaxPerSource, MaxLocal} \subseteq Nat \ {0}

VARIABLES
    \* a connection
    phase,      \* how far it is; "free" for a slot with none
    source,     \* of a connection that was accepted
    device,     \* whose private key the peer holds
    shown,      \* the key it named in /auth
    cut,        \* connections whose socket the server has closed
    \* channelListener
    pending,    \* handshakes under way, a list ...
    ahead,      \* ... as those that stand before each, having come first
    bySource,   \* and their number from each source
    acceptor,   \* acceptLoop: what it is to close and to start
    listener,   \* how far Close has come
    serving,    \* http.Server still calls Accept
    shed,       \* something was cut since the last warning
    flush,      \* shedFlush
    \* the server behind it
    paired,     \* keys with a row in devices
    dropping,   \* keys whose revocation is committed and not yet carried out
    transfers,  \* s.transfers
    last        \* connections that end with the answer to their request

connVars == <<phase, source, device, shown>>
entryVars == <<pending, ahead, bySource, shed, flush>>
lifeVars == <<acceptor, listener, serving>>
httpVars == <<paired, dropping, transfers, last>>
channelVars == <<connVars, cut, entryVars, lifeVars, httpVars>>

\* What a handshake waits for from its peer, in order.
Proving == {"auth", "auth2"}
\* verify has returned, and the handshake is still to leave the entry.
Verified == {"passed", "failed"}
\* Requests behind the check.
Asking == {"file", "tracked", "moving"}

ChannelInit ==
    /\ phase = [c \in Conn |-> "free"] /\ source = [c \in Conn |-> Here]
    /\ device = [c \in Conn |-> None] /\ shown = [c \in Conn |-> None]
    /\ cut = {}
    /\ pending = {} /\ ahead = [c \in Conn |-> {}] /\ bySource = [s \in Source |-> 0]
    /\ acceptor = [at |-> "accept", close |-> {}, start |-> None]
    /\ listener = "open" /\ serving = TRUE
    /\ shed = FALSE /\ flush = "none"
    /\ paired \in SUBSET Guest /\ dropping = {} /\ transfers = {} /\ last = {}

Goes(c, p) == phase' = [phase EXCEPT ![c] = p]

\* The connection is over: its socket is closed, the slot free.
Ended(c) ==
    /\ Goes(c, "free")
    /\ cut' = cut \ {c} /\ last' = last \ {c}
    /\ device' = [device EXCEPT ![c] = None]
    /\ shown' = [shown EXCEPT ![c] = None]
    /\ source' = [source EXCEPT ![c] = Here]

(***************************************************************************)
(* The entry                                                               *)
(***************************************************************************)

Share(s) == IF s = Here THEN MaxLocal ELSE MaxPerSource

Entry == [pending |-> pending, bySource |-> bySource]

forget(e, C) ==
    [pending |-> e.pending \ C,
     bySource |-> [s \in Source |-> e.bySource[s] - Cardinality({c \in C : source[c] = s})]]

\* Who stands before whom once only P are in the list.
Kept(P) == [c \in Conn |-> IF c \in P THEN ahead[c] \cap P ELSE {}]

\* The n of C that come first in the list; none for n < 1.
Oldest(C, n) == {c \in C : Cardinality(ahead[c] \cap C) < n}

\* The oldest of source s, as many as are over its share.
cutInSource(e, s) ==
    Oldest({c \in e.pending : source[c] = s}, e.bySource[s] - Share(s) + 1)

cutInEntry(e) == Oldest(e.pending, Cardinality(e.pending) - MaxPending + 1)

\* Faulty variant: within the entry first.
MakesRoomAnywhere(s) ==
    LET others == cutInEntry(Entry)
    IN  [own |-> cutInSource(forget(Entry, others), s), others |-> others]

\* Room is made within the source first, then within the entry.
makesRoom(s) ==
    LET own == cutInSource(Entry, s)
    IN  [own |-> own, others |-> cutInEntry(forget(Entry, own))]

shedLocked(out) ==
    /\ shed' = (shed \/ out # {})
    /\ flush' = IF out # {} /\ flush = "none" THEN "armed" ELSE flush

\* A connection is accepted and admitted; those that make room for it are closed
\* outside the lock, before its handshake starts.
admit(c, s) ==
    LET room == makesRoom(s)
        out == room.own \cup room.others
        e == forget(Entry, out)
    IN  /\ acceptor.at = "accept" /\ listener = "open"
        /\ phase[c] = "free"
        /\ Goes(c, "admitted")
        /\ source' = [source EXCEPT ![c] = s]
        /\ pending' = e.pending \cup {c}
        /\ ahead' = [Kept(e.pending) EXCEPT ![c] = e.pending]
        /\ bySource' = [e.bySource EXCEPT ![s] = @ + 1]
        /\ shedLocked(out)
        /\ acceptor' = [at |-> "close", close |-> out, start |-> c]
        /\ UNCHANGED <<device, shown, cut, listener, serving, httpVars>>

ClosesCut ==
    /\ acceptor.at = "close"
    /\ cut' = cut \cup {c \in acceptor.close : phase[c] # "free"}
    /\ Goes(acceptor.start, "auth")
    /\ acceptor' = [at |-> "accept", close |-> {}, start |-> None]
    /\ UNCHANGED <<source, device, shown, entryVars, listener, serving, httpVars>>

\* warnShed, when its minute is up.
TimerFires ==
    /\ flush = "armed" /\ flush' = "fired"
    /\ UNCHANGED <<connVars, cut, pending, ahead, bySource, shed, lifeVars, httpVars>>

warnShed ==
    /\ flush = "fired"
    /\ flush' = "none" /\ shed' = FALSE
    /\ UNCHANGED <<connVars, cut, pending, ahead, bySource, lifeVars, httpVars>>

(***************************************************************************)
(* A handshake                                                             *)
(***************************************************************************)

\* Nothing of the peer is kept when the check fails.
Fails(c) ==
    /\ Goes(c, "failed")
    /\ device' = [device EXCEPT ![c] = None] /\ shown' = [shown EXCEPT ![c] = None]

\* A request that is not the step asked for, a malformed body, a peer that leaves, a
\* socket that is closed, the first byte's deadline, the budget, the listener's end.
Refused(c) ==
    /\ phase[c] \in Proving /\ Fails(c)
    /\ UNCHANGED <<source, cut, entryVars, lifeVars, httpVars>>

\* A step of the check passes: the socket is open and the context has not ended.
Passes(c, from, to) ==
    /\ phase[c] = from /\ c \notin cut /\ listener = "open"
    /\ Goes(c, to)
    /\ UNCHANGED <<source, cut, entryVars, lifeVars, httpVars>>

\* TLS and POST /auth, from a peer that holds the private key d and names k.
Auth(c, d, k) ==
    /\ Passes(c, "auth", "auth2")
    /\ device' = [device EXCEPT ![c] = d] /\ shown' = [shown EXCEPT ![c] = k]

\* Faulty variant: the signature is not checked against the key shown in /auth.
VerifiesAnyKey(c, over) == over = c

\* The signature is made with the peer's own key over some challenge of the server's;
\* it holds if the key shown is the peer's and the challenge this connection's.
Verifies(c, over) == shown[c] = device[c] /\ over = c

Auth2(c, over) ==
    /\ Verifies(c, over) /\ Passes(c, "auth2", "passed")
    /\ UNCHANGED <<device, shown>>

\* The handshake's goroutine goes on after verify: with the connection, or closes it.
HandsOver(c, good) ==
    \/ /\ good /\ Goes(c, "ready") /\ source' = [source EXCEPT ![c] = Here]
       /\ UNCHANGED <<device, shown, cut, last>>
    \/ ~good /\ Ended(c)

Leaves(c, good, e) ==
    /\ phase[c] \in Verified
    /\ pending' = e.pending /\ ahead' = Kept(e.pending) /\ bySource' = e.bySource
    /\ HandsOver(c, good)
    /\ UNCHANGED <<shed, flush, lifeVars, paired, dropping, transfers>>

\* Faulty variants: what passed is handed out, cut to make room or not; what was
\* cut is counted out again.
LeavesPassed(c) ==
    Leaves(c, phase[c] = "passed", IF c \in pending THEN forget(Entry, {c}) ELSE Entry)
LeavesTwice(c) ==
    Leaves(c, phase[c] = "passed" /\ c \in pending, forget(Entry, {c}))

\* Passed or not, the handshake is over; one cut to make room is closed.
leave(c) ==
    LET there == c \in pending
    IN  Leaves(c, phase[c] = "passed" /\ there, IF there THEN forget(Entry, {c}) ELSE Entry)

\* A connection nobody takes any more: ctx is done.
GivesUp(c) ==
    /\ phase[c] = "ready" /\ listener # "open"
    /\ Ended(c)
    /\ UNCHANGED <<entryVars, lifeVars, paired, dropping, transfers>>

(***************************************************************************)
(* The listener                                                            *)
(***************************************************************************)

\* Accept hands out a connection that passed; one taken after Close is closed.
Accept(c) ==
    /\ serving /\ phase[c] = "ready"
    /\ \/ listener \in {"open", "cancelled"} /\ Goes(c, "served")
          /\ UNCHANGED <<source, device, shown, cut, last, serving>>
       \/ listener \notin {"open", "cancelled"} /\ Ended(c) /\ serving' = FALSE
    /\ UNCHANGED <<entryVars, acceptor, listener, paired, dropping, transfers>>

AcceptEnds ==
    /\ serving /\ listener \notin {"open", "cancelled"}
    /\ serving' = FALSE
    /\ UNCHANGED <<connVars, cut, entryVars, acceptor, listener, httpVars>>

CloseTo(from, to) ==
    /\ listener = from /\ listener' = to
    /\ UNCHANGED <<connVars, cut, pending, ahead, bySource, serving, httpVars>>

\* Close: the context and the raw listener, then the mark ...
Cancels == CloseTo("open", "cancelled") /\ UNCHANGED <<acceptor, shed, flush>>
MarksClosed == CloseTo("cancelled", "marked") /\ UNCHANGED <<acceptor, shed, flush>>

\* The accept loop finds the raw listener closed.
LoopEnds ==
    /\ acceptor.at = "accept" /\ listener # "open"
    /\ acceptor' = [acceptor EXCEPT !.at = "ended"]
    /\ UNCHANGED <<connVars, cut, entryVars, listener, serving, httpVars>>

\* ... then it waits for the loop and every handshake.
Underway == {c \in Conn : phase[c] \in {"admitted", "ready"} \cup Proving \cup Verified}

\* Faulty variant: the handshakes are not waited for.
WaitsForLoop == CloseTo("marked", "waited") /\ acceptor.at = "ended"
                /\ UNCHANGED <<acceptor, shed, flush>>

WaitsForAll == CloseTo("marked", "waited") /\ acceptor.at = "ended" /\ Underway = {}
               /\ UNCHANGED <<acceptor, shed, flush>>

\* Faulty variant: a warning that waits for its minute is dropped.
DropsWarning == CloseTo("waited", "closed") /\ UNCHANGED <<acceptor, shed>>
                /\ flush' = IF flush = "armed" THEN "none" ELSE flush

\* A warning that waits for its minute goes out now.
FlushesWarning ==
    /\ CloseTo("waited", "closed") /\ UNCHANGED acceptor
    /\ flush' = IF flush = "armed" THEN "none" ELSE flush
    /\ shed' = IF flush = "armed" THEN FALSE ELSE shed

(***************************************************************************)
(* Behind the check: the door and the transfers                            *)
(***************************************************************************)

Http(c, from) ==
    /\ phase[c] = from
    /\ UNCHANGED <<entryVars, lifeVars>>

\* The key the requests of a connection speak for.
peer(c) == shown[c]

\* The answer is out: net/http keeps the connection, or ends it.
Keeps(c, ends) ==
    \/ ~ends /\ Goes(c, "served") /\ UNCHANGED <<source, device, shown, cut, last>>
    \/ ends /\ Ended(c)

\* limitStrangers: a key nobody paired gets one answer on its connection.  A store
\* that cannot answer counts as "nobody's".
Door(c, stranger) ==
    /\ Http(c, "served") /\ c \notin cut
    /\ stranger \/ peer(c) \in paired
    /\ \/ /\ Goes(c, "file") /\ last' = IF stranger THEN last \cup {c} ELSE last
          /\ UNCHANGED <<source, device, shown, cut>>
       \/ Keeps(c, stranger)
    /\ UNCHANGED <<paired, dropping, transfers>>

\* admitTransfer registers the transfer ...
trackTransfer(c) ==
    /\ Http(c, "file") /\ Goes(c, "tracked")
    /\ transfers' = transfers \cup {c}
    /\ UNCHANGED <<source, device, shown, cut, paired, dropping, last>>

\* Faulty variant: the door has asked already.
AdmitsUnasked(c) ==
    /\ Http(c, "tracked")
    /\ \/ /\ c \notin last /\ Goes(c, "moving")
          /\ UNCHANGED <<source, device, shown, cut, last, transfers>>
       \/ c \in last /\ Ended(c) /\ transfers' = transfers \ {c}
    /\ UNCHANGED <<paired, dropping>>

\* ... and only then asks whose key it is; a 401 ends the connection, a store
\* that cannot answer is a 500.
admitTransfer(c) ==
    /\ Http(c, "tracked")
    /\ \/ /\ peer(c) \in paired /\ Goes(c, "moving")
          /\ UNCHANGED <<source, device, shown, cut, last, transfers>>
       \/ /\ Keeps(c, peer(c) \notin paired \/ c \in last \cup cut)
          /\ transfers' = transfers \ {c}
    /\ UNCHANGED <<paired, dropping>>

\* The bytes are over, or the socket is gone under them.
TransferEnds(c) ==
    /\ Http(c, "moving") /\ Keeps(c, c \in last \cup cut)
    /\ transfers' = transfers \ {c}
    /\ UNCHANGED <<paired, dropping>>

\* The upgrade makes a session of it; the idle timeout, a peer that leaves or the
\* HTTP server's own shutdown end it.
Departs(c) ==
    /\ Http(c, "served") /\ Ended(c)
    /\ UNCHANGED <<paired, dropping, transfers>>

Pairs(k) ==
    /\ k \notin paired /\ paired' = paired \cup {k}
    /\ UNCHANGED <<connVars, cut, entryVars, lifeVars, dropping, transfers, last>>

\* device.revoke: the row first ...
Revokes(k) ==
    /\ k \in paired \ dropping
    /\ paired' = paired \ {k} /\ dropping' = dropping \cup {k}
    /\ UNCHANGED <<connVars, cut, entryVars, lifeVars, transfers, last>>

\* ... then the walk over the registry (dropDevice).
dropTransfers(k) ==
    /\ k \in dropping /\ dropping' = dropping \ {k}
    /\ cut' = cut \cup {c \in transfers : peer(c) = k}
    /\ UNCHANGED <<connVars, entryVars, lifeVars, paired, transfers, last>>

(***************************************************************************)
(* The specification                                                       *)
(***************************************************************************)

Handshakes(c) ==
    \/ (\E d, k \in Key : Auth(c, d, k)) \/ (\E o \in Conn : Auth2(c, o))
    \/ Refused(c) \/ leave(c) \/ GivesUp(c)

Requests(c) ==
    \/ (\E b \in BOOLEAN : Door(c, b)) \/ Departs(c)
    \/ trackTransfer(c) \/ admitTransfer(c) \/ TransferEnds(c)

Close == Cancels \/ MarksClosed \/ WaitsForAll \/ FlushesWarning

ChannelNext ==
    \/ \E c \in Conn : Handshakes(c) \/ Requests(c) \/ Accept(c)
    \/ \E c \in Conn, s \in Source : admit(c, s)
    \/ ClosesCut \/ LoopEnds \/ AcceptEnds \/ Close
    \/ TimerFires \/ warnShed
    \/ \E k \in Guest : Pairs(k) \/ Revokes(k) \/ dropTransfers(k)

ChannelSpec == ChannelInit /\ [][ChannelNext]_channelVars

(***************************************************************************)
(* What it promises                                                        *)
(***************************************************************************)

\* Every variable has its type; the counts match the list, and neither the entry
\* nor a source holds more handshakes than its limit (admit, forgetLocked).
ChannelTypeOK ==
    /\ phase \in [Conn -> {"free", "admitted", "ready", "served"}
                           \cup Proving \cup Verified \cup Asking]
    /\ source \in [Conn -> Source]
    /\ device \in [Conn -> Key \cup {None}] /\ shown \in [Conn -> Key \cup {None}]
    /\ cut \subseteq Conn /\ transfers \subseteq Conn /\ last \subseteq Conn
    /\ \A s \in Source : /\ bySource[s] = Cardinality({c \in pending : source[c] = s})
                         /\ bySource[s] <= Share(s)
    /\ Cardinality(pending) <= MaxPending

\* A flood competes with itself: a source already at its share makes room among
\* its own handshakes and never pushes out another source's (admit).
FloodStaysHome ==
    [][\A c \in Conn : phase[c] = "free" /\ phase'[c] = "admitted"
                         /\ bySource[source'[c]] = Share(source'[c])
         => \A x \in acceptor'.close : source[x] = source'[c]]_channelVars

\* A connection cut to make room is not handed to the HTTP server, even if its
\* check passed before the socket was closed (leave).
CutIsNeverServed ==
    [][\A c \in Conn : phase[c] = "ready" /\ phase'[c] = "served"
         => c \notin cut \cup acceptor.close]_channelVars

\* When Close has returned, no handshake can touch a connection any more, no
\* connection that passed is left open and untaken, and whatever was shed has
\* been or is being reported (Close, Accept, shedLocked, warnShed).
ClosedLeavesNothing ==
    listener = "closed" => Underway = {} /\ pending = {} /\ (shed => flush = "fired")

\* Bytes move only for a peer that holds the private key of a paired device, or
\* of one whose transfers are cut or about to be: the row was there after the
\* transfer was registered, so the walk that follows a revocation finds it
\* (respondAuth2, admitTransfer, dropDevice).
OnlyPairedTransfer ==
    \A c \in Conn : phase[c] = "moving" => device[c] \in paired \cup dropping \/ c \in cut
=============================================================================
