---------------------------- MODULE OrderedFeed ----------------------------
(***************************************************************************)
(* What the sync protocol promises a device, without connections, queues   *)
(* or cursors on the wire: the journal is a feed that every device works   *)
(* through in order, one event after the other, none left out and none     *)
(* twice.  Only a device that starts with no place in the feed may choose  *)
(* one: it then takes everything before that place from list reads.  And   *)
(* only an event published while the crier is not awake may go unsaid to   *)
(* some devices, which may then be led past it.                            *)
(***************************************************************************)
EXTENDS Integers

CONSTANTS Device, Limit   \* Limit: the events published at most

VARIABLES
    feed,    \* how many events have been published
    place,   \* the last event each device has worked through; Nowhere if none
    moving,  \* devices on their way to a first place
    awake,   \* whether what is published is announced
    unsaid   \* the events published to each device while it was not

feedVars == <<feed, place, moving, awake, unsaid>>

Nowhere == -1

FeedInit ==
    /\ feed = 0
    /\ place = [d \in Device |-> Nowhere]
    /\ moving = {}
    /\ awake = FALSE
    /\ unsaid = [d \in Device |-> {}]

Publish ==
    /\ feed < Limit
    /\ feed' = feed + 1
    /\ \E D \in SUBSET Device :
         /\ awake => D = {}
         /\ unsaid' = [d \in Device |-> IF d \in D THEN unsaid[d] \cup {feed + 1}
                                        ELSE unsaid[d]]
    /\ UNCHANGED <<place, moving, awake>>

WakeUp ==
    /\ awake' = TRUE
    /\ UNCHANGED <<feed, place, moving, unsaid>>

\* Everything starts anew: whoever was on the way sets out again later.
FallAsleep ==
    /\ awake' = FALSE
    /\ moving' = {}
    /\ UNCHANGED <<feed, place, unsaid>>

\* The next event; one further on only over what went unsaid.
WorkThrough(d) ==
    /\ place[d] # Nowhere
    /\ \E p \in place[d] + 1 .. feed :
         /\ place[d] + 1 .. p - 1 \subseteq unsaid[d]
         /\ place' = [place EXCEPT ![d] = p]
    /\ UNCHANGED <<feed, moving, awake, unsaid>>

SetOut(d) ==
    /\ place[d] = Nowhere
    /\ moving' = moving \cup {d}
    /\ UNCHANGED <<feed, place, awake, unsaid>>

\* A first place is any that exists; an event handed over meanwhile may have
\* given the device one already, and then it never moves back.
Settle(d) ==
    /\ d \in moving \/ place[d] = Nowhere
    /\ \E p \in 0 .. feed : p >= place[d] /\ place' = [place EXCEPT ![d] = p]
    /\ moving' \in {moving, moving \ {d}}
    /\ UNCHANGED <<feed, awake, unsaid>>

\* Connections end: whoever was on the way sets out again later.
GiveUp ==
    /\ \E D \in SUBSET moving : moving' = moving \ D
    /\ UNCHANGED <<feed, place, awake, unsaid>>

FeedNext ==
    \/ Publish \/ WakeUp \/ FallAsleep
    \/ GiveUp
    \/ \E d \in Device : WorkThrough(d) \/ SetOut(d) \/ Settle(d)

FeedSpec == FeedInit /\ [][FeedNext]_feedVars
=============================================================================
