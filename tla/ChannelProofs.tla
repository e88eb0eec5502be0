--------------------------- MODULE ChannelProofs ---------------------------
(***************************************************************************)
(* What Channel promises, for every number of connections, sources and     *)
(* keys and every setting of the limits: the counts and limits of the      *)
(* entry, that a flood stays within its source, that what was cut to make  *)
(* room is not served, that nothing is left when Close has returned, and   *)
(* that bytes move only for a paired device or one about to be cut.        *)
(*                                                                         *)
(* Limits hold because the list has a first element whenever it is not     *)
(* empty, which is what ListOK is for.  The rest follows from where a      *)
(* connection stands (Stands): the slot, the list, the sockets decided on  *)
(* and the registry of transfers are four records of the same connection,  *)
(* each changed under a lock of its own.                                   *)
(***************************************************************************)
EXTENDS Channel, FiniteSetTheorems, TLAPS

\* Every variable that ChannelTypeOK leaves to its actions.
LifeTypeOK ==
    /\ acceptor \in [at : {"accept", "close", "ended"}, close : SUBSET Conn,
                     start : Conn \cup {None}]
    /\ listener \in {"open", "cancelled", "marked", "waited", "closed"}
    /\ serving \in BOOLEAN /\ shed \in BOOLEAN /\ flush \in {"none", "armed", "fired"}
    /\ paired \subseteq Key /\ dropping \subseteq Key

\* The list is finite and in one order.
ListOK ==
    /\ pending \subseteq Conn /\ IsFiniteSet(pending)
    /\ ahead \in [Conn -> SUBSET Conn]
    /\ \A c \in pending : /\ c \notin ahead[c] /\ ahead[c] \subseteq pending
                          /\ \A x \in ahead[c] : ahead[x] \subseteq ahead[c]

\* What the accept loop holds between its two steps.
AcceptorInv ==
    /\ acceptor.at # "close" => acceptor.close = {}
    /\ acceptor.at = "close" => /\ acceptor.start \in pending
                                /\ phase[acceptor.start] = "admitted"

\* Where a connection stands says which records name it.
Stands(c) ==
    /\ c \in pending => /\ phase[c] \in {"admitted"} \cup Proving \cup Verified
                        /\ c \notin cut /\ c \notin acceptor.close
    /\ c \in acceptor.close => phase[c] \in {"free"} \cup Proving \cup Verified
    /\ c \in cut => phase[c] \in Proving \cup Verified \cup {"tracked", "moving"}
    /\ phase[c] = "admitted" => acceptor.at = "close" /\ acceptor.start = c
    /\ c \in transfers <=> phase[c] \in {"tracked", "moving"}
    /\ phase[c] \in {"passed", "ready", "served"} \cup Asking => shown[c] = device[c]
    /\ phase[c] = "moving" => device[c] \in paired \cup dropping \/ c \in cut

\* How far Close has come.
CloseInv ==
    /\ listener \in {"waited", "closed"} => acceptor.at = "ended" /\ Underway = {}
    /\ listener = "closed" => flush # "armed"
    /\ shed => flush # "none"

ChannelInv ==
    /\ ChannelTypeOK /\ LifeTypeOK /\ ListOK /\ AcceptorInv /\ CloseInv
    /\ \A c \in Conn : Stands(c)

(***************************************************************************)
(* The list                                                                *)
(***************************************************************************)

\* A finite part of an ordered list has a first element.
LEMMA HasFirst ==
    ASSUME ListOK, NEW C, C \subseteq pending, C # {}
    PROVE  \E c \in C : ahead[c] \cap C = {}
  <1>0. /\ IsFiniteSet(C)
        /\ \A c \in C : c \notin ahead[c] /\ \A x \in ahead[c] \cap C : ahead[x] \subseteq ahead[c]
    BY FS_Subset DEF ListOK
  <1> DEFINE T == {ahead[c] \cap C : c \in C}
             R == StrictSubsetOrdering(C)
  <1>1. T \subseteq SUBSET C
    OBVIOUS
  <1>2. T # {}
    <2> PICK c \in C : TRUE
      OBVIOUS
    <2>1. ahead[c] \cap C \in T
      OBVIOUS
    <2> QED BY <2>1
  <1>3. IsWellFoundedOn(R, SUBSET C)
    BY <1>0, FS_StrictSubsetOrderingWellFounded, FS_FiniteSubsetsOfFinite
  <1> HIDE DEF R, T
  <1>4. PICK a \in T : \A b \in T : ~ (<<b, a>> \in R)
    BY <1>1, <1>2, <1>3, WFMin
  <1>5. PICK c \in C : a = ahead[c] \cap C
    BY <1>4 DEF T
  <1>6. ASSUME NEW x \in ahead[c] \cap C PROVE FALSE
    <2>1. ahead[x] \cap C \subseteq a /\ x \notin ahead[x] /\ x \in a
      BY <1>0, <1>5, <1>6
    <2>2. ahead[x] \cap C \in T
      BY DEF T
    <2>3. <<ahead[x] \cap C, a>> \in R
      BY <2>1, <1>5 DEF R, StrictSubsetOrdering
    <2> QED BY <1>4, <2>2, <2>3
  <1> QED BY <1>6

\* Taking the oldest takes at least one, and from the part asked for.
LEMMA OldestTaken ==
    ASSUME ListOK, NEW C, C \subseteq pending, C # {}, NEW n \in Int, n >= 1
    PROVE  /\ Oldest(C, n) \subseteq C /\ Oldest(C, n) # {}
           /\ Cardinality(C \ Oldest(C, n)) <= Cardinality(C) - 1
  <1>1. PICK c \in C : ahead[c] \cap C = {}
    BY HasFirst
  <1>2. c \in Oldest(C, n)
    BY <1>1, FS_EmptySet DEF Oldest
  <1>3. IsFiniteSet(C) /\ IsFiniteSet(C \ {c}) /\ Cardinality(C \ {c}) = Cardinality(C) - 1
    BY FS_Subset, FS_RemoveElement DEF ListOK
  <1>4. C \ Oldest(C, n) \in SUBSET (C \ {c})
    BY <1>2
  <1>5. Cardinality(C \ Oldest(C, n)) <= Cardinality(C \ {c})
    BY <1>3, <1>4, FS_Subset
  <1>6. Oldest(C, n) \subseteq C
    BY DEF Oldest
  <1> QED BY <1>2, <1>3, <1>5, <1>6

\* Taking none takes none.
LEMMA OldestNone ==
    ASSUME ListOK, NEW C, C \subseteq pending, NEW n \in Int, n < 1
    PROVE  Oldest(C, n) = {}
  <1>1. IsFiniteSet(C)
    BY FS_Subset DEF ListOK
  <1>2. ASSUME NEW c \in C PROVE Cardinality(ahead[c] \cap C) \in Nat
    BY <1>1, FS_Intersection, FS_CardinalityType
  <1> QED BY <1>2 DEF Oldest

\* The counts follow what leaves the list.
LEMMA ForgetCounts ==
    ASSUME ChannelTypeOK, ListOK, NEW C, C \subseteq pending, NEW s \in Source
    PROVE  /\ forget(Entry, C).bySource[s] = Cardinality({c \in pending \ C : source[c] = s})
           /\ forget(Entry, C).bySource[s] <= bySource[s]
  <1> DEFINE S == {c \in pending : source[c] = s}
  <1>1. IsFiniteSet(S) /\ bySource[s] = Cardinality(S)
    BY FS_Subset DEF ListOK, ChannelTypeOK
  <1>2. /\ S \cap C = {c \in C : source[c] = s}
        /\ S \ C = {c \in pending \ C : source[c] = s}
    OBVIOUS
  <1>3. /\ Cardinality(S \ C) = Cardinality(S) - Cardinality(S \cap C)
        /\ Cardinality(S \cap C) \in Nat /\ Cardinality(S) \in Nat
    BY <1>1, FS_Difference, FS_Intersection, FS_CardinalityType
  <1>4. forget(Entry, C).bySource[s] = bySource[s] - Cardinality({c \in C : source[c] = s})
    BY DEF forget, Entry
  <1>5. forget(Entry, C).bySource[s] = bySource[s] - Cardinality(S \cap C)
    BY <1>2, <1>4
  <1> HIDE DEF S
  <1>6. /\ forget(Entry, C).bySource[s] = Cardinality(S \ C)
        /\ forget(Entry, C).bySource[s] <= bySource[s]
    BY <1>1, <1>3, <1>5
  <1> QED BY <1>2, <1>6

\* The list stays in order when some leave it.
LEMMA KeptInOrder ==
    ASSUME ListOK, NEW P, P \subseteq pending
    PROVE  /\ P \subseteq Conn /\ IsFiniteSet(P)
           /\ Kept(P) \in [Conn -> SUBSET Conn]
           /\ \A c \in P : /\ c \notin Kept(P)[c] /\ Kept(P)[c] \subseteq P
                           /\ \A x \in Kept(P)[c] : Kept(P)[x] \subseteq Kept(P)[c]
  <1>1. P \subseteq Conn /\ IsFiniteSet(P)
    BY FS_Subset DEF ListOK
  <1>2. Kept(P) \in [Conn -> SUBSET Conn]
    BY <1>1 DEF Kept
  <1>3. \A c \in P : Kept(P)[c] = ahead[c] \cap P
    BY <1>1 DEF Kept
  <1> QED BY <1>1, <1>2, <1>3 DEF ListOK

\* What admit makes of the list: within the limits, and in order.
LEMMA RoomIsMade ==
    ASSUME ChannelTypeOK, ListOK, NEW s \in Source
    PROVE  /\ makesRoom(s).own \subseteq {c \in pending : source[c] = s}
           /\ makesRoom(s).others \subseteq pending \ makesRoom(s).own
           /\ Cardinality({c \in pending \ makesRoom(s).own : source[c] = s}) < Share(s)
           /\ Cardinality((pending \ makesRoom(s).own) \ makesRoom(s).others) < MaxPending
           /\ bySource[s] = Share(s) => makesRoom(s).others = {}
  <1> DEFINE S == {c \in pending : source[c] = s}
             own == makesRoom(s).own
             others == makesRoom(s).others
             P == pending \ own
  <1>0. /\ IsFiniteSet(S) /\ IsFiniteSet(pending) /\ S \subseteq pending
        /\ bySource[s] = Cardinality(S) /\ bySource[s] <= Share(s)
        /\ Cardinality(S) \in Nat /\ Cardinality(pending) \in Nat
        /\ Cardinality(pending) <= MaxPending
        /\ Share(s) \in Nat \ {0} /\ MaxPending \in Nat \ {0}
    <2>1. IsFiniteSet(S) /\ IsFiniteSet(pending)
      BY FS_Subset DEF ListOK
    <2> QED BY <2>1, FS_CardinalityType, ChannelAssumption DEF ChannelTypeOK, Share
  <1>1. own = Oldest(S, Cardinality(S) - Share(s) + 1)
    BY <1>0 DEF makesRoom, cutInSource, Entry
  <1> HIDE DEF own, others, S
  <1>2. own \subseteq S /\ Cardinality(S \ own) < Share(s)
        /\ (Cardinality(S) = Share(s) => own # {})
    <2>1. CASE Cardinality(S) < Share(s)
      <3>1. own = {}
        BY <2>1, <1>0, <1>1, OldestNone
      <3>2. S \ own = S
        BY <3>1
      <3> QED BY <3>1, <3>2, <2>1, <1>0
    <2>2. CASE Cardinality(S) = Share(s)
      <3>1. S # {}
        BY <2>2, <1>0, FS_EmptySet
      <3>2. own \subseteq S /\ own # {} /\ Cardinality(S \ own) <= Cardinality(S) - 1
        <4>1. Cardinality(S) - Share(s) + 1 \in Int /\ Cardinality(S) - Share(s) + 1 >= 1
          BY <2>2, <1>0
        <4> QED BY <4>1, <3>1, <1>0, <1>1, OldestTaken
      <3>3. IsFiniteSet(S \ own) /\ Cardinality(S \ own) \in Nat
        BY <1>0, FS_Difference, FS_CardinalityType
      <3> QED BY <3>2, <3>3, <2>2, <1>0
    <2> QED BY <2>1, <2>2, <1>0
  <1>3. others = Oldest(P, Cardinality(P) - MaxPending + 1)
    BY DEF makesRoom, cutInEntry, forget, Entry, own, others
  <1>4. /\ IsFiniteSet(P) /\ Cardinality(P) \in Nat /\ P \subseteq pending
        /\ Cardinality(P) <= Cardinality(pending)
        /\ own # {} => Cardinality(P) < Cardinality(pending)
    <2>1. IsFiniteSet(P) /\ Cardinality(P) \in Nat
      BY <1>0, FS_Difference, FS_CardinalityType
    <2>2. P \in SUBSET pending
      OBVIOUS
    <2>3. Cardinality(P) <= Cardinality(pending) /\ (Cardinality(pending) = Cardinality(P) => pending = P)
      BY <2>2, <1>0, FS_Subset
    <2>4. own # {} => pending # P
      BY <1>0, <1>2
    <2> HIDE DEF P
    <2> QED BY <2>1, <2>2, <2>3, <2>4, <1>0
  <1>5. others \subseteq P /\ Cardinality(P \ others) < MaxPending
        /\ (bySource[s] = Share(s) => others = {})
    <2>1. CASE Cardinality(P) < MaxPending
      <3>1. others = {}
        BY <2>1, <1>0, <1>3, <1>4, OldestNone
      <3>2. P \ others = P
        BY <3>1
      <3> QED BY <3>1, <3>2, <2>1, <1>0
    <2>2. CASE ~(Cardinality(P) < MaxPending)
      <3>1. Cardinality(P) = MaxPending /\ own = {} /\ bySource[s] # Share(s)
        BY <2>2, <1>0, <1>2, <1>4
      <3>2. P # {}
        BY <3>1, <1>0, FS_EmptySet
      <3>3. others \subseteq P /\ Cardinality(P \ others) <= Cardinality(P) - 1
        BY <3>1, <3>2, <1>0, <1>3, <1>4, OldestTaken
      <3>4. Cardinality(P \ others) \in Nat
        BY <1>4, FS_Difference, FS_CardinalityType
      <3> QED BY <3>1, <3>3, <3>4, <1>0
    <2> QED BY <2>1, <2>2
  <1>6. S \ own = {c \in pending \ own : source[c] = s}
    BY DEF S
  <1> QED BY <1>2, <1>5, <1>6 DEF own, others, S

(***************************************************************************)
(* Step by step                                                            *)
(***************************************************************************)

\* The two halves of ChannelTypeOK.
TypesOK ==
    /\ phase \in [Conn -> {"free", "admitted", "ready", "served"}
                           \cup Proving \cup Verified \cup Asking]
    /\ source \in [Conn -> Source]
    /\ device \in [Conn -> Key \cup {None}] /\ shown \in [Conn -> Key \cup {None}]
    /\ cut \subseteq Conn /\ transfers \subseteq Conn /\ last \subseteq Conn

CountsOK ==
    /\ \A s \in Source : /\ bySource[s] = Cardinality({c \in pending : source[c] = s})
                         /\ bySource[s] <= Share(s)
    /\ Cardinality(pending) <= MaxPending

\* They are its two halves.
LEMMA TypeHalves == ChannelTypeOK <=> TypesOK /\ CountsOK
  BY DEF ChannelTypeOK, TypesOK, CountsOK

\* A connection that keeps its place in every record keeps its invariant.
LEMMA StandsStill ==
    ASSUME NEW c \in Conn, Stands(c), phase'[c] = phase[c], device'[c] = device[c],
           shown'[c] = shown[c], (c \in pending') = (c \in pending), (c \in cut') = (c \in cut),
           (c \in transfers') = (c \in transfers), acceptor' = acceptor,
           paired \cup dropping \subseteq paired' \cup dropping'
    PROVE  Stands(c)'
  BY DEF Stands

\* The list and its counts stand while only connections outside it change.
LEMMA EntryStays ==
    ASSUME ListOK, CountsOK, UNCHANGED <<pending, ahead, bySource>>,
           \A c \in pending : source'[c] = source[c]
    PROVE  ListOK' /\ CountsOK'
  <1>1. ListOK'
    BY DEF ListOK
  <1>2. \A s \in Source : {c \in pending : source'[c] = s} = {c \in pending : source[c] = s}
    OBVIOUS
  <1>3. CountsOK'
    BY <1>2 DEF CountsOK, Share
  <1> QED BY <1>1, <1>3

\* The steps of one connection that leave the entry and the listener alone.
OneConn(c) ==
    \/ (\E d, k \in Key : Auth(c, d, k)) \/ (\E o \in Conn : Auth2(c, o)) \/ Refused(c)
    \/ GivesUp(c) \/ Accept(c) \/ Requests(c)

\* A phase of a connection that Close waits for.
Waited == {"admitted", "ready"} \cup Proving \cup Verified

\* A step of c that changes no other connection's slot or socket.
SlotOnly(c) ==
    /\ phase' \in [Conn -> {"free", "admitted", "ready", "served"}
                            \cup Proving \cup Verified \cup Asking]
    /\ source' \in [Conn -> Source]
    /\ device' \in [Conn -> Key \cup {None}] /\ shown' \in [Conn -> Key \cup {None}]
    /\ cut' \subseteq Conn /\ last' \subseteq Conn
    /\ \A x \in Conn \ {c} : /\ phase'[x] = phase[x] /\ device'[x] = device[x]
                             /\ shown'[x] = shown[x] /\ source'[x] = source[x]
                             /\ (x \in cut') = (x \in cut)

\* The end of a connection (Ended) is a step of its own slot.
LEMMA EndedFrame ==
    ASSUME TypesOK, NEW c \in Conn, Ended(c)
    PROVE  SlotOnly(c) /\ phase'[c] = "free" /\ c \notin cut'
  BY ChannelAssumption DEF TypesOK, Ended, Goes, SlotOnly

\* So is the end of a request (Keeps), which ends the connection or keeps it.
LEMMA KeepsFrame ==
    ASSUME TypesOK, NEW c \in Conn, NEW b, Keeps(c, b)
    PROVE  /\ SlotOnly(c)
           /\ \/ phase'[c] = "free" /\ c \notin cut'
              \/ phase'[c] = "served" /\ ~b /\ UNCHANGED <<device, shown, cut>>
  <1>1. CASE Ended(c)
    BY <1>1, EndedFrame
  <1>2. CASE ~b /\ Goes(c, "served") /\ UNCHANGED <<source, device, shown, cut, last>>
    BY <1>2 DEF TypesOK, Goes, SlotOnly
  <1> QED BY <1>1, <1>2 DEF Keeps

\* What such a step leaves alone, and what becomes of its own connection.
LEMMA OneConnFrame ==
    ASSUME ChannelInv, NEW c \in Conn, OneConn(c)
    PROVE  /\ SlotOnly(c) /\ transfers' \subseteq Conn
           /\ UNCHANGED <<entryVars, acceptor, listener, paired, dropping>>
           /\ serving' \in BOOLEAN
           /\ \A x \in Conn \ {c} : (x \in transfers') = (x \in transfers)
           /\ c \in pending => source'[c] = source[c]
           /\ phase'[c] \in Waited => phase[c] \in Waited
           /\ Stands(c)'
  <1>0. TypesOK /\ Stands(c) /\ serving \in BOOLEAN
    BY TypeHalves DEF ChannelInv, LifeTypeOK
  <1> USE <1>0
  <1>1. CASE \E d, k \in Key : Auth(c, d, k)
    <2> PICK d \in Key, k \in Key : Auth(c, d, k)
      BY <1>1
    <2>1. /\ phase[c] = "auth" /\ phase'[c] = "auth2" /\ UNCHANGED <<source, cut, entryVars, lifeVars, httpVars>>
          /\ SlotOnly(c)
      BY DEF Auth, Passes, Goes, TypesOK, SlotOnly, httpVars, Proving
    <2> QED BY <2>1 DEF TypesOK, Stands, Waited, Proving, Verified, Asking, lifeVars, entryVars, httpVars
  <1>2. CASE \E o \in Conn : Auth2(c, o)
    <2>1. /\ phase[c] = "auth2" /\ phase'[c] = "passed" /\ UNCHANGED <<source, cut, entryVars, lifeVars, httpVars>>
          /\ UNCHANGED <<device, shown>> /\ shown[c] = device[c] /\ SlotOnly(c)
      BY <1>2 DEF Auth2, Verifies, Passes, Goes, TypesOK, SlotOnly, httpVars, Verified
    <2> QED BY <2>1 DEF TypesOK, Stands, Waited, Proving, Verified, Asking, lifeVars, entryVars, httpVars
  <1>3. CASE Refused(c)
    <2>1. /\ phase[c] \in Proving /\ phase'[c] = "failed" /\ UNCHANGED <<source, cut, entryVars, lifeVars, httpVars>>
          /\ SlotOnly(c)
      BY <1>3 DEF Refused, Fails, Goes, TypesOK, SlotOnly, httpVars, Verified
    <2> QED BY <2>1 DEF TypesOK, Stands, Waited, Proving, Verified, Asking, lifeVars, entryVars, httpVars
  <1>4. CASE GivesUp(c)
    <2>1. /\ phase[c] = "ready" /\ phase'[c] = "free" /\ c \notin cut' /\ SlotOnly(c)
          /\ UNCHANGED <<entryVars, lifeVars, paired, dropping, transfers>>
      BY <1>4, EndedFrame DEF GivesUp
    <2> QED BY <2>1 DEF TypesOK, Stands, Waited, Proving, Verified, Asking, lifeVars, entryVars
  <1>5. CASE Accept(c)
    <2>1. /\ phase[c] = "ready" /\ SlotOnly(c) /\ serving' \in BOOLEAN
          /\ \/ phase'[c] = "free" /\ c \notin cut'
             \/ phase'[c] = "served" /\ UNCHANGED <<device, shown, cut>>
          /\ UNCHANGED <<entryVars, acceptor, listener, paired, dropping, transfers>>
      BY <1>5, EndedFrame DEF Accept, Goes, TypesOK, SlotOnly
    <2> QED BY <2>1 DEF TypesOK, Stands, Waited, Proving, Verified, Asking, entryVars
  <1>6. ASSUME NEW b \in BOOLEAN, Door(c, b) PROVE
           /\ phase[c] = "served" /\ SlotOnly(c) /\ c \notin cut
           /\ UNCHANGED <<entryVars, lifeVars, paired, dropping, transfers>>
           /\ \/ phase'[c] = "free" /\ c \notin cut'
              \/ phase'[c] \in {"served", "file"} /\ UNCHANGED <<device, shown, cut>>
    <2>1. CASE Keeps(c, b)
      BY <2>1, <1>6, KeepsFrame DEF Door, Http
    <2>2. CASE Goes(c, "file") /\ last' = (IF b THEN last \cup {c} ELSE last)
               /\ UNCHANGED <<source, device, shown, cut>>
      BY <2>2, <1>6 DEF Door, Http, Goes, TypesOK, SlotOnly, Asking
    <2> QED BY <2>1, <2>2, <1>6 DEF Door
  <1>7. CASE \E b \in BOOLEAN : Door(c, b)
    BY <1>6, <1>7 DEF TypesOK, Stands, Waited, Proving, Verified, Asking, lifeVars, entryVars
  <1>8. CASE Departs(c)
    <2>1. /\ phase[c] = "served" /\ phase'[c] = "free" /\ c \notin cut' /\ SlotOnly(c)
          /\ UNCHANGED <<entryVars, lifeVars, paired, dropping, transfers>>
      BY <1>8, EndedFrame DEF Departs, Http
    <2> QED BY <2>1 DEF TypesOK, Stands, Waited, Proving, Verified, Asking, lifeVars, entryVars
  <1>9. CASE trackTransfer(c)
    <2>1. /\ phase[c] = "file" /\ phase'[c] = "tracked" /\ SlotOnly(c)
          /\ transfers' = transfers \cup {c}
          /\ UNCHANGED <<device, shown, cut, entryVars, lifeVars, paired, dropping>>
      BY <1>9 DEF trackTransfer, Http, Goes, TypesOK, SlotOnly, Asking
    <2> QED BY <2>1 DEF TypesOK, Stands, Waited, Proving, Verified, Asking, lifeVars, entryVars
  <1>10. CASE admitTransfer(c)
    <2>1. CASE peer(c) \in paired /\ Goes(c, "moving")
               /\ UNCHANGED <<source, device, shown, cut, last, transfers>>
      <3>1. /\ phase[c] = "tracked" /\ phase'[c] = "moving" /\ SlotOnly(c)
            /\ shown[c] \in paired
            /\ UNCHANGED <<entryVars, lifeVars, paired, dropping>>
        BY <2>1, <1>10 DEF admitTransfer, Http, Goes, TypesOK, SlotOnly, Asking, peer
      <3> QED BY <3>1, <2>1 DEF TypesOK, Stands, Waited, Proving, Verified, Asking, lifeVars, entryVars
    <2>2. CASE Keeps(c, peer(c) \notin paired \/ c \in last \cup cut)
               /\ transfers' = transfers \ {c}
      <3>1. /\ phase[c] = "tracked" /\ SlotOnly(c)
            /\ \/ phase'[c] = "free" /\ c \notin cut'
               \/ phase'[c] = "served" /\ c \notin cut /\ UNCHANGED <<device, shown, cut>>
            /\ UNCHANGED <<entryVars, lifeVars, paired, dropping>>
        BY <2>2, <1>10, KeepsFrame DEF admitTransfer, Http
      <3> QED BY <3>1, <2>2 DEF TypesOK, Stands, Waited, Proving, Verified, Asking, lifeVars, entryVars
    <2> QED BY <2>1, <2>2, <1>10 DEF admitTransfer
  <1>11. CASE TransferEnds(c)
    <2>1. /\ phase[c] = "moving" /\ SlotOnly(c) /\ transfers' = transfers \ {c}
          /\ \/ phase'[c] = "free" /\ c \notin cut'
             \/ phase'[c] = "served" /\ c \notin cut /\ UNCHANGED <<device, shown, cut>>
          /\ UNCHANGED <<entryVars, lifeVars, paired, dropping>>
      BY <1>11, KeepsFrame DEF TransferEnds, Http
    <2> QED BY <2>1 DEF TypesOK, Stands, Waited, Proving, Verified, Asking, lifeVars, entryVars
  <1> QED BY <1>1, <1>2, <1>3, <1>4, <1>5, <1>7, <1>8, <1>9, <1>10, <1>11 DEF OneConn, Requests

\* A step of one connection keeps the invariant.
LEMMA OneConnKeeps ==
    ASSUME ChannelInv, NEW c \in Conn, OneConn(c)
    PROVE  ChannelInv'
  <1>0. /\ ListOK /\ CountsOK /\ TypesOK /\ LifeTypeOK /\ AcceptorInv /\ CloseInv
        /\ pending \subseteq Conn
    BY TypeHalves DEF ChannelInv, ListOK
  <1>1. /\ SlotOnly(c) /\ transfers' \subseteq Conn
        /\ UNCHANGED <<pending, ahead, bySource, shed, flush, acceptor, listener, paired, dropping>>
        /\ serving' \in BOOLEAN
        /\ \A x \in Conn \ {c} : (x \in transfers') = (x \in transfers)
        /\ c \in pending => source'[c] = source[c]
        /\ phase'[c] \in Waited => phase[c] \in Waited
        /\ Stands(c)'
    BY OneConnFrame DEF entryVars
  <1>2. ChannelTypeOK' /\ ListOK'
    <2>1. TypesOK'
      BY <1>1 DEF SlotOnly, TypesOK
    <2>2. \A x \in pending : source'[x] = source[x]
      BY <1>0, <1>1 DEF SlotOnly
    <2>3. ListOK' /\ CountsOK'
      BY <1>0, <1>1, <2>2, EntryStays
    <2> QED BY <2>1, <2>3, TypeHalves DEF ChannelTypeOK, TypesOK, CountsOK
  <1>3. LifeTypeOK'
    BY <1>0, <1>1 DEF LifeTypeOK
  <1>4. ASSUME NEW x \in Conn PROVE Stands(x)'
    <2>1. CASE x = c
      BY <1>1, <2>1
    <2>2. CASE x # c
      BY <1>1, <2>2, StandsStill DEF SlotOnly, ChannelInv
    <2> QED BY <2>1, <2>2
  <1>5. AcceptorInv'
    <2>1. CASE acceptor.at = "close"
      <3>1. acceptor.start \in Conn /\ phase[acceptor.start] = "admitted" /\ acceptor.start \in pending
        BY <2>1, <1>0 DEF AcceptorInv
      <3>2. phase'[acceptor.start] = "admitted"
        <4>1. CASE acceptor.start = c
          <5>1. phase[c] = "admitted" => ~OneConn(c)
            BY DEF OneConn, Auth, Auth2, Passes, Refused, GivesUp, Accept, Requests, Door,
               Departs, trackTransfer, admitTransfer, TransferEnds, Http, Proving
          <5> QED BY <4>1, <3>1, <5>1
        <4>2. CASE acceptor.start # c
          BY <4>2, <3>1, <1>1 DEF SlotOnly
        <4> QED BY <4>1, <4>2
      <3> QED BY <3>1, <3>2, <2>1, <1>1 DEF AcceptorInv
    <2>2. CASE acceptor.at # "close"
      BY <2>2, <1>0, <1>1 DEF AcceptorInv
    <2> QED BY <2>1, <2>2
  <1>6. CloseInv'
    <2>1. Underway' \subseteq Underway
      BY <1>1 DEF Underway, Waited, SlotOnly
    <2> QED BY <2>1, <1>0, <1>1 DEF CloseInv
  <1> QED BY <1>2, <1>3, <1>4, <1>5, <1>6 DEF ChannelInv

\* A handshake leaves the list, counted out once.
LEMMA LeaveKeeps ==
    ASSUME ChannelInv, NEW c \in Conn, leave(c)
    PROVE  ChannelInv'
  <1>0. /\ ListOK /\ CountsOK /\ TypesOK /\ LifeTypeOK /\ AcceptorInv /\ CloseInv
        /\ pending \subseteq Conn /\ Stands(c)
    BY TypeHalves DEF ChannelInv, ListOK
  <1>1. /\ phase[c] \in Verified /\ pending' = pending \ {c} /\ ahead' = Kept(pending \ {c})
        /\ \A s \in Source : bySource'[s] = IF c \in pending THEN forget(Entry, {c}).bySource[s]
                                            ELSE bySource[s]
        /\ HandsOver(c, phase[c] = "passed" /\ c \in pending)
        /\ UNCHANGED <<shed, flush, acceptor, listener, serving, paired, dropping, transfers>>
    BY DEF leave, Leaves, forget, Entry, lifeVars
  <1>2. /\ SlotOnly(c)
        /\ \/ phase'[c] = "free" /\ c \notin cut'
           \/ phase'[c] = "ready" /\ phase[c] = "passed" /\ c \in pending
              /\ UNCHANGED <<device, shown, cut>>
    <2>1. CASE Ended(c)
      BY <2>1, <1>0, EndedFrame
    <2>2. CASE /\ phase[c] = "passed" /\ c \in pending /\ Goes(c, "ready")
               /\ source' = [source EXCEPT ![c] = Here]
               /\ UNCHANGED <<device, shown, cut, last>>
      BY <2>2, <1>0, ChannelAssumption DEF TypesOK, Goes, SlotOnly
    <2> QED BY <1>1, <2>1, <2>2 DEF HandsOver
  <1>3. TypesOK'
    BY <1>0, <1>1, <1>2 DEF SlotOnly, TypesOK
  <1>4. ListOK'
    BY <1>0, <1>1, KeptInOrder DEF ListOK
  <1>5. CountsOK'
    <2>1. ASSUME NEW s \in Source
          PROVE  /\ bySource'[s] = Cardinality({x \in pending \ {c} : source[x] = s})
                 /\ bySource'[s] <= Share(s)
      <3>1. CASE c \in pending
        <4>1. /\ forget(Entry, {c}).bySource[s] = Cardinality({x \in pending \ {c} : source[x] = s})
              /\ forget(Entry, {c}).bySource[s] <= bySource[s]
          BY <3>1, <1>0, TypeHalves, ForgetCounts
        <4>2. /\ Cardinality({x \in pending \ {c} : source[x] = s}) \in Nat
              /\ bySource[s] \in Nat /\ bySource[s] <= Share(s) /\ Share(s) \in Nat
          <5>1. /\ IsFiniteSet({x \in pending \ {c} : source[x] = s})
                /\ IsFiniteSet({x \in pending : source[x] = s})
            BY <1>0, FS_Subset DEF ListOK
          <5> QED BY <5>1, <1>0, FS_CardinalityType, ChannelAssumption DEF CountsOK, Share
        <4> DEFINE n == Cardinality({x \in pending \ {c} : source[x] = s})
        <4>3. bySource'[s] = n /\ n <= bySource[s] /\ n \in Nat
          BY <3>1, <4>1, <4>2, <1>1
        <4> HIDE DEF n
        <4>4. bySource'[s] = n /\ bySource'[s] <= Share(s)
          BY <4>2, <4>3
        <4> QED BY <4>4 DEF n
      <3>2. CASE c \notin pending
        <4>1. pending \ {c} = pending
          BY <3>2
        <4> QED BY <3>2, <4>1, <1>0, <1>1 DEF CountsOK
      <3> QED BY <3>1, <3>2
    <2>2. \A s \in Source : {x \in pending \ {c} : source'[x] = s} = {x \in pending \ {c} : source[x] = s}
      BY <1>0, <1>2 DEF SlotOnly
    <2>3. Cardinality(pending \ {c}) <= MaxPending
      <3>1. /\ Cardinality(pending \ {c}) <= Cardinality(pending)
            /\ Cardinality(pending \ {c}) \in Nat /\ Cardinality(pending) \in Nat
        <4>1. pending \ {c} \in SUBSET pending /\ IsFiniteSet(pending)
          BY <1>0 DEF ListOK
        <4> QED BY <4>1, FS_Subset, FS_CardinalityType
      <3> QED BY <3>1, <1>0, ChannelAssumption DEF CountsOK
    <2> QED BY <2>1, <2>2, <2>3, <1>1 DEF CountsOK, Share
  <1>6. ASSUME NEW x \in Conn PROVE Stands(x)'
    <2>1. CASE x = c
      BY <2>1, <1>0, <1>1, <1>2 DEF Stands, Proving, Verified, Asking
    <2>2. CASE x # c
      <3>1. (x \in pending') = (x \in pending)
        BY <2>2, <1>1
      <3> QED BY <3>1, <2>2, <1>1, <1>2, StandsStill DEF SlotOnly, ChannelInv
    <2> QED BY <2>1, <2>2
  <1>7. AcceptorInv'
    <2>1. acceptor.at = "close" => acceptor.start # c
      BY <1>0, <1>1 DEF AcceptorInv, Verified
    <2> QED BY <2>1, <1>0, <1>1, <1>2 DEF AcceptorInv, SlotOnly
  <1>8. CloseInv'
    <2>1. Underway' \subseteq Underway
      BY <1>1, <1>2 DEF Underway, SlotOnly, Verified
    <2> QED BY <2>1, <1>0, <1>1 DEF CloseInv
  <1>9. LifeTypeOK'
    BY <1>0, <1>1 DEF LifeTypeOK
  <1>10. ChannelTypeOK'
    BY <1>3, <1>5 DEF ChannelTypeOK, TypesOK, CountsOK
  <1> QED BY <1>4, <1>6, <1>7, <1>8, <1>9, <1>10 DEF ChannelInv

\* A connection is admitted: room is made first, so the limits hold with it.
LEMMA AdmitKeeps ==
    ASSUME ChannelInv, NEW c \in Conn, NEW s \in Source, admit(c, s)
    PROVE  ChannelInv'
  <1>0. /\ ListOK /\ CountsOK /\ TypesOK /\ LifeTypeOK /\ AcceptorInv /\ CloseInv
        /\ ChannelTypeOK /\ pending \subseteq Conn /\ Stands(c)
    BY TypeHalves DEF ChannelInv, ListOK
  <1> DEFINE own == makesRoom(s).own
             others == makesRoom(s).others
             room == own \cup others
             P == pending \ room
             e == forget(Entry, room)
  <1>1. /\ acceptor.at = "accept" /\ listener = "open" /\ phase[c] = "free"
        /\ phase' = [phase EXCEPT ![c] = "admitted"]
        /\ source' = [source EXCEPT ![c] = s]
        /\ pending' = P \cup {c} /\ ahead' = [Kept(P) EXCEPT ![c] = P]
        /\ bySource' = [e.bySource EXCEPT ![s] = e.bySource[s] + 1]
        /\ shed' = (shed \/ room # {})
        /\ flush' = (IF room # {} /\ flush = "none" THEN "armed" ELSE flush)
        /\ acceptor' = [at |-> "close", close |-> room, start |-> c]
        /\ UNCHANGED <<device, shown, cut, listener, serving, httpVars>>
    BY DEF admit, Goes, shedLocked, forget, Entry
  <1>2. /\ own \subseteq {x \in pending : source[x] = s} /\ others \subseteq pending \ own
        /\ Cardinality({x \in pending \ own : source[x] = s}) < Share(s)
        /\ Cardinality((pending \ own) \ others) < MaxPending
    BY <1>0, RoomIsMade
  <1>3. /\ room \subseteq pending /\ P \subseteq pending /\ c \notin pending
        /\ P = (pending \ own) \ others
    BY <1>0, <1>1, <1>2 DEF Stands, Proving, Verified
  <1>4. \A t \in Source : /\ e.bySource[t] = Cardinality({x \in P : source[x] = t})
                          /\ e.bySource[t] <= bySource[t]
    BY <1>0, <1>3, ForgetCounts
  <1>5. DOMAIN e.bySource = Source
    BY DEF forget
  <1> HIDE DEF e, own, others
  <1>6. TypesOK'
    BY <1>0, <1>1 DEF TypesOK, httpVars
  <1>7. ListOK'
    <2>1. /\ P \subseteq Conn /\ IsFiniteSet(P)
          /\ Kept(P) \in [Conn -> SUBSET Conn]
          /\ \A x \in P : /\ x \notin Kept(P)[x] /\ Kept(P)[x] \subseteq P
                          /\ \A y \in Kept(P)[x] : Kept(P)[y] \subseteq Kept(P)[x]
      BY <1>0, <1>3, KeptInOrder
    <2> DEFINE K == Kept(P)
    <2> HIDE DEF K
    <2>2. IsFiniteSet(P \cup {c}) /\ c \notin P
      BY <2>1, <1>3, FS_AddElement
    <2>3. ahead' = [K EXCEPT ![c] = P] /\ pending' = P \cup {c}
      BY <1>1 DEF K
    <2> HIDE DEF P
    <2> QED BY <2>1, <2>2, <2>3 DEF ListOK, K
  <1>8. CountsOK'
    <2>0. IsFiniteSet(P) /\ IsFiniteSet(pending)
      BY <1>0, <1>3, FS_Subset DEF ListOK
    <2>1. ASSUME NEW t \in Source
          PROVE  /\ bySource'[t] = Cardinality({x \in pending' : source'[x] = t})
                 /\ bySource'[t] <= Share(t)
      <3> DEFINE Q == {x \in P : source[x] = t}
      <3>0. /\ IsFiniteSet(Q) /\ Cardinality(Q) \in Nat /\ c \notin Q
            /\ e.bySource[t] = Cardinality(Q)
        <4>1. Q \in SUBSET P
          OBVIOUS
        <4>2. IsFiniteSet(Q)
          BY <4>1, <2>0, FS_Subset
        <4> QED BY <4>2, <1>3, <1>4, FS_CardinalityType
      <3>1. CASE t = s
        <4>1. {x \in pending' : source'[x] = t} = Q \cup {c}
          BY <3>1, <1>0, <1>1, <1>3 DEF TypesOK
        <4>2. Cardinality(Q \cup {c}) = Cardinality(Q) + 1
          BY <3>0, FS_AddElement
        <4>3. Cardinality(Q) < Share(s)
          <5>1. /\ Q \in SUBSET {x \in pending \ own : source[x] = s}
                /\ IsFiniteSet({x \in pending \ own : source[x] = s})
            BY <3>1, <2>0, <1>3, FS_Subset
          <5>2. /\ Cardinality(Q) <= Cardinality({x \in pending \ own : source[x] = s})
                /\ Cardinality({x \in pending \ own : source[x] = s}) \in Nat
            BY <5>1, FS_Subset, FS_CardinalityType
          <5> HIDE DEF Q
          <5> QED BY <5>2, <3>0, <1>2, ChannelAssumption DEF Share
        <4>4. bySource'[t] = e.bySource[t] + 1
          BY <3>1, <1>1, <1>5
        <4>5. Share(t) \in Nat
          BY ChannelAssumption DEF Share
        <4> HIDE DEF Q
        <4> QED BY <3>0, <3>1, <4>1, <4>2, <4>3, <4>4, <4>5
      <3>2. CASE t # s
        <4>1. {x \in pending' : source'[x] = t} = Q
          BY <3>2, <1>0, <1>1, <1>3 DEF TypesOK
        <4>2. bySource'[t] = e.bySource[t]
          BY <3>2, <1>1, <1>5
        <4>3. bySource[t] <= Share(t) /\ bySource[t] \in Nat /\ Share(t) \in Nat
          <5>1. IsFiniteSet({x \in pending : source[x] = t})
            BY <2>0, FS_Subset
          <5> QED BY <5>1, <1>0, FS_CardinalityType, ChannelAssumption DEF CountsOK, Share
        <4>4. e.bySource[t] <= bySource[t]
          BY <1>4
        <4> HIDE DEF Q, P
        <4> QED BY <3>0, <4>1, <4>2, <4>3, <4>4
      <3> QED BY <3>1, <3>2
    <2>2. Cardinality(pending') <= MaxPending
      <3>1. /\ Cardinality(P \cup {c}) = Cardinality(P) + 1 /\ Cardinality(P) \in Nat
            /\ Cardinality(P) < MaxPending /\ MaxPending \in Nat
        <4>1. c \notin P
          BY <1>3
        <4>2. Cardinality(P \cup {c}) = Cardinality(P) + 1 /\ Cardinality(P) \in Nat
          BY <4>1, <2>0, FS_AddElement, FS_CardinalityType
        <4> QED BY <4>2, <1>2, <1>3, ChannelAssumption
      <3> HIDE DEF P
      <3> QED BY <3>1, <1>1
    <2> HIDE DEF P
    <2> QED BY <2>1, <2>2 DEF CountsOK, Share
  <1>9. LifeTypeOK'
    <2>1. room \subseteq Conn
      BY <1>0, <1>3
    <2> HIDE DEF room
    <2> QED BY <2>1, <1>0, <1>1 DEF LifeTypeOK, httpVars
  <1>10. AcceptorInv'
    BY <1>0, <1>1 DEF AcceptorInv, TypesOK
  <1>11. ASSUME NEW x \in Conn PROVE Stands(x)'
    <2>0. Stands(x) /\ ~(phase[x] = "admitted") /\ acceptor.close = {}
      BY <1>0, <1>1 DEF ChannelInv, Stands, AcceptorInv
    <2>1. CASE x = c
      <3>1. x \notin room /\ phase'[x] = "admitted"
        BY <2>1, <1>0, <1>1, <1>3 DEF TypesOK
      <3> QED BY <2>0, <2>1, <3>1, <1>1 DEF Stands, Proving, Verified, Asking, httpVars
    <2>2. CASE x # c
      <3>1. /\ phase'[x] = phase[x]
            /\ x \in pending' <=> x \in pending /\ x \notin room
            /\ x \in room => x \in pending
        BY <2>2, <1>0, <1>1, <1>3 DEF TypesOK
      <3> HIDE DEF room
      <3>2. /\ device' = device /\ shown' = shown /\ cut' = cut /\ transfers' = transfers
            /\ paired' = paired /\ dropping' = dropping
            /\ acceptor'.close = room /\ acceptor'.at = "close"
        BY <1>1 DEF httpVars
      <3> QED BY <2>0, <3>1, <3>2 DEF Stands
    <2> QED BY <2>1, <2>2
  <1>12. CloseInv'
    BY <1>0, <1>1 DEF CloseInv, LifeTypeOK
  <1>13. ChannelTypeOK'
    BY <1>6, <1>8 DEF ChannelTypeOK, TypesOK, CountsOK
  <1> QED BY <1>7, <1>9, <1>10, <1>11, <1>12, <1>13 DEF ChannelInv

\* The sockets decided on are closed and the new handshake starts.
LEMMA ClosesCutKeeps ==
    ASSUME ChannelInv, ClosesCut
    PROVE  ChannelInv'
  <1> DEFINE start == acceptor.start
             shut == {x \in acceptor.close : phase[x] # "free"}
  <1>0. /\ ListOK /\ CountsOK /\ TypesOK /\ LifeTypeOK /\ AcceptorInv /\ CloseInv
        /\ ChannelTypeOK /\ pending \subseteq Conn
    BY TypeHalves DEF ChannelInv, ListOK
  <1>1. /\ acceptor.at = "close" /\ start \in pending /\ start \in Conn
        /\ phase[start] = "admitted" /\ acceptor.close \subseteq Conn
    BY <1>0 DEF ClosesCut, AcceptorInv, LifeTypeOK
  <1>2. /\ cut' = cut \cup shut
        /\ phase' = [phase EXCEPT ![start] = "auth"]
        /\ acceptor' = [at |-> "accept", close |-> {}, start |-> None]
        /\ UNCHANGED <<source, device, shown, pending, ahead, bySource, shed, flush,
                       listener, serving, paired, dropping, transfers, last>>
    BY DEF ClosesCut, Goes, entryVars, httpVars
  <1>3. TypesOK'
    BY <1>0, <1>1, <1>2 DEF TypesOK, Proving
  <1>4. ListOK' /\ CountsOK'
    BY <1>0, <1>2, EntryStays
  <1>5. LifeTypeOK'
    BY <1>0, <1>2 DEF LifeTypeOK
  <1>6. AcceptorInv'
    BY <1>2 DEF AcceptorInv
  <1>7. ASSUME NEW x \in Conn PROVE Stands(x)'
    <2>0. Stands(x)
      BY DEF ChannelInv
    <2>1. CASE x = start
      <3>1. phase'[x] = "auth" /\ x \notin cut'
        BY <2>0, <2>1, <1>0, <1>1, <1>2 DEF TypesOK, Stands
      <3> QED BY <3>1, <2>0, <2>1, <1>1, <1>2 DEF Stands, Proving, Verified, Asking
    <2>2. CASE x # start
      <3>1. phase'[x] = phase[x] /\ phase[x] # "admitted"
        BY <2>0, <2>2, <1>0, <1>1, <1>2 DEF TypesOK, Stands
      <3>2. x \in cut' <=> x \in cut \/ (x \in acceptor.close /\ phase[x] # "free")
        BY <1>2
      <3>3. /\ acceptor'.close = {}
            /\ UNCHANGED <<device, shown, pending, paired, dropping, transfers>>
        BY <1>2
      <3> QED BY <3>1, <3>2, <3>3, <2>0 DEF Stands
    <2> QED BY <2>1, <2>2
  <1>8. CloseInv'
    BY <1>0, <1>1, <1>2 DEF CloseInv
  <1>9. ChannelTypeOK'
    BY <1>3, <1>4 DEF ChannelTypeOK, TypesOK, CountsOK
  <1> QED BY <1>4, <1>5, <1>6, <1>7, <1>8, <1>9 DEF ChannelInv

\* The steps of the listener's own life: the accept loop's end, Close and the warning.
LifeStep == LoopEnds \/ AcceptEnds \/ Close \/ TimerFires \/ warnShed

\* Such a step touches no connection and no record of one.
LEMMA LifeKeeps ==
    ASSUME ChannelInv, LifeStep
    PROVE  ChannelInv'
  <1>0. /\ ListOK /\ CountsOK /\ TypesOK /\ LifeTypeOK /\ AcceptorInv /\ CloseInv
        /\ ChannelTypeOK
    BY TypeHalves DEF ChannelInv
  <1>1. /\ UNCHANGED <<phase, source, device, shown, cut, pending, ahead, bySource,
                       paired, dropping, transfers, last>>
        /\ \/ UNCHANGED acceptor
           \/ /\ acceptor.at = "accept" /\ listener # "open" /\ UNCHANGED <<listener, shed, flush>>
              /\ acceptor' = [acceptor EXCEPT !.at = "ended"]
    BY DEF LifeStep, LoopEnds, AcceptEnds, Close, Cancels, MarksClosed, WaitsForAll,
       FlushesWarning, CloseTo, TimerFires, warnShed, connVars, entryVars, lifeVars, httpVars
  <1>2. LifeTypeOK'
    <2>1. serving' \in BOOLEAN /\ shed' \in BOOLEAN /\ flush' \in {"none", "armed", "fired"}
          /\ listener' \in {"open", "cancelled", "marked", "waited", "closed"}
      BY <1>0 DEF LifeTypeOK, LifeStep, LoopEnds, AcceptEnds, Close, Cancels, MarksClosed,
         WaitsForAll, FlushesWarning, CloseTo, TimerFires, warnShed, entryVars, lifeVars
    <2> QED BY <2>1, <1>0, <1>1 DEF LifeTypeOK
  <1>3. TypesOK' /\ ListOK' /\ CountsOK'
    BY <1>0, <1>1, EntryStays DEF TypesOK
  <1>4. acceptor'.close = acceptor.close /\ acceptor'.start = acceptor.start
        /\ (acceptor'.at = "close" <=> acceptor.at = "close")
    BY <1>0, <1>1 DEF LifeTypeOK
  <1>5. AcceptorInv'
    BY <1>0, <1>1, <1>4 DEF AcceptorInv
  <1>6. ASSUME NEW x \in Conn PROVE Stands(x)'
    BY <1>1, <1>4 DEF ChannelInv, Stands
  <1>7. CloseInv'
    <2>0. Underway' = Underway
      BY <1>1 DEF Underway
    <2>1. CASE LoopEnds
      BY <2>0, <2>1, <1>0, <1>1 DEF LoopEnds, CloseInv, entryVars
    <2>2. CASE AcceptEnds \/ TimerFires \/ warnShed
      BY <2>0, <2>2, <1>0 DEF AcceptEnds, TimerFires, warnShed, CloseInv, entryVars, lifeVars
    <2>3. CASE Close
      BY <2>0, <2>3, <1>0
         DEF Close, Cancels, MarksClosed, WaitsForAll, FlushesWarning, CloseTo, CloseInv
    <2> QED BY <2>1, <2>2, <2>3 DEF LifeStep
  <1>8. ChannelTypeOK'
    BY <1>3 DEF ChannelTypeOK, TypesOK, CountsOK
  <1> QED BY <1>2, <1>3, <1>5, <1>6, <1>7, <1>8 DEF ChannelInv

\* A device is paired, revoked, or its transfers cut: every transfer that moves bytes
\* stays with a paired key, one about to be dropped, or a socket that is closed.
LEMMA DeviceKeeps ==
    ASSUME ChannelInv, NEW k \in Guest, Pairs(k) \/ Revokes(k) \/ dropTransfers(k)
    PROVE  ChannelInv'
  <1>0. /\ ListOK /\ CountsOK /\ TypesOK /\ LifeTypeOK /\ AcceptorInv /\ CloseInv
        /\ ChannelTypeOK /\ k \in Key
    BY TypeHalves, ChannelAssumption DEF ChannelInv
  <1>1. UNCHANGED <<phase, source, device, shown, pending, ahead, bySource, shed, flush,
                    acceptor, listener, serving, transfers, last>>
    BY DEF Pairs, Revokes, dropTransfers, connVars, entryVars, lifeVars
  <1>2. /\ paired' \subseteq Key /\ dropping' \subseteq Key /\ cut' \subseteq Conn
    BY <1>0 DEF Pairs, Revokes, dropTransfers, LifeTypeOK, TypesOK
  <1>3. TypesOK' /\ ListOK' /\ CountsOK' /\ LifeTypeOK'
    BY <1>0, <1>1, <1>2, EntryStays DEF TypesOK, LifeTypeOK
  <1>4. AcceptorInv' /\ CloseInv'
    BY <1>0, <1>1 DEF AcceptorInv, CloseInv, Underway
  <1>5. ASSUME NEW x \in Conn PROVE Stands(x)'
    <2>0. Stands(x)
      BY DEF ChannelInv
    <2>1. CASE Pairs(k)
      BY <2>0, <2>1, <1>1 DEF Stands, Pairs
    <2>2. CASE Revokes(k)
      BY <2>0, <2>2, <1>1 DEF Stands, Revokes
    <2>3. CASE dropTransfers(k)
      <3>1. /\ dropping' = dropping \ {k} /\ paired' = paired
            /\ x \in cut' <=> x \in cut \/ (x \in transfers /\ shown[x] = k)
        BY <2>3 DEF dropTransfers, peer
      <3> QED BY <2>0, <3>1, <1>1 DEF Stands, Proving, Verified, Asking
    <2> QED BY <2>1, <2>2, <2>3
  <1>6. ChannelTypeOK'
    BY <1>3 DEF ChannelTypeOK, TypesOK, CountsOK
  <1> QED BY <1>3, <1>4, <1>5, <1>6 DEF ChannelInv

(***************************************************************************)
(* The invariant, and what follows from it                                 *)
(***************************************************************************)

\* The server comes up with nothing accepted.
LEMMA ChannelInitially == ChannelInit => ChannelInv
  <1> SUFFICES ASSUME ChannelInit PROVE ChannelInv
    OBVIOUS
  <1>1. TypesOK
    BY ChannelAssumption DEF ChannelInit, TypesOK
  <1>2. CountsOK
    <2>1. \A s \in Source : {c \in pending : source[c] = s} = {}
      BY DEF ChannelInit
    <2>2. \A s \in Source : bySource[s] = 0 /\ 0 <= Share(s)
      BY ChannelAssumption DEF ChannelInit, Share
    <2>3. pending = {} /\ 0 <= MaxPending
      BY ChannelAssumption DEF ChannelInit
    <2> QED BY <2>1, <2>2, <2>3, FS_EmptySet DEF CountsOK
  <1>3. LifeTypeOK
    BY ChannelAssumption DEF ChannelInit, LifeTypeOK
  <1>4. ListOK
    BY FS_EmptySet DEF ChannelInit, ListOK
  <1>5. AcceptorInv /\ CloseInv
    BY DEF ChannelInit, AcceptorInv, CloseInv
  <1>6. \A c \in Conn : Stands(c)
    BY DEF ChannelInit, Stands, Proving, Verified, Asking
  <1> QED BY <1>1, <1>2, <1>3, <1>4, <1>5, <1>6, TypeHalves DEF ChannelInv

\* Every step keeps the invariant.
LEMMA ChannelKeeps == ChannelInv /\ [ChannelNext]_channelVars => ChannelInv'
  <1> SUFFICES ASSUME ChannelInv, [ChannelNext]_channelVars PROVE ChannelInv'
    OBVIOUS
  <1>1. CASE \E c \in Conn : Handshakes(c) \/ Requests(c) \/ Accept(c)
    <2> PICK c \in Conn : Handshakes(c) \/ Requests(c) \/ Accept(c)
      BY <1>1
    <2>1. OneConn(c) \/ leave(c)
      BY DEF Handshakes, OneConn
    <2> QED BY <2>1, OneConnKeeps, LeaveKeeps
  <1>2. CASE \E c \in Conn, s \in Source : admit(c, s)
    BY <1>2, AdmitKeeps
  <1>3. CASE ClosesCut
    BY <1>3, ClosesCutKeeps
  <1>4. CASE LifeStep
    BY <1>4, LifeKeeps
  <1>5. CASE \E k \in Guest : Pairs(k) \/ Revokes(k) \/ dropTransfers(k)
    BY <1>5, DeviceKeeps
  <1>6. CASE UNCHANGED channelVars
    BY <1>6 DEF ChannelInv, ChannelTypeOK, LifeTypeOK, ListOK, AcceptorInv, CloseInv, Stands,
       Share, Underway, channelVars, connVars, entryVars, lifeVars, httpVars
  <1> QED BY <1>1, <1>2, <1>3, <1>4, <1>5, <1>6 DEF ChannelNext, LifeStep

\* The invariant holds throughout, whatever the limits.
THEOREM ChannelInductive == ChannelSpec => []ChannelInv
  BY ChannelInitially, ChannelKeeps, PTL DEF ChannelSpec

\* The counts match the list and no limit is exceeded (admit, forgetLocked).
THEOREM ChannelTypeCorrect == ChannelSpec => []ChannelTypeOK
  <1>1. ChannelInv => ChannelTypeOK
    BY DEF ChannelInv
  <1> QED BY <1>1, ChannelInductive, PTL

\* Bytes move only for a peer that holds the key of a paired device, or of one whose
\* transfers are cut or about to be (respondAuth2, admitTransfer, dropDevice).
THEOREM OnlyPairedTransferAlways == ChannelSpec => []OnlyPairedTransfer
  <1>1. ChannelInv => OnlyPairedTransfer
    BY DEF ChannelInv, Stands, OnlyPairedTransfer
  <1> QED BY <1>1, ChannelInductive, PTL

\* When Close has returned nothing is under way and what was shed is reported.
THEOREM ClosedLeavesNothingAlways == ChannelSpec => []ClosedLeavesNothing
  <1>1. ASSUME ChannelInv PROVE ClosedLeavesNothing
    <2>1. pending \subseteq Underway
      BY <1>1 DEF ChannelInv, Stands, ListOK, Underway
    <2> QED BY <2>1, <1>1 DEF ChannelInv, CloseInv, LifeTypeOK, ClosedLeavesNothing
  <1>2. ChannelInv => ClosedLeavesNothing
    BY <1>1
  <1> QED BY <1>2, ChannelInductive, PTL

\* A connection cut to make room is never handed to the HTTP server: by the time it
\* is ready it has left the list, and nothing outside the list is ready (leave).
THEOREM CutIsNeverServedAlways == ChannelSpec => CutIsNeverServed
  <1>1. ChannelInv => \A c \in Conn : phase[c] = "ready" /\ phase'[c] = "served"
                                         => c \notin cut \cup acceptor.close
    BY DEF ChannelInv, Stands, Proving, Verified
  <1> QED BY <1>1, ChannelInductive, PTL DEF CutIsNeverServed

\* A source at its share makes room among its own handshakes only (admit): room made
\* within the source leaves the entry below its limit.
THEOREM FloodStaysHomeAlways == ChannelSpec => FloodStaysHome
  <1>1. ASSUME ChannelInv, ChannelNext, NEW c \in Conn,
               phase[c] = "free", phase'[c] = "admitted",
               bySource[source'[c]] = Share(source'[c])
        PROVE  \A x \in acceptor'.close : source[x] = source'[c]
    <2>0. ListOK /\ ChannelTypeOK /\ TypesOK
      BY <1>1, TypeHalves DEF ChannelInv
    <2>1. CASE \E d \in Conn, s \in Source : admit(d, s)
      <3> PICK d \in Conn, s \in Source : admit(d, s)
        BY <2>1
      <3>1. /\ phase' = [phase EXCEPT ![d] = "admitted"] /\ source' = [source EXCEPT ![d] = s]
            /\ acceptor'.close = makesRoom(s).own \cup makesRoom(s).others
        BY DEF admit, Goes
      <3>2. c = d /\ source'[c] = s
        BY <3>1, <2>0, <1>1 DEF TypesOK
      <3>3. makesRoom(s).others = {} /\ makesRoom(s).own \subseteq {x \in pending : source[x] = s}
        BY <3>2, <2>0, <1>1, RoomIsMade
      <3> QED BY <3>1, <3>2, <3>3
    <2>2. CASE \E d \in Conn : OneConn(d) \/ leave(d)
      <3> PICK d \in Conn : OneConn(d) \/ leave(d)
        BY <2>2
      <3>1. phase' = [phase EXCEPT ![d] = phase'[d]] /\ phase'[d] # "admitted"
        BY <2>0 DEF OneConn, Auth, Auth2, Passes, Refused, Fails, GivesUp, Accept, Requests, Door,
           Departs, trackTransfer, admitTransfer, TransferEnds, Keeps, Ended, Goes, TypesOK,
           leave, Leaves, HandsOver
      <3> QED BY <3>1, <2>0, <1>1 DEF TypesOK
    <2>3. CASE ClosesCut
      <3>1. acceptor.start \in Conn /\ phase' = [phase EXCEPT ![acceptor.start] = "auth"]
        BY <2>3, <1>1 DEF ClosesCut, Goes, ChannelInv, AcceptorInv, ListOK
      <3> QED BY <3>1, <2>0, <1>1 DEF TypesOK
    <2>4. CASE LifeStep \/ \E k \in Guest : Pairs(k) \/ Revokes(k) \/ dropTransfers(k)
      <3>1. phase' = phase
        BY <2>4 DEF LifeStep, LoopEnds, AcceptEnds, Close, Cancels, MarksClosed, WaitsForAll,
           FlushesWarning, CloseTo, TimerFires, warnShed, Pairs, Revokes, dropTransfers, connVars
      <3> QED BY <3>1, <1>1
    <2> QED BY <2>1, <2>2, <2>3, <2>4, <1>1 DEF ChannelNext, Handshakes, OneConn, LifeStep
  <1>2. ChannelInv /\ [ChannelNext]_channelVars
          => [\A c \in Conn : phase[c] = "free" /\ phase'[c] = "admitted"
                                /\ bySource[source'[c]] = Share(source'[c])
                => \A x \in acceptor'.close : source[x] = source'[c]]_channelVars
    BY <1>1
  <1> QED BY <1>2, ChannelInductive, PTL DEF FloodStaysHome, ChannelSpec
=============================================================================
