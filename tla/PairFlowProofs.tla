--------------------------- MODULE PairFlowProofs ---------------------------
(***************************************************************************)
(* What PairFlow promises, for any number of keys, connections, invites,   *)
(* places and faults.                                                      *)
(*                                                                         *)
(* What a connection is held to is one record, changed in critical         *)
(* sections: HoldOK is what each of them keeps, and the lemmas about the   *)
(* operators say whom each lets go, places and closes.  The rest is about  *)
(* what a handler still has to do when others come between its steps.      *)
(***************************************************************************)
EXTENDS PairFlow, FiniteSetTheorems, TLAPS

Steps == {"free", "ask", "hold", "read", "settle", "await", "reread", "pending", "opened", "drop",
          "end", "tell", "mark", "list", "resend", "recheck"}
Outcomes == {"none", "waiting", "allowed", "denied", "expired", "cancelled"}
Task == [at : Steps, r : Request \cup {None}, todo : SUBSET Request, who : Key \cup {None}]
HoldType ==
    [unpaired : SUBSET Conn, ahead : [Conn -> SUBSET Conn], waits : [Request -> Conn \cup {None}],
     fired : [Conn -> {"no", "current", "stale"}], closing : SUBSET Conn]

HeldIn(h, c) == c \in h.unpaired \/ \E r \in Request : h.waits[r] = c

\* The places are within the cap and in one order, a connection has a place or one wait, and
\* a deadline that fired was armed for what the connection is held to, D the requests
\* whose time is up.
HoldOK(h, D) ==
    /\ h \in HoldType
    /\ IsFiniteSet(h.unpaired) /\ Cardinality(h.unpaired) <= MaxUnpaired
    /\ \A c \in Conn : h.ahead[c] \subseteq h.unpaired
    /\ \A c \in h.unpaired : c \notin h.ahead[c] /\ \A x \in h.ahead[c] : h.ahead[x] \subseteq h.ahead[c]
    /\ \A r \in Request : h.waits[r] \notin h.unpaired
    /\ \A q, r \in Request : h.waits[q] = h.waits[r] /\ h.waits[q] # None => q = r
    /\ \A c \in Conn : h.fired[c] = "current" => c \in h.unpaired \/ \E r \in D : h.waits[r] = c

\* The command on its way in.
InboxOK(c) ==
    inbox[c] # None =>
        /\ inbox[c].cmd \in {"pair.cancel", "device.approve"} => inbox[c].r \in Request
        /\ inbox[c].cmd = "device.revoke" => inbox[c].d \in Key

\* Where a handler stands, and what it may take for granted there.
TaskOK(a, t) ==
    /\ t \in Task
    /\ a = Sweeper => t.at \in {"read", "end", "tell"}
    /\ t.at \in {"await", "reread", "pending", "opened", "tell"} => t.r \in Request
    /\ t.at = "drop" => t.who \in Key

TaskInv ==
    /\ DOMAIN inbox = Conn /\ \A c \in Conn : InboxOK(c)
    /\ task \in [Conn \cup {Sweeper} -> Task] /\ \A a \in Conn \cup {Sweeper} : TaskOK(a, task[a])
    /\ \A c \in Conn :
         /\ task[c].at = "free" <=> key[c] = None
         /\ task[c].at \in {"free", "ask", "hold"} => ~Held(c)

StoreOK ==
    /\ paired \subseteq Key /\ due \subseteq Request /\ spent \subseteq Key
    /\ asker \in [Request -> Key \cup {None}] /\ outcome \in [Request -> Outcomes]
    /\ \A r \in Request : outcome[r] # "none" => asker[r] \in Key

AppOK ==
    /\ app \in [Key -> [at : {"out", "wait", "asked", "in"}, r : Request \cup {None}, nudge : BOOLEAN]]
    /\ link \in [Key -> Conn \cup {None}]

ConnOK ==
    /\ key \in [Conn -> Key \cup {None}]
    /\ closing \cup revoked \cup greeted \subseteq {c \in Conn : key[c] # None}
    /\ dialog \in [Conn -> SUBSET Request] /\ missed \in [Conn -> SUBSET Request]

TypeInv == StoreOK /\ AppOK /\ ConnOK /\ HoldOK(Hold, due) /\ TaskInv

\* A key that is paired, or whose connection c is about to go.
Fine(c) == key[c] \in paired \/ c \in closing \/ DropOnItsWay(key[c])

StrangerInv ==
    /\ StrangersAreHeld
    /\ \A c \in Conn : task[c].at \in {"settle", "mark"} => Fine(c)
    /\ \A c \in Conn, r \in Request :
         waits[r] = c \/ (task[c].at = "await" /\ task[c].r = r) =>
           /\ outcome[r] # "none" /\ asker[r] = key[c]
           /\ outcome[r] = "allowed" => Fine(c)

\* Who waits on r is about to read it again.
Rereads(r) == waits[r] # None => task[waits[r]].at = "reread" /\ task[waits[r]].r = r

WaitInv ==
    /\ NobodyWaitsInVain
    /\ \A a \in Conn \cup {Sweeper} :
         /\ task[a].at = "tell" => Closed(task[a].r) /\ Rereads(task[a].r)
         /\ task[a].at \in {"drop", "end", "tell"} => \A r \in task[a].todo : Closed(r)

(***************************************************************************)
(* What a critical section does to the holds                               *)
(***************************************************************************)

\* Some are let go: out of their places and waits, and their deadlines out of date.
LEMMA LetsGo ==
    ASSUME NEW h, NEW D \in SUBSET Request, HoldOK(h, D), NEW C \in SUBSET Conn, NEW g, g = letGoAll(h, C)
    PROVE  /\ HoldOK(g, D)
           /\ g.unpaired = h.unpaired \ C /\ g.closing = h.closing
           /\ \A r \in Request : g.waits[r] = IF h.waits[r] \in C THEN None ELSE h.waits[r]
           /\ \A x \in Conn : HeldIn(g, x) <=> HeldIn(h, x) /\ x \notin C
  <1>0. h \in HoldType /\ None \notin Conn /\ MaxUnpaired \in Nat
    BY PairFlowAssumption DEF HoldOK
  <1>1. /\ g.unpaired = h.unpaired \ C /\ g.closing = h.closing
        /\ g.ahead = [c \in Conn |-> IF c \in C THEN {} ELSE h.ahead[c] \ C]
        /\ g.waits = [r \in Request |-> IF h.waits[r] \in C THEN None ELSE h.waits[r]]
        /\ g.fired = [c \in Conn |-> IF c \in C /\ h.fired[c] # "no" THEN "stale" ELSE h.fired[c]]
    BY <1>0 DEF letGoAll, HoldType
  <1>2. g \in HoldType
    <2>1. /\ g.unpaired \in SUBSET Conn /\ g.closing \in SUBSET Conn
          /\ g.ahead \in [Conn -> SUBSET Conn] /\ g.waits \in [Request -> Conn \cup {None}]
          /\ g.fired \in [Conn -> {"no", "current", "stale"}]
      BY <1>0, <1>1 DEF HoldType
    <2>2. g = [unpaired |-> g.unpaired, ahead |-> g.ahead, waits |-> g.waits, fired |-> g.fired,
               closing |-> g.closing]
      BY <1>0 DEF letGoAll, HoldType
    <2> QED BY <2>1, <2>2 DEF HoldType
  <1>3. /\ IsFiniteSet(g.unpaired) /\ Cardinality(g.unpaired) <= Cardinality(h.unpaired)
        /\ Cardinality(g.unpaired) \in Nat /\ Cardinality(h.unpaired) \in Nat
    BY <1>1, FS_Subset, FS_CardinalityType DEF HoldOK
  <1>4. Cardinality(g.unpaired) <= MaxUnpaired
    BY <1>0, <1>3 DEF HoldOK
  <1>5. \A c \in Conn : g.ahead[c] \subseteq g.unpaired
    BY <1>1 DEF HoldOK
  <1>6. \A c \in g.unpaired : c \notin g.ahead[c] /\ \A x \in g.ahead[c] : g.ahead[x] \subseteq g.ahead[c]
    BY <1>0, <1>1 DEF HoldOK, HoldType
  <1>7. \A r \in Request : g.waits[r] \notin g.unpaired
    BY <1>0, <1>1 DEF HoldOK, HoldType
  <1>8. \A q, r \in Request : g.waits[q] = g.waits[r] /\ g.waits[q] # None => q = r
    BY <1>1 DEF HoldOK
  <1>9. ASSUME NEW c \in Conn, g.fired[c] = "current"
        PROVE  c \in g.unpaired \/ \E r \in D : g.waits[r] = c
    <2>1. c \notin C /\ h.fired[c] = "current"
      BY <1>1, <1>9
    <2>2. CASE c \in h.unpaired
      BY <1>1, <2>1, <2>2
    <2>3. CASE \E r \in D : h.waits[r] = c
      BY <1>1, <2>1, <2>3
    <2>4. \A x \in Conn : h.fired[x] = "current" => x \in h.unpaired \/ \E r \in D : h.waits[r] = x
      BY DEF HoldOK
    <2> QED BY <2>1, <2>2, <2>3, <2>4
  <1>10. \A x \in Conn : HeldIn(g, x) <=> HeldIn(h, x) /\ x \notin C
    BY <1>0, <1>1 DEF HeldIn
  <1>11. HoldOK(g, D)
    BY <1>2, <1>3, <1>4, <1>5, <1>6, <1>7, <1>8, <1>9 DEF HoldOK
  <1>12. \A r \in Request : g.waits[r] = IF h.waits[r] \in C THEN None ELSE h.waits[r]
    BY <1>1
  <1> QED BY <1>1, <1>10, <1>11, <1>12

\* There is a first among the places, if there is a place taken.
LEMMA HasFirst ==
    ASSUME NEW h, NEW D \in SUBSET Request, HoldOK(h, D), h.unpaired # {}
    PROVE  \E c \in h.unpaired : h.ahead[c] = {}
  <1>0. /\ IsFiniteSet(h.unpaired) /\ h.unpaired \subseteq Conn
        /\ \A c \in h.unpaired : /\ h.ahead[c] \subseteq h.unpaired /\ c \notin h.ahead[c]
                                 /\ \A x \in h.ahead[c] : h.ahead[x] \subseteq h.ahead[c]
    BY DEF HoldOK, HoldType
  <1> DEFINE T == {h.ahead[c] : c \in h.unpaired}
             R == StrictSubsetOrdering(h.unpaired)
  <1>1. T \subseteq SUBSET h.unpaired
    BY <1>0
  <1>2. T # {}
    <2> PICK c \in h.unpaired : TRUE
      OBVIOUS
    <2>1. h.ahead[c] \in T
      OBVIOUS
    <2> QED BY <2>1
  <1>3. IsWellFoundedOn(R, SUBSET h.unpaired)
    <2>1. ASSUME NEW S, IsFiniteSet(S) PROVE IsWellFoundedOn(StrictSubsetOrdering(S), SUBSET S)
      BY <2>1, FS_StrictSubsetOrderingWellFounded, FS_FiniteSubsetsOfFinite
    <2> QED BY <1>0, <2>1
  <1> HIDE DEF R, T
  <1>4. PICK a \in T : \A b \in T : ~ (<<b, a>> \in R)
    BY <1>1, <1>2, <1>3, WFMin
  <1>5. PICK c \in h.unpaired : a = h.ahead[c]
    BY <1>4 DEF T
  <1>6. ASSUME NEW x \in h.ahead[c] PROVE FALSE
    <2>1. h.ahead[x] \subseteq a /\ x \in h.unpaired /\ x \notin h.ahead[x] /\ x \in a
      BY <1>0, <1>5, <1>6
    <2>2. h.ahead[x] \in T
      BY <2>1 DEF T
    <2>3. <<h.ahead[x], a>> \in R
      BY <1>1, <1>4, <2>1, <2>2 DEF R, StrictSubsetOrdering
    <2> QED BY <1>4, <2>2, <2>3
  <1> QED BY <1>6

\* A connection that was held to nothing is the newest, and who lost a place is closed.
LEMMA Places ==
    ASSUME NEW h, NEW D \in SUBSET Request, HoldOK(h, D), NEW c \in Conn, ~HeldIn(h, c), NEW g, g = placeUnpaired(h, c)
    PROVE  /\ HoldOK(g, D) /\ HeldIn(g, c)
           /\ g.waits = h.waits /\ h.closing \subseteq g.closing /\ g.closing \subseteq h.closing \cup h.unpaired
           /\ \A x \in Conn : HeldIn(g, x) => HeldIn(h, x) \/ x = c
           /\ \A x \in Conn : HeldIn(h, x) => HeldIn(g, x) \/ x \in g.closing
  <1> DEFINE cut == Oldest(h, Cardinality(h.unpaired) - MaxUnpaired + 1)
             f == letGoAll(h, cut)
  <1>0. h \in HoldType /\ None \notin Conn /\ MaxUnpaired \in Nat \ {0} /\ cut \subseteq h.unpaired /\ cut \in SUBSET Conn
    BY PairFlowAssumption DEF HoldOK, HoldType, Oldest
  <1>1. /\ HoldOK(f, D) /\ f \in HoldType /\ f.unpaired = h.unpaired \ cut /\ f.closing = h.closing
        /\ \A r \in Request : f.waits[r] = h.waits[r]
        /\ \A x \in Conn : HeldIn(f, x) <=> HeldIn(h, x) /\ x \notin cut
    <2>1. /\ HoldOK(f, D) /\ f.unpaired = h.unpaired \ cut /\ f.closing = h.closing
          /\ \A r \in Request : f.waits[r] = IF h.waits[r] \in cut THEN None ELSE h.waits[r]
          /\ \A x \in Conn : HeldIn(f, x) <=> HeldIn(h, x) /\ x \notin cut
      BY <1>0, LetsGo
    <2> QED BY <1>0, <2>1 DEF HoldOK
  <1>2. IsFiniteSet(h.unpaired) /\ Cardinality(h.unpaired) \in Nat /\ Cardinality(h.unpaired) <= MaxUnpaired
    BY FS_CardinalityType DEF HoldOK
  <1>3. IsFiniteSet(f.unpaired) /\ Cardinality(f.unpaired) \in Nat /\ Cardinality(f.unpaired) < MaxUnpaired
    <2>1. IsFiniteSet(f.unpaired) /\ Cardinality(f.unpaired) \in Nat
      BY <1>1, FS_CardinalityType DEF HoldOK
    <2>2. CASE Cardinality(h.unpaired) < MaxUnpaired
      <3>1. Cardinality(f.unpaired) <= Cardinality(h.unpaired)
        BY <1>1, <1>2, FS_Subset
      <3> QED BY <1>0, <1>2, <2>1, <2>2, <3>1
    <2>3. CASE Cardinality(h.unpaired) = MaxUnpaired
      <3>1. h.unpaired # {}
        BY <1>0, <2>3, FS_EmptySet
      <3>2. PICK x \in h.unpaired : h.ahead[x] = {}
        BY <3>1, HasFirst
      <3>3. Cardinality({}) = 0 /\ Cardinality(h.unpaired) - MaxUnpaired + 1 = 1
        BY <1>0, <2>3, FS_EmptySet
      <3>4. x \in cut
        BY <3>2, <3>3 DEF Oldest
      <3>5. Cardinality(h.unpaired \ {x}) = Cardinality(h.unpaired) - 1 /\ IsFiniteSet(h.unpaired \ {x})
        BY <1>2, FS_RemoveElement
      <3>6. Cardinality(f.unpaired) <= Cardinality(h.unpaired \ {x})
        BY <1>1, <3>4, <3>5, FS_Subset
      <3> QED BY <1>0, <1>2, <2>1, <2>3, <3>5, <3>6
    <2> QED BY <1>0, <1>2, <2>1, <2>2, <2>3
  <1>14. g = [f EXCEPT !.unpaired = f.unpaired \cup {c}, !.ahead = [f.ahead EXCEPT ![c] = f.unpaired],
                     !.closing = f.closing \cup cut]
    BY DEF placeUnpaired
  <1> HIDE DEF cut, f
  <1>4. /\ g.unpaired = f.unpaired \cup {c} /\ g.closing = h.closing \cup cut
        /\ g.ahead = [f.ahead EXCEPT ![c] = f.unpaired] /\ g.waits = f.waits /\ g.fired = f.fired
    BY <1>1, <1>14 DEF HoldType
  <1>5. g \in HoldType
    <2>1. /\ g.unpaired \in SUBSET Conn /\ g.closing \in SUBSET Conn
          /\ g.ahead \in [Conn -> SUBSET Conn] /\ g.waits \in [Request -> Conn \cup {None}]
          /\ g.fired \in [Conn -> {"no", "current", "stale"}]
      BY <1>0, <1>1, <1>4 DEF HoldType
    <2>2. g = [unpaired |-> g.unpaired, ahead |-> g.ahead, waits |-> g.waits, fired |-> g.fired,
               closing |-> g.closing]
      BY <1>1, <1>14 DEF HoldType
    <2> QED BY <2>1, <2>2 DEF HoldType
  <1>6. c \notin h.unpaired /\ c \notin f.unpaired /\ \A r \in Request : h.waits[r] # c
    BY <1>1 DEF HeldIn
  <1>7. IsFiniteSet(g.unpaired) /\ Cardinality(g.unpaired) <= MaxUnpaired
    <2>1. IsFiniteSet(g.unpaired) /\ Cardinality(g.unpaired) = Cardinality(f.unpaired) + 1
      BY <1>3, <1>4, <1>6, FS_AddElement, SMTT(30)
    <2> QED BY <1>0, <1>3, <2>1
  <1>8. \A x \in Conn : g.ahead[x] \subseteq g.unpaired
    BY <1>1, <1>4 DEF HoldOK, HoldType
  <1>9. \A x \in g.unpaired : x \notin g.ahead[x] /\ \A y \in g.ahead[x] : g.ahead[y] \subseteq g.ahead[x]
    <2>1. g.ahead[c] = f.unpaired /\ \A x \in f.unpaired : g.ahead[x] = f.ahead[x] /\ f.ahead[x] \subseteq f.unpaired
      BY <1>1, <1>4, <1>6 DEF HoldOK, HoldType
    <2> QED BY <1>1, <1>4, <1>6, <2>1 DEF HoldOK
  <1>10. \A r \in Request : g.waits[r] \notin g.unpaired
    BY <1>1, <1>4, <1>6 DEF HoldOK
  <1>11. \A q, r \in Request : g.waits[q] = g.waits[r] /\ g.waits[q] # None => q = r
    BY <1>1, <1>4 DEF HoldOK
  <1>12. \A x \in Conn : g.fired[x] = "current" => x \in g.unpaired \/ \E r \in D : g.waits[r] = x
    BY <1>1, <1>4 DEF HoldOK
  <1>13. HoldOK(g, D)
    BY <1>5, <1>7, <1>8, <1>9, <1>10, <1>11, <1>12 DEF HoldOK
  <1>16. g.waits = h.waits
    BY <1>0, <1>1, <1>4 DEF HoldType
  <1>15. /\ \A x \in Conn : HeldIn(g, x) => HeldIn(h, x) \/ x = c
         /\ \A x \in Conn : HeldIn(h, x) => HeldIn(g, x) \/ x \in g.closing
    BY <1>1, <1>4 DEF HeldIn
  <1> QED BY <1>0, <1>4, <1>13, <1>15, <1>16 DEF HeldIn

\* A wait ends: whoever held it has a place again, unless its key is paired.
LEMMA WaitEnds ==
    ASSUME NEW h, NEW D \in SUBSET Request, HoldOK(h, D), NEW r \in Request, NEW how,
           NEW g, g = endWait(h, r, how)
    PROVE  /\ HoldOK(g, D)
           /\ \A q \in Request : g.waits[q] = IF q = r THEN None ELSE h.waits[q]
           /\ h.closing \subseteq g.closing /\ g.closing \subseteq h.closing \cup h.unpaired
           /\ \A x \in Conn : HeldIn(g, x) => HeldIn(h, x)
           /\ \A x \in Conn : HeldIn(h, x) =>
                HeldIn(g, x) \/ x \in g.closing \/ (how = "allowed" /\ h.waits[r] = x)
  <1>1. CASE h.waits[r] = None
    <2>1. g = h
      BY <1>1 DEF endWait
    <2> QED BY <1>1, <2>1
  <1>2. CASE h.waits[r] # None
    <2> SUFFICES ASSUME NEW c, c = h.waits[r], NEW k, k = letGo(h, c)
                 PROVE  /\ HoldOK(g, D)
                        /\ \A q \in Request : g.waits[q] = IF q = r THEN None ELSE h.waits[q]
                        /\ h.closing \subseteq g.closing /\ g.closing \subseteq h.closing \cup h.unpaired
                        /\ \A x \in Conn : HeldIn(g, x) => HeldIn(h, x)
                        /\ \A x \in Conn : HeldIn(h, x) =>
                             HeldIn(g, x) \/ x \in g.closing \/ (how = "allowed" /\ h.waits[r] = x)
      OBVIOUS
    <2>0. c \in Conn /\ c # None /\ HeldIn(h, c)
      BY <1>2 DEF HoldOK, HoldType, HeldIn
    <2>1. /\ HoldOK(k, D) /\ k.unpaired = h.unpaired \ {c} /\ k.closing = h.closing
          /\ \A q \in Request : k.waits[q] = IF h.waits[q] \in {c} THEN None ELSE h.waits[q]
          /\ \A x \in Conn : HeldIn(k, x) <=> HeldIn(h, x) /\ x \notin {c}
      BY <2>0, LetsGo DEF letGo
    <2>2. \A q \in Request : k.waits[q] = IF q = r THEN None ELSE h.waits[q]
      BY <1>2, <2>1 DEF HoldOK
    <2>3. CASE how = "allowed"
      <3>1. g = k
        BY <1>2, <2>3 DEF endWait
      <3> QED BY <2>1, <2>2, <2>3, <3>1
    <2>4. CASE how # "allowed"
      <3>1. g = placeUnpaired(k, c)
        BY <1>2, <2>4 DEF endWait
      <3>2. /\ HoldOK(g, D) /\ HeldIn(g, c)
            /\ g.waits = k.waits /\ k.closing \subseteq g.closing /\ g.closing \subseteq k.closing \cup k.unpaired
            /\ \A x \in Conn : HeldIn(g, x) => HeldIn(k, x) \/ x = c
            /\ \A x \in Conn : HeldIn(k, x) => HeldIn(g, x) \/ x \in g.closing
        BY <2>0, <2>1, <3>1, Places
      <3> QED BY <2>0, <2>1, <2>2, <3>2
    <2> QED BY <2>3, <2>4
  <1> QED BY <1>1, <1>2

\* A wait is taken over: the connection that held it is closed.
LEMMA WaitTaken ==
    ASSUME NEW h, NEW D \in SUBSET Request, HoldOK(h, D), NEW r \in Request, NEW c \in Conn,
           NEW g, g = takeWait(h, r, c)
    PROVE  /\ HoldOK(g, D)
           /\ \A q \in Request : g.waits[q] = IF q = r THEN c ELSE IF h.waits[q] = c THEN None ELSE h.waits[q]
           /\ g.closing = h.closing \cup ({h.waits[r]} \ {None, c})
           /\ \A x \in Conn : HeldIn(g, x) => HeldIn(h, x) \/ x = c
           /\ \A x \in Conn : HeldIn(h, x) => HeldIn(g, x) \/ x \in g.closing
  <1> SUFFICES ASSUME NEW k, k = letGo(h, c), NEW p, p = k.waits[r],
                      NEW f, f = IF p = None THEN k ELSE letGo(k, p)
               PROVE  /\ HoldOK(g, D)
                      /\ \A q \in Request : g.waits[q] = IF q = r THEN c
                                                         ELSE IF h.waits[q] = c THEN None ELSE h.waits[q]
                      /\ g.closing = h.closing \cup ({h.waits[r]} \ {None, c})
                      /\ \A x \in Conn : HeldIn(g, x) => HeldIn(h, x) \/ x = c
                      /\ \A x \in Conn : HeldIn(h, x) => HeldIn(g, x) \/ x \in g.closing
    OBVIOUS
  <1>0. None \notin Conn
    BY PairFlowAssumption
  <1>1. /\ HoldOK(k, D) /\ k.unpaired = h.unpaired \ {c} /\ k.closing = h.closing
        /\ \A q \in Request : k.waits[q] = IF h.waits[q] \in {c} THEN None ELSE h.waits[q]
        /\ \A x \in Conn : HeldIn(k, x) <=> HeldIn(h, x) /\ x \notin {c}
    BY LetsGo DEF letGo
  <1>2. /\ p \in Conn \cup {None} /\ p # c /\ (p = None <=> h.waits[r] \in {None, c})
        /\ (p # None => p = h.waits[r])
    BY <1>0, <1>1 DEF HoldOK, HoldType
  <1>3. /\ HoldOK(f, D) /\ f.closing = h.closing /\ c \notin f.unpaired
        /\ \A q \in Request : f.waits[q] = IF q = r \/ h.waits[q] = c THEN None ELSE h.waits[q]
        /\ \A x \in Conn : HeldIn(f, x) <=> HeldIn(h, x) /\ x # c /\ (p = None \/ x # p)
    <2>1. CASE p = None
      BY <1>0, <1>1, <1>2, <2>1
    <2>2. CASE p # None
      <3>1. /\ HoldOK(f, D) /\ f.unpaired = k.unpaired \ {p} /\ f.closing = k.closing
            /\ \A q \in Request : f.waits[q] = IF k.waits[q] \in {p} THEN None ELSE k.waits[q]
            /\ \A x \in Conn : HeldIn(f, x) <=> HeldIn(k, x) /\ x \notin {p}
        BY <1>1, <1>2, <2>2, LetsGo DEF letGo
      <3>2. \A q \in Request : k.waits[q] = p => q = r
        BY <1>1, <2>2 DEF HoldOK
      <3> QED BY <1>1, <1>2, <2>2, <3>1, <3>2
    <2> QED BY <2>1, <2>2
  <1>4. g = [f EXCEPT !.waits = [f.waits EXCEPT ![r] = c], !.closing = f.closing \cup ({p} \ {None})]
    BY DEF takeWait
  <1>5. f \in HoldType
    BY <1>3 DEF HoldOK
  <1>6. /\ g.unpaired = f.unpaired /\ g.ahead = f.ahead /\ g.fired = f.fired
        /\ g.waits = [f.waits EXCEPT ![r] = c] /\ g.closing = f.closing \cup ({p} \ {None})
    BY <1>4, <1>5, SMTT(30) DEF HoldType
  <1>7. g \in HoldType
    <2>1. g.waits \in [Request -> Conn \cup {None}] /\ g.closing \in SUBSET Conn
      BY <1>2, <1>5, <1>6 DEF HoldType
    <2> QED BY <1>4, <1>5, <1>6, <2>1 DEF HoldType
  <1>8. \A q \in Request : g.waits[q] = IF q = r THEN c ELSE IF h.waits[q] = c THEN None ELSE h.waits[q]
    BY <1>3, <1>5, <1>6 DEF HoldType
  <1>9. \A q \in Request : f.waits[q] # c
    BY <1>0, <1>3, SMTT(30)
  <1>10. /\ IsFiniteSet(g.unpaired) /\ Cardinality(g.unpaired) <= MaxUnpaired
         /\ \A x \in Conn : g.ahead[x] \subseteq g.unpaired
         /\ \A x \in g.unpaired : x \notin g.ahead[x] /\ \A y \in g.ahead[x] : g.ahead[y] \subseteq g.ahead[x]
    <2>1. IsFiniteSet(f.unpaired) /\ Cardinality(f.unpaired) <= MaxUnpaired
      BY <1>3 DEF HoldOK
    <2>2. \A x \in Conn : f.ahead[x] \subseteq f.unpaired
      BY <1>3 DEF HoldOK
    <2>3. \A x \in f.unpaired : x \notin f.ahead[x] /\ \A y \in f.ahead[x] : f.ahead[y] \subseteq f.ahead[x]
      BY <1>3 DEF HoldOK
    <2> QED BY <1>6, <2>1, <2>2, <2>3
  <1>11. /\ \A q \in Request : g.waits[q] \notin g.unpaired
         /\ \A q, s \in Request : g.waits[q] = g.waits[s] /\ g.waits[q] # None => q = s
    <2>1. \A q \in Request : g.waits[q] = IF q = r THEN c ELSE f.waits[q]
      BY <1>5, <1>6 DEF HoldType
    <2>2. \A q \in Request : f.waits[q] \notin f.unpaired
      BY <1>3, SMTT(30) DEF HoldOK
    <2>3. \A q, s \in Request : f.waits[q] = f.waits[s] /\ f.waits[q] # None => q = s
      BY <1>3 DEF HoldOK
    <2>4. \A q \in Request : g.waits[q] \notin g.unpaired
      BY <1>3, <1>6, <2>1, <2>2
    <2>5. \A q, s \in Request : g.waits[q] = g.waits[s] /\ g.waits[q] # None => q = s
      BY <1>9, <2>1, <2>3
    <2> QED BY <2>4, <2>5
  <1>12. ASSUME NEW x \in Conn, g.fired[x] = "current"
         PROVE  x \in g.unpaired \/ \E q \in D : g.waits[q] = x
    <2>1. x \in f.unpaired \/ \E q \in D : f.waits[q] = x
      BY <1>3, <1>6, <1>12 DEF HoldOK
    <2>2. ASSUME NEW q \in D, f.waits[q] = x PROVE g.waits[q] = x
      BY <1>0, <1>3, <1>5, <1>6, <2>2 DEF HoldType
    <2> QED BY <1>6, <2>1, <2>2, SMTT(30)
  <1>13. HoldOK(g, D)
    BY <1>7, <1>10, <1>11, <1>12 DEF HoldOK
  <1>14. g.closing = h.closing \cup ({h.waits[r]} \ {None, c})
    BY <1>2, <1>3, <1>6
  <1>15. \A x \in Conn : HeldIn(g, x) <=> HeldIn(f, x) \/ x = c
    <2>1. \A q \in Request : g.waits[q] = IF q = r THEN c ELSE f.waits[q]
      BY <1>5, <1>6 DEF HoldType
    <2>2. f.waits[r] = None
      BY <1>3
    <2> QED BY <1>0, <1>6, <2>1, <2>2 DEF HeldIn
  <1>16. ASSUME NEW x \in Conn, HeldIn(h, x), x # c, x = p PROVE x \in g.closing
    BY <1>0, <1>6, <1>16
  <1>17. \A x \in Conn : HeldIn(h, x) => HeldIn(g, x) \/ x \in g.closing
    BY <1>3, <1>15, <1>16
  <1> QED BY <1>3, <1>8, <1>13, <1>14, <1>15, <1>17

\* A callback is marked, and connections are closed or gone.
LEMMA Marked ==
    ASSUME NEW h, NEW D \in SUBSET Request, HoldOK(h, D), NEW B \in SUBSET Conn,
           NEW F \in [Conn -> {"no", "current", "stale"}],
           \A x \in Conn : F[x] = "current" => h.fired[x] = "current",
           NEW g, g = [unpaired |-> h.unpaired, ahead |-> h.ahead, waits |-> h.waits, fired |-> F, closing |-> B]
    PROVE  /\ HoldOK(g, D)
           /\ g.unpaired = h.unpaired /\ g.waits = h.waits /\ g.closing = B /\ g.fired = F
  <1>1. h \in HoldType
    BY DEF HoldOK
  <1>2. /\ g \in HoldType /\ g.unpaired = h.unpaired /\ g.ahead = h.ahead
        /\ g.waits = h.waits /\ g.closing = B /\ g.fired = F
    BY <1>1 DEF HoldType
  <1>3. HoldOK(g, D)
    BY <1>2 DEF HoldOK
  <1> QED BY <1>2, <1>3

(***************************************************************************)
(* What a step does to the holds                                           *)
(***************************************************************************)

\* The holds are the variables.
LEMMA HoldIs ==
    /\ Hold.unpaired = unpaired /\ Hold.ahead = ahead /\ Hold.waits = waits
    /\ Hold.fired = fired /\ Hold.closing = closing
    /\ \A x : Held(x) <=> HeldIn(Hold, x)
  BY DEF Hold, Held, HeldIn

\* What a critical section made of them is what they are.
LEMMA HoldSet ==
    ASSUME NEW g, HoldOK(g, due'), SetHold(g)
    PROVE  /\ HoldOK(Hold, due)'
           /\ unpaired' = g.unpaired /\ waits' = g.waits /\ closing' = g.closing
           /\ \A x : Held(x)' <=> HeldIn(g, x)
  <1>1. g \in HoldType
    BY DEF HoldOK
  <1>2. g = [unpaired |-> g.unpaired, ahead |-> g.ahead, waits |-> g.waits, fired |-> g.fired,
             closing |-> g.closing]
    BY <1>1 DEF HoldType
  <1>3. Hold' = g
    BY <1>2 DEF Hold, SetHold
  <1> QED BY <1>3 DEF SetHold, Held, HeldIn

\* Whose hold may end without a close: its key is about to be known, or just got in.
Released(x) ==
    \/ key'[x] = None \/ task[x].at \in {"settle", "mark"}
    \/ \E r \in Request : waits[r] = x /\ outcome[r] = "allowed"

\* All that a step may do to the holds.
Effects ==
    /\ \A x \in Conn : Held(x)' => Held(x) \/ (task[x].at = "hold" /\ task'[x] = Idle)
    /\ \A x \in Conn : Held(x) => Held(x)' \/ x \in closing' \/ Released(x)
    /\ \A x \in Conn : x \in closing' => x \in closing \/ (key[x] # None /\ key' = key)
    /\ \A x \in closing : x \in closing' <=> key'[x] # None
    /\ \A q \in Request :
         \/ waits'[q] \in {waits[q], None}
         \/ \E c \in Conn : /\ waits'[q] = c /\ task[c].at = "await" /\ task[c].r = q
                            /\ task'[c] = [task[c] EXCEPT !.at = "reread"]
    /\ \A r \in Request, x \in Conn :
         waits[r] = x /\ r \notin due /\ x \in closing' \ closing
           => x \in revoked' \/ waits'[r] \in Conn \ {x}

\* A place, for a connection that had none.
LEMMA HoldUnpairedEffects ==
    ASSUME TypeInv, NEW c \in Conn, holdUnpaired(c)
    PROVE  HoldOK(Hold, due)' /\ Effects /\ Held(c)'
  <1> SUFFICES ASSUME NEW h, h = Hold, NEW g, g = placeUnpaired(h, c)
               PROVE  HoldOK(Hold, due)' /\ Effects /\ Held(c)'
    OBVIOUS
  <1>0. /\ task[c].at = "hold" /\ task' = [task EXCEPT ![c] = Idle] /\ SetHold(g)
        /\ UNCHANGED <<due, key, revoked>>
    BY DEF holdUnpaired, Goes, storeVars, flagVars
  <1>1. /\ HoldOK(h, due) /\ due \in SUBSET Request /\ ~HeldIn(h, c) /\ task \in [Conn \cup {Sweeper} -> Task]
        /\ closing \subseteq {x \in Conn : key[x] # None} /\ \A x \in Conn : Held(x) => key[x] # None
    BY <1>0, HoldIs DEF TypeInv, TaskInv, StoreOK, ConnOK
  <1>2. /\ HoldOK(g, due) /\ HeldIn(g, c)
        /\ g.waits = h.waits /\ h.closing \subseteq g.closing /\ g.closing \subseteq h.closing \cup h.unpaired
        /\ \A x \in Conn : HeldIn(g, x) => HeldIn(h, x) \/ x = c
        /\ \A x \in Conn : HeldIn(h, x) => HeldIn(g, x) \/ x \in g.closing
    BY <1>1, Places
  <1>3. /\ HoldOK(Hold, due)' /\ unpaired' = g.unpaired /\ waits' = g.waits /\ closing' = g.closing
        /\ \A x : Held(x)' <=> HeldIn(g, x)
    BY <1>0, <1>2, HoldSet
  <1>4. /\ h.unpaired = unpaired /\ h.waits = waits /\ h.closing = closing /\ \A x : Held(x) <=> HeldIn(h, x)
    BY HoldIs
  <1>5. \A r \in Request : waits[r] \notin unpaired
    BY <1>1, <1>4 DEF HoldOK
  <1>6. \A x \in unpaired : x \in Conn /\ key[x] # None
    BY <1>1, <1>4 DEF Held, HoldOK, HoldType
  <1>7. task'[c] = Idle
    BY <1>0, <1>1
  <1> QED BY <1>0, <1>1, <1>2, <1>3, <1>4, <1>5, <1>6, <1>7 DEF Effects

\* Out of the limits, with a key that is known.
LEMMA SettledEffects ==
    ASSUME TypeInv, NEW c \in Conn, Settles(c) \/ markGreeted(c)
    PROVE  HoldOK(Hold, due)' /\ Effects
  <1> SUFFICES ASSUME NEW h, h = Hold, NEW g, g = letGo(h, c)
               PROVE  HoldOK(Hold, due)' /\ Effects
    OBVIOUS
  <1>0. task[c].at \in {"settle", "mark"} /\ SetHold(g) /\ UNCHANGED <<due, key, revoked>>
    BY DEF Settles, markGreeted, storeVars, flagVars
  <1>1. HoldOK(h, due) /\ due \in SUBSET Request /\ closing \subseteq {x \in Conn : key[x] # None}
    BY DEF TypeInv, StoreOK, ConnOK
  <1>2. /\ HoldOK(g, due) /\ g.unpaired = h.unpaired \ {c} /\ g.closing = h.closing
        /\ \A q \in Request : g.waits[q] = IF h.waits[q] \in {c} THEN None ELSE h.waits[q]
        /\ \A x \in Conn : HeldIn(g, x) <=> HeldIn(h, x) /\ x \notin {c}
    BY <1>1, LetsGo DEF letGo
  <1>3. /\ HoldOK(Hold, due)' /\ waits' = g.waits /\ closing' = g.closing /\ \A x : Held(x)' <=> HeldIn(g, x)
    BY <1>0, <1>2, HoldSet
  <1>4. h.waits = waits /\ h.closing = closing /\ \A x : Held(x) <=> HeldIn(h, x)
    BY HoldIs
  <1> QED BY <1>0, <1>1, <1>2, <1>3, <1>4 DEF Effects, Released

\* The holds once c's callback is taken off, B the connections with a close under way.
Unmark(h, c, B) == [h EXCEPT !.fired = [h.fired EXCEPT ![c] = "no"], !.closing = B]

\* A callback's mark is taken off one connection.
LEMMA Unmarked ==
    ASSUME NEW h, NEW D \in SUBSET Request, HoldOK(h, D), NEW c \in Conn, NEW B \in SUBSET Conn,
           NEW g, g = Unmark(h, c, B)
    PROVE  HoldOK(g, D) /\ g.unpaired = h.unpaired /\ g.waits = h.waits /\ g.closing = B
  <1>1. h \in HoldType
    BY DEF HoldOK
  <1>2. PICK F : F = [h.fired EXCEPT ![c] = "no"]
    OBVIOUS
  <1>3. g = [h EXCEPT !.fired = F, !.closing = B]
    BY <1>2 DEF Unmark
  <1>4. /\ F \in [Conn -> {"no", "current", "stale"}]
        /\ \A x \in Conn : F[x] = "current" => h.fired[x] = "current"
    BY <1>1, <1>2 DEF HoldType
  <1>5. g = [unpaired |-> h.unpaired, ahead |-> h.ahead, waits |-> h.waits, fired |-> F, closing |-> B]
    BY <1>1, <1>3 DEF HoldType
  <1> QED BY <1>4, <1>5, Marked

\* The end of a connection.
LEMMA UntrackEffects ==
    ASSUME TypeInv, NEW c \in Conn, untrack(c)
    PROVE  HoldOK(Hold, due)' /\ Effects /\ ~Held(c)'
  <1> SUFFICES ASSUME NEW h, h = Hold, NEW k, k = letGo(h, c),
                      NEW g, g = Unmark(k, c, k.closing \ {c})
               PROVE  HoldOK(Hold, due)' /\ Effects /\ ~Held(c)'
    OBVIOUS
  <1>0. SetHold(g) /\ due' = due /\ key' = [key EXCEPT ![c] = None]
    BY DEF untrack, storeVars, Unmark
  <1>1. /\ HoldOK(h, due) /\ due \in SUBSET Request /\ closing \subseteq {x \in Conn : key[x] # None}
        /\ key \in [Conn -> Key \cup {None}]
    BY DEF TypeInv, StoreOK, ConnOK
  <1>2. /\ HoldOK(k, due) /\ k.unpaired = h.unpaired \ {c} /\ k.closing = h.closing
        /\ \A q \in Request : k.waits[q] = IF h.waits[q] \in {c} THEN None ELSE h.waits[q]
        /\ \A x \in Conn : HeldIn(k, x) <=> HeldIn(h, x) /\ x \notin {c}
    BY <1>1, LetsGo DEF letGo
  <1>3. k.closing \ {c} \in SUBSET Conn
    BY <1>2 DEF HoldOK, HoldType
  <1>4. HoldOK(g, due) /\ g.unpaired = k.unpaired /\ g.waits = k.waits /\ g.closing = k.closing \ {c}
    BY <1>1, <1>2, <1>3, Unmarked
  <1>5. /\ HoldOK(Hold, due)' /\ waits' = g.waits /\ closing' = g.closing /\ \A x : Held(x)' <=> HeldIn(g, x)
    BY <1>0, <1>4, HoldSet
  <1>6. h.waits = waits /\ h.closing = closing /\ \A x : Held(x) <=> HeldIn(h, x)
    BY HoldIs
  <1>7. \A x \in Conn : HeldIn(g, x) <=> HeldIn(k, x)
    BY <1>4 DEF HeldIn
  <1>8. key'[c] = None /\ \A x \in Conn : x # c => key'[x] = key[x]
    BY <1>0, <1>1
  <1>9. ~Held(c)'
    BY <1>2, <1>5, <1>7
  <1>10. Effects
    BY <1>1, <1>2, <1>4, <1>5, <1>6, <1>7, <1>8 DEF Effects, Released
  <1> QED BY <1>5, <1>9, <1>10

\* The holds once c's callback has run, and with other closes under way.
WithoutCallback(h, c) == [h EXCEPT !.fired = [h.fired EXCEPT ![c] = "no"]]
WithClosing(h, B) == [h EXCEPT !.closing = B]

\* Closes are begun.
LEMMA ClosesMore ==
    ASSUME NEW h, NEW D \in SUBSET Request, HoldOK(h, D), NEW B \in SUBSET Conn, NEW g, g = WithClosing(h, B)
    PROVE  HoldOK(g, D) /\ g.unpaired = h.unpaired /\ g.waits = h.waits /\ g.closing = B
  <1>1. h \in HoldType
    BY DEF HoldOK
  <1>2. /\ g = [unpaired |-> h.unpaired, ahead |-> h.ahead, waits |-> h.waits, fired |-> h.fired, closing |-> B]
        /\ h.fired \in [Conn -> {"no", "current", "stale"}]
    BY <1>1 DEF HoldType, WithClosing
  <1> QED BY <1>2, Marked

\* A callback has run.
LEMMA CallbackRan ==
    ASSUME NEW h, NEW D \in SUBSET Request, HoldOK(h, D), NEW c \in Conn,
           NEW g, g = WithoutCallback(h, c)
    PROVE  HoldOK(g, D) /\ g.unpaired = h.unpaired /\ g.waits = h.waits /\ g.closing = h.closing
  <1>1. h \in HoldType
    BY DEF HoldOK
  <1>2. PICK F : F = [h.fired EXCEPT ![c] = "no"]
    OBVIOUS
  <1>3. /\ F \in [Conn -> {"no", "current", "stale"}]
        /\ \A x \in Conn : F[x] = "current" => h.fired[x] = "current"
        /\ h.closing \in SUBSET Conn
    BY <1>1, <1>2 DEF HoldType
  <1>4. g = [unpaired |-> h.unpaired, ahead |-> h.ahead, waits |-> h.waits, fired |-> F, closing |-> h.closing]
    BY <1>1, <1>2 DEF HoldType, WithoutCallback
  <1> QED BY <1>3, <1>4, Marked

\* The holds once C are let go and closed.
ClosedAll(h, C) == WithClosing(letGoAll(h, C), letGoAll(h, C).closing \cup C)

\* Some are let go and closed.
LEMMA Closes ==
    ASSUME NEW h, NEW D \in SUBSET Request, HoldOK(h, D), NEW C \in SUBSET Conn,
           NEW g, g = ClosedAll(h, C)
    PROVE  /\ HoldOK(g, D) /\ g.closing = h.closing \cup C
           /\ \A q \in Request : g.waits[q] \in {h.waits[q], None}
           /\ \A x \in Conn : HeldIn(g, x) <=> HeldIn(h, x) /\ x \notin C
  <1> SUFFICES ASSUME NEW f, f = letGoAll(h, C), NEW B, B = f.closing \cup C, g = WithClosing(f, B)
               PROVE  /\ HoldOK(g, D) /\ g.closing = h.closing \cup C
                      /\ \A q \in Request : g.waits[q] \in {h.waits[q], None}
                      /\ \A x \in Conn : HeldIn(g, x) <=> HeldIn(h, x) /\ x \notin C
    BY DEF ClosedAll
  <1>1. /\ HoldOK(f, D) /\ f.unpaired = h.unpaired \ C /\ f.closing = h.closing
        /\ \A q \in Request : f.waits[q] = IF h.waits[q] \in C THEN None ELSE h.waits[q]
        /\ \A x \in Conn : HeldIn(f, x) <=> HeldIn(h, x) /\ x \notin C
    BY LetsGo
  <1>2. B \in SUBSET Conn
    BY <1>1 DEF HoldOK, HoldType
  <1>3. HoldOK(g, D) /\ g.unpaired = f.unpaired /\ g.waits = f.waits /\ g.closing = B
    BY <1>1, <1>2, ClosesMore
  <1>4. \A x \in Conn : HeldIn(g, x) <=> HeldIn(f, x)
    BY <1>3 DEF HeldIn
  <1>5. \A q \in Request : g.waits[q] \in {h.waits[q], None}
    BY <1>1, <1>3
  <1> QED BY <1>1, <1>3, <1>4, <1>5

\* A deadline closes the connection it was armed for, and no other.
LEMMA OutOfTimeEffects ==
    ASSUME TypeInv, NEW c \in Conn, outOfTime(c)
    PROVE  HoldOK(Hold, due)' /\ Effects
  <1> SUFFICES ASSUME NEW h, h = Hold, NEW k, k = WithoutCallback(h, c)
               PROVE  HoldOK(Hold, due)' /\ Effects
    OBVIOUS
  <1>0. UNCHANGED <<due, key, revoked, task>>
    BY DEF outOfTime, storeVars, flagVars
  <1>1. /\ HoldOK(h, due) /\ due \in SUBSET Request /\ closing \subseteq {x \in Conn : key[x] # None}
        /\ \A x \in Conn : Held(x) => key[x] # None
    BY DEF TypeInv, TaskInv, StoreOK, ConnOK
  <1>2. HoldOK(k, due) /\ k.unpaired = h.unpaired /\ k.waits = h.waits /\ k.closing = h.closing
    BY <1>1, CallbackRan
  <1>3. /\ h.unpaired = unpaired /\ h.waits = waits /\ h.closing = closing /\ h.fired = fired
        /\ \A x : Held(x) <=> HeldIn(h, x)
    BY HoldIs
  <1>6. \A x \in Conn : HeldIn(k, x) <=> HeldIn(h, x)
    BY <1>2 DEF HeldIn
  <1>4. CASE fired[c] = "current"
    <2> SUFFICES ASSUME NEW g, g = ClosedAll(k, {c})
                 PROVE  HoldOK(Hold, due)' /\ Effects
      OBVIOUS
    <2>1. SetHold(g)
      BY <1>4 DEF outOfTime, WithoutCallback, WithClosing, letGo, ClosedAll
    <2>2. /\ HoldOK(g, due) /\ g.closing = k.closing \cup {c}
          /\ \A q \in Request : g.waits[q] \in {k.waits[q], None}
          /\ \A x \in Conn : HeldIn(g, x) <=> HeldIn(k, x) /\ x \notin {c}
      BY <1>1, <1>2, Closes
    <2>3. /\ HoldOK(Hold, due)' /\ waits' = g.waits /\ closing' = g.closing /\ \A x : Held(x)' <=> HeldIn(g, x)
      BY <1>0, <2>1, <2>2, HoldSet
    <2>7. c \in unpaired \/ \E q \in due : waits[q] = c
      BY <1>1, <1>3, <1>4 DEF HoldOK
    <2>8. key[c] # None
      BY <1>1, <2>7 DEF Held
    <2>9. \A r \in Request : waits[r] = c => r \in due
      BY <1>1, <1>3, <2>7, PairFlowAssumption DEF HoldOK
    <2>10. \A x \in Conn : Held(x)' <=> Held(x) /\ x # c
      BY <1>3, <1>6, <2>2, <2>3
    <2>11. closing' = closing \cup {c}
      BY <1>2, <1>3, <2>2, <2>3
    <2>12. \A q \in Request : waits'[q] \in {waits[q], None}
      BY <1>2, <1>3, <2>2, <2>3
    <2>13. Effects
      BY <1>0, <1>1, <2>8, <2>9, <2>10, <2>11, <2>12 DEF Effects
    <2> QED BY <2>3, <2>13
  <1>5. CASE fired[c] # "current"
    <2>1. SetHold(k)
      BY <1>5 DEF outOfTime, WithoutCallback
    <2>2. /\ HoldOK(Hold, due)' /\ waits' = k.waits /\ closing' = k.closing /\ \A x : Held(x)' <=> HeldIn(k, x)
      BY <1>0, <1>2, <2>1, HoldSet
    <2> QED BY <1>0, <1>1, <1>2, <1>3, <1>6, <2>2 DEF Effects
  <1> QED BY <1>4, <1>5

\* A revocation closes every connection of its key.
LEMMA DropEffects ==
    ASSUME TypeInv, NEW c \in Conn, dropDevice(c)
    PROVE  HoldOK(Hold, due)' /\ Effects /\ \A x \in Conn : key[x] = task[c].who => x \in closing'
  <1> SUFFICES ASSUME NEW h, h = Hold, NEW C, C = {x \in Conn : key[x] = task[c].who},
                      NEW g, g = ClosedAll(h, C)
               PROVE  HoldOK(Hold, due)' /\ Effects /\ \A x \in Conn : key[x] = task[c].who => x \in closing'
    OBVIOUS
  <1>0. SetHold(g) /\ revoked' = revoked \cup C /\ UNCHANGED <<due, key>> /\ task[c].at = "drop"
    BY DEF dropDevice, storeVars, WithClosing, ClosedAll
  <1>1. /\ HoldOK(h, due) /\ due \in SUBSET Request /\ closing \subseteq {x \in Conn : key[x] # None}
        /\ task[c].who \in Key
    BY <1>0 DEF TypeInv, StoreOK, ConnOK, TaskInv, TaskOK
  <1>2. C \in SUBSET Conn /\ \A x \in C : key[x] # None
    BY <1>1, PairFlowAssumption
  <1>3. /\ HoldOK(g, due) /\ g.closing = h.closing \cup C
        /\ \A q \in Request : g.waits[q] \in {h.waits[q], None}
        /\ \A x \in Conn : HeldIn(g, x) <=> HeldIn(h, x) /\ x \notin C
    BY <1>1, <1>2, Closes
  <1>6. /\ HoldOK(Hold, due)' /\ waits' = g.waits /\ closing' = g.closing /\ \A x : Held(x)' <=> HeldIn(g, x)
    BY <1>0, <1>3, HoldSet
  <1>8. h.waits = waits /\ h.closing = closing /\ \A x : Held(x) <=> HeldIn(h, x)
    BY HoldIs
  <1>9. \A x \in Conn : Held(x)' <=> Held(x) /\ x \notin C
    BY <1>3, <1>6, <1>8
  <1>10. closing' = closing \cup C
    BY <1>3, <1>6, <1>8
  <1>11. \A q \in Request : waits'[q] \in {waits[q], None}
    BY <1>3, <1>6, <1>8
  <1>12. Effects
    BY <1>0, <1>1, <1>2, <1>9, <1>10, <1>11 DEF Effects
  <1> QED BY <1>6, <1>10, <1>12

\* A deadline comes.
LEMMA TimerEffects ==
    ASSUME TypeInv, NEW c \in Conn, TimerFires(c)
    PROVE  HoldOK(Hold, due)' /\ Effects
  <1>0. /\ UNCHANGED <<due, key, revoked, task, unpaired, ahead, waits, closing>>
        /\ c \in unpaired \/ \E r \in due : waits[r] = c
        /\ fired' = [fired EXCEPT ![c] = "current"]
    BY DEF TimerFires, storeVars, flagVars
  <1>1. HoldOK(Hold, due)
    BY DEF TypeInv
  <1>2. closing \subseteq {x \in Conn : key[x] # None}
    BY DEF TypeInv, ConnOK
  <1>3. Effects
    BY <1>0, <1>2 DEF Effects, Held
  <1>4. fired' \in [Conn -> {"no", "current", "stale"}]
    BY <1>0, <1>1 DEF HoldOK, HoldType, Hold
  <1>5. \A x \in Conn : fired'[x] = "current" => x \in unpaired \/ \E r \in due : waits[r] = x
    BY <1>0, <1>1 DEF HoldOK, HoldType, Hold
  <1>6. HoldOK(Hold, due)'
    BY <1>0, <1>1, <1>4, <1>5 DEF HoldOK, HoldType, Hold
  <1> QED BY <1>3, <1>6

\* Nothing happens to the holds, whatever time is up and whoever comes.
LEMMA RestEffects ==
    ASSUME TypeInv, UNCHANGED holdVars, due \subseteq due', due' \subseteq Request,
           \A x \in Conn : key[x] # None => key'[x] # None
    PROVE  HoldOK(Hold, due)' /\ Effects
  <1>0. UNCHANGED <<unpaired, ahead, waits, fired, closing>>
    BY DEF holdVars
  <1>1. HoldOK(Hold, due) /\ closing \subseteq {x \in Conn : key[x] # None}
    BY DEF TypeInv, ConnOK
  <1>2. Hold' = Hold
    BY <1>0 DEF Hold
  <1>3. \A x \in Conn : Hold.fired[x] = "current" => x \in Hold.unpaired \/ \E r \in due' : Hold.waits[r] = x
    BY <1>1 DEF HoldOK
  <1>4. HoldOK(Hold, due')
    <2> SUFFICES ASSUME NEW h, HoldOK(h, due), NEW D,
                        \A x \in Conn : h.fired[x] = "current" => x \in h.unpaired \/ \E r \in D : h.waits[r] = x
                 PROVE  HoldOK(h, D)
      BY <1>1, <1>3
    <2> QED BY DEF HoldOK
  <1>5. HoldOK(Hold, due)'
    BY <1>2, <1>4
  <1>6. Effects
    BY <1>0, <1>1 DEF Effects, Held
  <1> QED BY <1>5, <1>6

\* A wait ends, with how its request ended or because nobody can tell.
LEMMA EndEffects ==
    ASSUME TypeInv, NEW r \in Request, NEW how, SetHold(endWait(Hold, r, how)),
           how = "allowed" => outcome[r] = "allowed", UNCHANGED <<due, key>>
    PROVE  HoldOK(Hold, due)' /\ Effects /\ waits'[r] = None
  <1> SUFFICES ASSUME NEW h, h = Hold, NEW g, g = endWait(h, r, how)
               PROVE  HoldOK(Hold, due)' /\ Effects /\ waits'[r] = None
    OBVIOUS
  <1>0. SetHold(g)
    OBVIOUS
  <1>1. /\ HoldOK(h, due) /\ due \in SUBSET Request /\ closing \subseteq {x \in Conn : key[x] # None}
        /\ \A x \in Conn : Held(x) => key[x] # None
    BY DEF TypeInv, TaskInv, StoreOK, ConnOK
  <1>2. /\ HoldOK(g, due)
        /\ \A q \in Request : g.waits[q] = IF q = r THEN None ELSE h.waits[q]
        /\ h.closing \subseteq g.closing /\ g.closing \subseteq h.closing \cup h.unpaired
        /\ \A x \in Conn : HeldIn(g, x) => HeldIn(h, x)
        /\ \A x \in Conn : HeldIn(h, x) =>
             HeldIn(g, x) \/ x \in g.closing \/ (how = "allowed" /\ h.waits[r] = x)
    BY <1>1, WaitEnds
  <1>3. /\ HoldOK(Hold, due)' /\ waits' = g.waits /\ closing' = g.closing /\ \A x : Held(x)' <=> HeldIn(g, x)
    BY <1>0, <1>2, HoldSet
  <1>4. /\ h.unpaired = unpaired /\ h.waits = waits /\ h.closing = closing /\ \A x : Held(x) <=> HeldIn(h, x)
    BY HoldIs
  <1>5. \A x \in unpaired : x \in Conn /\ key[x] # None /\ \A q \in Request : waits[q] # x
    <2>1. \A x \in unpaired : x \in Conn /\ \A q \in Request : waits[q] # x
      BY <1>1, <1>4 DEF HoldOK, HoldType
    <2> QED BY <1>1, <2>1 DEF Held
  <1>6. /\ \A x \in Conn : Held(x)' => Held(x)
        /\ \A x \in Conn : Held(x) => Held(x)' \/ x \in closing' \/ (how = "allowed" /\ waits[r] = x)
    BY <1>2, <1>3, <1>4
  <1>7. closing \subseteq closing' /\ closing' \subseteq closing \cup unpaired
    BY <1>2, <1>3, <1>4
  <1>8. \A q \in Request : waits'[q] = IF q = r THEN None ELSE waits[q]
    BY <1>2, <1>3, <1>4
  <1>9. Effects
    BY <1>1, <1>5, <1>6, <1>7, <1>8 DEF Effects, Released
  <1> QED BY <1>3, <1>8, <1>9

\* The read after a wait took hold, and the end of a request, end a wait.
LEMMA WaitEndEffects ==
    ASSUME TypeInv, NEW a \in Conn \cup {Sweeper}, (a \in Conn /\ ReadsAgain(a)) \/ EndsWait(a)
    PROVE  HoldOK(Hold, due)' /\ Effects
  <1>0. UNCHANGED <<due, key>>
    BY DEF ReadsAgain, EndsWait, storeVars
  <1>1. due \subseteq Request /\ task[a] \in Task /\ (task[a].at = "reread" => task[a].r \in Request)
    BY DEF TypeInv, StoreOK, TaskInv, TaskOK
  <1>2. CASE EndsWait(a)
    <2>1. PICK r \in task[a].todo : SetHold(endWait(Hold, r, outcome[r]))
      BY <1>2 DEF EndsWait
    <2>2. r \in Request
      BY <1>1 DEF Task
    <2> QED BY <1>0, <2>1, <2>2, EndEffects
  <1>3. CASE ReadsAgain(a)
    <2>1. task[a].r \in Request
      BY <1>1, <1>3 DEF ReadsAgain
    <2>2. CASE SetHold(IF Closed(task[a].r) THEN endWait(Hold, task[a].r, outcome[task[a].r]) ELSE Hold)
      <3>1. CASE Closed(task[a].r)
        BY <1>0, <2>1, <2>2, <3>1, EndEffects
      <3>2. CASE ~Closed(task[a].r)
        <4>1. UNCHANGED holdVars
          BY <2>2, <3>2, HoldIs DEF SetHold, holdVars
        <4> QED BY <1>0, <1>1, <4>1, RestEffects
      <3> QED BY <3>1, <3>2
    <2>3. CASE SetHold(endWait(Hold, task[a].r, "unread"))
      <3>1. "unread" # "allowed"
        OBVIOUS
      <3> QED BY <1>0, <2>1, <2>3, <3>1, EndEffects
    <2> QED BY <1>3, <2>2, <2>3 DEF ReadsAgain
  <1> QED BY <1>2, <1>3

\* A wait, for a connection that was held to anything.
LEMMA AwaitEffects ==
    ASSUME TypeInv, NEW c \in Conn, awaitAnswer(c)
    PROVE  HoldOK(Hold, due)' /\ Effects
  <1> SUFFICES ASSUME NEW h, h = Hold, NEW r, r = task[c].r, NEW g, g = takeWait(h, r, c)
               PROVE  HoldOK(Hold, due)' /\ Effects
    OBVIOUS
  <1>0. /\ task[c].at = "await" /\ UNCHANGED <<due, key>> /\ SetHold(IF Held(c) THEN g ELSE h)
        /\ task' = [task EXCEPT ![c] = [task[c] EXCEPT !.at = IF Held(c) THEN "reread" ELSE "pending"]]
    BY DEF awaitAnswer, storeVars, Goes
  <1>1. /\ HoldOK(h, due) /\ due \in SUBSET Request /\ closing \subseteq {x \in Conn : key[x] # None}
        /\ r \in Request /\ task \in [Conn \cup {Sweeper} -> Task] /\ \A x \in Conn : Held(x) => key[x] # None
    BY <1>0 DEF TypeInv, TaskInv, TaskOK, StoreOK, ConnOK
  <1>2. CASE ~Held(c)
    <2>1. UNCHANGED holdVars
      BY <1>0, <1>2, HoldIs DEF SetHold, holdVars
    <2> QED BY <1>0, <1>1, <2>1, RestEffects
  <1>3. CASE Held(c)
    <2>0. SetHold(g) /\ task'[c] = [task[c] EXCEPT !.at = "reread"]
      BY <1>0, <1>1, <1>3
    <2>1. /\ HoldOK(g, due)
          /\ \A q \in Request : g.waits[q] = IF q = r THEN c ELSE IF h.waits[q] = c THEN None ELSE h.waits[q]
          /\ g.closing = h.closing \cup ({h.waits[r]} \ {None, c})
          /\ \A x \in Conn : HeldIn(g, x) => HeldIn(h, x) \/ x = c
          /\ \A x \in Conn : HeldIn(h, x) => HeldIn(g, x) \/ x \in g.closing
      BY <1>1, WaitTaken
    <2>2. /\ HoldOK(Hold, due)' /\ waits' = g.waits /\ closing' = g.closing /\ \A x : Held(x)' <=> HeldIn(g, x)
      BY <1>0, <2>0, <2>1, HoldSet
    <2>3. h.waits = waits /\ h.closing = closing /\ \A x : Held(x) <=> HeldIn(h, x)
      BY HoldIs
    <2>4. /\ \A x \in Conn : Held(x)' => Held(x)
          /\ \A x \in Conn : Held(x) => Held(x)' \/ x \in closing'
      BY <1>3, <2>1, <2>2, <2>3
    <2>5. closing' = closing \cup ({waits[r]} \ {None, c})
      BY <2>1, <2>2, <2>3
    <2>6. \A q \in Request : waits'[q] = IF q = r THEN c ELSE IF waits[q] = c THEN None ELSE waits[q]
      BY <2>1, <2>2, <2>3
    <2>7. \A x \in Conn : waits[r] = x => key[x] # None
      BY <1>1 DEF Held
    <2>8. \A q \in Request : waits[q] = waits[r] /\ waits[q] # None => q = r
      BY <1>1, <2>3 DEF HoldOK
    <2>9. ASSUME NEW q \in Request
          PROVE  \/ waits'[q] \in {waits[q], None}
                 \/ \E y \in Conn : /\ waits'[q] = y /\ task[y].at = "await" /\ task[y].r = q
                                    /\ task'[y] = [task[y] EXCEPT !.at = "reread"]
      BY <1>0, <2>0, <2>6
    <2>10. ASSUME NEW q \in Request, NEW x \in Conn, waits[q] = x, x \in closing' \ closing
           PROVE  waits'[q] \in Conn \ {x}
      BY <2>5, <2>6, <2>8, <2>10, PairFlowAssumption
    <2>11. \A x \in Conn : x \in closing' => x \in closing \/ key[x] # None
      BY <2>5, <2>7
    <2>12. \A x \in closing : x \in closing' /\ key[x] # None
      BY <1>1, <2>5
    <2>13. Effects
      BY <1>0, <2>4, <2>9, <2>10, <2>11, <2>12 DEF Effects
    <2> QED BY <2>2, <2>13
  <1> QED BY <1>2, <1>3

\* Whatever happens, the holds stay in order and change in those ways only.
LEMMA StepEffects ==
    ASSUME TypeInv, FlowNext
    PROVE  HoldOK(Hold, due)' /\ Effects
  <1>0. due \subseteq Request
    BY DEF TypeInv, StoreOK
  <1>1. ASSUME UNCHANGED holdVars, UNCHANGED <<key, due>> PROVE HoldOK(Hold, due)' /\ Effects
    BY <1>0, <1>1, RestEffects
  <1>2. ASSUME NEW c \in Conn, Serves(c) PROVE HoldOK(Hold, due)' /\ Effects
    <2>1. CASE holdUnpaired(c)
      BY <2>1, HoldUnpairedEffects
    <2>2. CASE untrack(c)
      BY <2>2, UntrackEffects
    <2>3. CASE Settles(c) \/ markGreeted(c)
      BY <2>3, SettledEffects
    <2>4. CASE awaitAnswer(c)
      BY <2>4, AwaitEffects
    <2>5. CASE ReadsAgain(c)
      BY <2>5, WaitEndEffects
    <2>6. CASE dropDevice(c)
      BY <2>6, DropEffects
    <2>7. CASE AsksWhose(c) \/ Refuses(c) \/ pairByLink(c) \/ OnInvite(c) \/ RepliesUnheld(c)
      <3>1. UNCHANGED holdVars /\ UNCHANGED <<key, due>>
        BY <2>7 DEF AsksWhose, Refuses, pairByLink, OnInvite, pairByInvite, RepliesUnheld, storeVars
      <3> QED BY <1>1, <3>1
    <2>8. CASE announcePairRequested(c) \/ handlePairCancel(c) \/ handleDeviceApprove(c) \/ handleDeviceRevoke(c)
      <3>1. UNCHANGED holdVars /\ UNCHANGED <<key, due>>
        BY <2>8 DEF announcePairRequested, handlePairCancel, handleDeviceApprove, handleDeviceRevoke, storeVars
      <3> QED BY <1>1, <3>1
    <2>9. CASE ResolvesIdentity(c) \/ ListsWaiting(c) \/ Resends(c) \/ Rechecks(c)
      <3>1. UNCHANGED holdVars /\ UNCHANGED <<key, due>>
        BY <2>9 DEF ResolvesIdentity, ListsWaiting, Resends, Rechecks, storeVars
      <3> QED BY <1>1, <3>1
    <2> QED BY <1>2, <2>1, <2>2, <2>3, <2>4, <2>5, <2>6, <2>7, <2>8, <2>9 DEF Serves
  <1>3. ASSUME NEW c \in Conn, TimerFires(c) \/ outOfTime(c) PROVE HoldOK(Hold, due)' /\ Effects
    BY <1>3, TimerEffects, OutOfTimeEffects
  <1>4. ASSUME NEW a \in Conn \cup {Sweeper}, Announces(a) PROVE HoldOK(Hold, due)' /\ Effects
    <2>1. CASE EndsWait(a)
      BY <2>1, WaitEndEffects
    <2>2. CASE TellsBoth(a)
      <3>1. UNCHANGED holdVars /\ UNCHANGED <<key, due>>
        BY <2>2 DEF TellsBoth, storeVars
      <3> QED BY <1>1, <3>1
    <2> QED BY <1>4, <2>1, <2>2 DEF Announces
  <1>5. CASE runRequestSweeper
    <2>1. UNCHANGED holdVars /\ UNCHANGED <<key, due>>
      BY <1>5 DEF runRequestSweeper
    <2> QED BY <1>1, <2>1
  <1>6. ASSUME NEW k \in Key, NEW c \in Conn, Connect(k, c) PROVE HoldOK(Hold, due)' /\ Effects
    <2>1. UNCHANGED <<holdVars, due>> /\ key' = [key EXCEPT ![c] = k]
      BY <1>6 DEF Connect, storeVars
    <2>2. \A x \in Conn : key[x] # None => key'[x] # None
      BY <2>1, PairFlowAssumption DEF TypeInv, ConnOK
    <2> QED BY <1>0, <2>1, <2>2, RestEffects
  <1>7. ASSUME NEW k \in Key, AppActs(k) \/ PersonActs(k) PROVE HoldOK(Hold, due)' /\ Effects
    <2>1. CASE \E c \in Conn : Connect(k, c)
      BY <1>6, <2>1
    <2>2. CASE Presents(k) \/ Greets(k) \/ Lost(k) \/ Withdraws(k)
      <3>1. UNCHANGED holdVars /\ UNCHANGED <<key, due>>
        BY <2>2 DEF Presents, Greets, Lost, Withdraws, Send, storeVars
      <3> QED BY <1>1, <3>1
    <2>3. CASE (\E r \in Request \cup {None} : Begins(k, r)) \/ (\E d \in Key : Revokes(k, d))
      <3>1. UNCHANGED holdVars /\ UNCHANGED <<key, due>>
        BY <2>3 DEF Begins, Revokes, Send, storeVars
      <3> QED BY <1>1, <3>1
    <2> QED BY <1>7, <2>1, <2>2, <2>3 DEF AppActs, PersonActs, Dials
  <1>8. ASSUME NEW r \in Request, TimeUp(r) PROVE HoldOK(Hold, due)' /\ Effects
    <2>1. UNCHANGED holdVars /\ key' = key /\ due' = due \cup {r}
      BY <1>8 DEF TimeUp
    <2> QED BY <1>0, <2>1, RestEffects
  <1>9. ASSUME NEW r \in Request, NEW allow \in BOOLEAN, Answers(r, allow) PROVE HoldOK(Hold, due)' /\ Effects
    <2>1. UNCHANGED holdVars /\ UNCHANGED <<key, due>>
      BY <1>9 DEF Answers, Send, storeVars
    <2> QED BY <1>1, <2>1
  <1> QED BY <1>2, <1>3, <1>4, <1>5, <1>7, <1>8, <1>9 DEF FlowNext

(***************************************************************************)
(* Types                                                                   *)
(***************************************************************************)

\* A step with nothing in hand is a task.
LEMMA AtForms ==
    ASSUME NEW s \in Steps, NEW t, t = At(s)
    PROVE  t \in Task /\ t.at = s /\ t.todo = {} /\ t.r = None /\ t.who = None
  BY DEF At, Task

\* The handler that reads a command.
LEMMA IdleIs ==
    Idle \in Task /\ Idle.at = "read" /\ Idle.todo = {} /\ Idle = At("read")
  <1>1. "read" \in Steps
    BY DEF Steps
  <1> QED BY <1>1, AtForms DEF Idle

\* A task at its next step, about to tell of a request, to hand over requests, or to drop.
Stepped(t, s) == [t EXCEPT !.at = s]
Tell(t, r) == [t EXCEPT !.at = "tell", !.r = r]
Resend(T) == [At("resend") EXCEPT !.todo = T]
Drop(R, w) == [Announce(R, w) EXCEPT !.at = "drop", !.who = w]

\* A task with another step is a task.
LEMMA SteppedForms ==
    ASSUME NEW t \in Task, NEW s \in Steps, NEW u, u = Stepped(t, s)
    PROVE  u \in Task /\ u.at = s /\ u.r = t.r /\ u.todo = t.todo /\ u.who = t.who
  BY DEF Task, Stepped

\* So is one that tells of a request.
LEMMA TellForms ==
    ASSUME NEW t \in Task, NEW r \in Request, NEW u, u = Tell(t, r)
    PROVE  u \in Task /\ u.at = "tell" /\ u.r = r /\ u.todo = t.todo /\ u.who = t.who
  BY DEF Task, Tell, Steps

\* So is one with other requests in hand.
LEMMA TodoForms ==
    ASSUME NEW t \in Task, NEW T \in SUBSET Request, NEW u, u = [t EXCEPT !.todo = T]
    PROVE  u \in Task /\ u.at = t.at /\ u.r = t.r /\ u.todo = T
  BY DEF Task

\* So is one that hands over requests.
LEMMA ResendForms ==
    ASSUME NEW T \in SUBSET Request, NEW u, u = Resend(T)
    PROVE  u \in Task /\ u.at = "resend" /\ u.todo = T
  <1>1. "resend" \in Steps
    BY DEF Steps
  <1>2. At("resend") \in Task /\ At("resend").at = "resend"
    BY <1>1, AtForms
  <1> QED BY <1>2, TodoForms DEF Resend

\* The step before a wait.
Await(r, T) == [On("await", r) EXCEPT !.todo = T]

\* It is a task.
LEMMA AwaitForms ==
    ASSUME NEW r \in Request, NEW T \in SUBSET Request, NEW t, t = Await(r, T)
    PROVE  t \in Task /\ t.at = "await" /\ t.r = r /\ t.todo = T
  <1>1. "await" \in Steps
    BY DEF Steps
  <1>2. On("await", r) \in Task /\ On("await", r).at = "await" /\ On("await", r).r = r
    <2>1. ASSUME NEW i \in Task PROVE LET u == [i EXCEPT !.at = "await", !.r = r]
                                      IN  u \in Task /\ u.at = "await" /\ u.r = r
      BY <1>1 DEF Task
    <2> QED BY <2>1, IdleIs DEF On
  <1> QED BY <1>2, TodoForms DEF Await

\* Announcing ends at once when there is nothing to announce.
LEMMA AnnounceForms ==
    ASSUME NEW R \in SUBSET Request, NEW w \in Key \cup {None}, NEW t, t = Announce(R, w)
    PROVE  t \in Task /\ t.todo = R /\ t.at = IF R = {} THEN "read" ELSE "end"
  <1>1. CASE R = {}
    BY <1>1, IdleIs DEF Announce
  <1>2. CASE R # {}
    <2>1. Idle = [at |-> "read", r |-> None, todo |-> {}, who |-> None]
      BY DEF Idle, At
    <2>2. t = [at |-> "end", r |-> None, todo |-> R, who |-> w]
      BY <1>2, <2>1 DEF Announce
    <2> QED BY <1>2, <2>2 DEF Task, Steps
  <1> QED BY <1>1, <1>2

\* A revocation drops connections before it announces.
LEMMA DropForms ==
    ASSUME NEW R \in SUBSET Request, NEW w \in Key, NEW t, t = Drop(R, w)
    PROVE  t \in Task /\ t.at = "drop" /\ t.todo = R /\ t.who = w
  <1>1. ASSUME NEW s \in Task, NEW u, u = [s EXCEPT !.at = "drop", !.who = w]
        PROVE  u \in Task /\ u.at = "drop" /\ u.todo = s.todo /\ u.who = w
    BY <1>1 DEF Task, Steps
  <1>2. Announce(R, w) \in Task /\ Announce(R, w).todo = R
    <2>1. w \in Key \cup {None}
      OBVIOUS
    <2> QED BY <2>1, AnnounceForms
  <1> QED BY <1>1, <1>2 DEF Drop

\* What an app makes of an answer is a state of an app.
LEMMA HearsOK ==
    ASSUME AppOK, NEW c \in Conn, NEW now \in {"out", "wait", "in"}, Hears(c, now) \/ UNCHANGED appVars
    PROVE  AppOK'
  <1>1. CASE UNCHANGED appVars
    BY <1>1 DEF AppOK, appVars
  <1>2. CASE Hears(c, now) /\ ~UNCHANGED appVars
    <2> SUFFICES ASSUME NEW k, k = key[c] PROVE AppOK'
      OBVIOUS
    <2>1. app' = [app EXCEPT ![k].at = now] /\ link' = [link EXCEPT ![k] = IF now = "wait" THEN c ELSE None]
      BY <1>2 DEF Hears
    <2> QED BY <2>1, ZenonT(30) DEF AppOK
  <1> QED BY <1>1, <1>2

\* The apps keep their types.
LEMMA AppKeeps ==
    ASSUME TypeInv, FlowNext
    PROVE  AppOK'
  <1>0. AppOK
    BY DEF TypeInv
  <1>1. ASSUME UNCHANGED appVars PROVE AppOK'
    BY <1>0, <1>1 DEF AppOK, appVars
  <1>2. ASSUME NEW c \in Conn, Serves(c) PROVE AppOK'
    <2>1. CASE untrack(c)
      BY <1>0, <2>1 DEF untrack, AppOK
    <2>2. CASE dropDevice(c)
      BY <1>0, <2>2 DEF dropDevice, AppOK
    <2>3. CASE Refuses(c)
      BY <1>0, <2>3, HearsOK DEF Refuses
    <2>4. CASE pairByLink(c)
      BY <1>0, <2>4, HearsOK DEF pairByLink
    <2>5. CASE OnInvite(c)
      BY <1>0, <2>5, HearsOK DEF OnInvite, pairByInvite
    <2>6. CASE Settles(c)
      BY <1>0, <2>6, HearsOK DEF Settles
    <2>7. CASE ReadsAgain(c)
      BY <1>0, <2>7, HearsOK DEF ReadsAgain, RepliesPending
    <2>8. CASE RepliesUnheld(c)
      BY <1>0, <2>8, HearsOK DEF RepliesUnheld, RepliesPending
    <2>9. CASE ResolvesIdentity(c)
      BY <1>0, <2>9, HearsOK DEF ResolvesIdentity
    <2>10. CASE AsksWhose(c) \/ holdUnpaired(c) \/ awaitAnswer(c) \/ announcePairRequested(c)
      BY <1>1, <2>10 DEF AsksWhose, holdUnpaired, awaitAnswer, announcePairRequested
    <2>11. CASE handlePairCancel(c) \/ handleDeviceApprove(c) \/ handleDeviceRevoke(c)
      BY <1>1, <2>11 DEF handlePairCancel, handleDeviceApprove, handleDeviceRevoke
    <2>12. CASE markGreeted(c) \/ ListsWaiting(c) \/ Resends(c) \/ Rechecks(c)
      BY <1>1, <2>12 DEF markGreeted, ListsWaiting, Resends, Rechecks
    <2> QED BY <1>2, <2>1, <2>2, <2>3, <2>4, <2>5, <2>6, <2>7, <2>8, <2>9, <2>10, <2>11, <2>12 DEF Serves
  <1>3. ASSUME NEW c \in Conn, TimerFires(c) \/ outOfTime(c) PROVE AppOK'
    BY <1>1, <1>3 DEF TimerFires, outOfTime
  <1>4. ASSUME NEW a \in Conn \cup {Sweeper}, Announces(a) PROVE AppOK'
    <2>1. CASE EndsWait(a)
      BY <1>1, <2>1 DEF EndsWait
    <2>2. CASE TellsBoth(a)
      BY <1>0, <2>2 DEF TellsBoth, Nudged, AppOK
    <2> QED BY <1>4, <2>1, <2>2 DEF Announces
  <1>5. CASE runRequestSweeper
    BY <1>1, <1>5 DEF runRequestSweeper
  <1>7. ASSUME NEW k \in Key, AppActs(k) \/ PersonActs(k) PROVE AppOK'
    <2>1. ASSUME NEW c \in Conn, Connect(k, c) PROVE AppOK'
      BY <1>0, <2>1, ZenonT(30) DEF Connect, AppOK
    <2>2. CASE Presents(k)
      BY <1>0, <2>2 DEF Presents, Send, AppOK
    <2>3. CASE Greets(k)
      BY <1>1, <2>3 DEF Greets, Send, appVars
    <2>4. CASE Lost(k)
      BY <1>0, <2>4 DEF Lost, AppOK
    <2>5. CASE Withdraws(k)
      BY <1>0, <2>5, ZenonT(30) DEF Withdraws, Send, AppOK
    <2>6. ASSUME NEW r \in Request \cup {None}, Begins(k, r) PROVE AppOK'
      BY <1>0, <2>6 DEF Begins, AppOK
    <2>7. ASSUME NEW d \in Key, Revokes(k, d) PROVE AppOK'
      BY <1>1, <2>7 DEF Revokes, Send, appVars
    <2> QED BY <1>7, <2>1, <2>2, <2>3, <2>4, <2>5, <2>6, <2>7 DEF AppActs, PersonActs, Dials
  <1>8. ASSUME NEW r \in Request, TimeUp(r) PROVE AppOK'
    BY <1>1, <1>8 DEF TimeUp
  <1>9. ASSUME NEW r \in Request, NEW allow \in BOOLEAN, Answers(r, allow) PROVE AppOK'
    BY <1>1, <1>9 DEF Answers, Send, appVars
  <1> QED BY <1>2, <1>3, <1>4, <1>5, <1>7, <1>8, <1>9 DEF FlowNext

(***************************************************************************)
(* What a step does to the handlers                                        *)
(***************************************************************************)

\* What must hold when the handler a goes from its step to the step t: what it was about is
\* handed on or done, and what it may take for granted from now on is so.
Fits(a, t) ==
    LET s == task[a]
    IN  /\ t.at \in {"ask", "hold"} => s.at \in {"free", "ask", "hold"}
        /\ s.at \in {"ask", "hold"} => t.at = "hold" \/ key[a] \in paired' \/ Held(a)'
        /\ t.at \in {"settle", "mark"} => key[a] \in paired'
        /\ t.at = "await" => outcome'[t.r] = "waiting" /\ asker'[t.r] = key[a]
        /\ \A r \in s.todo : s.at \in {"drop", "end"} \/ (s.at = "tell" /\ s.r # r)
                               => t.at \in {"end", "tell"} /\ r \in t.todo
        /\ t.at = "tell" => s.at = "end" /\ t.r \in s.todo /\ waits'[t.r] = None
        /\ \A r \in t.todo : t.at \in {"drop", "end", "tell"}
                               => Closed(r)' \/ (s.at \in {"drop", "end", "tell"} /\ r \in s.todo)
        /\ s.at = "reread" /\ Closed(s.r) => waits'[s.r] = None
        /\ s.at = "drop" => \A c \in Conn : key[c] = s.who => c \in closing'
        /\ \A r \in s.todo : s.at \in {"await", "reread", "pending"}
                               => t.at \in {"reread", "pending", "opened"} /\ r \in t.todo
        /\ s.at = "opened" => \A c \in IssuersScreens' : s.todo \subseteq dialog'[c]
        /\ s.at = "list" => \A r \in WaitingFor(key[a]) : (t.at = "resend" /\ r \in t.todo) \/ r \in missed'[a]
        /\ s.at = "resend" => s.todo \subseteq dialog'[a]

\* A step of a alone, of a connection that stays.
Advances(a) ==
    /\ key' = key
    /\ \/ task' = task
       \/ \E t : /\ Goes(a, t) /\ TaskOK(a, t) /\ Fits(a, t)
                 /\ t.at # "free" /\ task[a].at # "free"


\* Whose key it is has been asked.
LEMMA AsksAdvances ==
    ASSUME TypeInv, NEW c \in Conn, AsksWhose(c) \/ holdUnpaired(c)
    PROVE  Advances(c)
  <1>0. key' = key /\ paired' = paired
    BY DEF AsksWhose, holdUnpaired, storeVars
  <1>1. c # Sweeper /\ "hold" \in Steps
    BY PairFlowAssumption DEF Steps
  <1>2. PICK t : /\ Goes(c, t) /\ t \in {Idle, At("hold")} /\ task[c].at \in {"ask", "hold"}
                 /\ t = At("hold") \/ key[c] \in paired \/ Held(c)'
    BY HoldUnpairedEffects DEF AsksWhose, holdUnpaired
  <1>3. t \in Task /\ t.at \in {"read", "hold"} /\ t.todo = {} /\ (t.at = "hold" \/ key[c] \in paired' \/ Held(c)')
    BY <1>0, <1>1, <1>2, IdleIs, AtForms
  <1>4. TaskOK(c, t)
    BY <1>1, <1>3 DEF TaskOK
  <1>5. Fits(c, t)
    BY <1>2, <1>3 DEF Fits
  <1> QED BY <1>0, <1>2, <1>3, <1>4, <1>5 DEF Advances

\* A handler that has nothing in hand goes to a step that has nothing in hand.
LEMMA GoesOn ==
    ASSUME TypeInv, NEW c \in Conn, key' = key, task[c].at \in {"read", "settle", "mark"},
           NEW s \in {"read", "settle", "mark", "list"}, Goes(c, At(s)),
           s \in {"settle", "mark"} => key[c] \in paired'
    PROVE  Advances(c)
  <1> SUFFICES ASSUME NEW t, t = At(s) PROVE Advances(c)
    OBVIOUS
  <1>0. s \in Steps /\ c # Sweeper
    BY PairFlowAssumption DEF Steps
  <1>1. t \in Task /\ t.at = s /\ t.todo = {}
    BY <1>0, AtForms
  <1>2. TaskOK(c, t)
    BY <1>0, <1>1 DEF TaskOK
  <1>3. Fits(c, t)
    BY <1>1 DEF Fits
  <1>4. t.at # "free" /\ task[c].at # "free"
    BY <1>1
  <1> QED BY <1>2, <1>3, <1>4 DEF Advances

\* A machine link is presented, a greeting read, or a command refused; a key that is known
\* is let out of the limits.
LEMMA LinkAdvances ==
    ASSUME TypeInv, NEW c \in Conn,
           pairByLink(c) \/ ResolvesIdentity(c) \/ Refuses(c) \/ Settles(c) \/ markGreeted(c)
    PROVE  Advances(c)
  <1>0. key' = key /\ task[c].at \in {"read", "settle", "mark"}
    BY IdleIs DEF pairByLink, ResolvesIdentity, Refuses, Runs, Reads, Settles, markGreeted
  <1>1. CASE task' = task
    BY <1>0, <1>1 DEF Advances
  <1>2. CASE \E s \in {"settle", "mark"} : Goes(c, At(s)) /\ key[c] \in paired'
    BY <1>0, <1>2, GoesOn
  <1>3. CASE \E s \in {"read", "list"} : Goes(c, At(s))
    BY <1>0, <1>3, GoesOn
  <1>4. CASE pairByLink(c)
    BY <1>1, <1>2, <1>4 DEF pairByLink
  <1>5. CASE ResolvesIdentity(c)
    BY <1>1, <1>2, <1>5 DEF ResolvesIdentity, storeVars
  <1>6. CASE Refuses(c)
    BY <1>1, <1>6 DEF Refuses
  <1>7. CASE Settles(c) \/ markGreeted(c)
    BY <1>3, <1>7, IdleIs DEF Settles, markGreeted
  <1> QED BY <1>4, <1>5, <1>6, <1>7

\* Requests that are over are announced by whoever ended them.
LEMMA Announced ==
    ASSUME TypeInv, NEW a \in Conn \cup {Sweeper}, key' = key, task[a] = Idle,
           NEW R \in SUBSET Request, \A r \in R : Closed(r)', Goes(a, Announce(R, None))
    PROVE  Advances(a)
  <1> SUFFICES ASSUME NEW t, t = Announce(R, None) PROVE Advances(a)
    OBVIOUS
  <1>1. t \in Task /\ t.todo = R /\ t.at \in {"read", "end"}
    BY AnnounceForms
  <1>2. TaskOK(a, t)
    BY <1>1 DEF TaskOK
  <1>3. Fits(a, t)
    BY <1>1, IdleIs DEF Fits
  <1>4. t.at # "free" /\ task[a].at # "free"
    BY <1>1, IdleIs
  <1> QED BY <1>2, <1>3, <1>4 DEF Advances

\* An invite is presented.
LEMMA InviteAdvances ==
    ASSUME TypeInv, NEW c \in Conn, OnInvite(c)
    PROVE  Advances(c)
  <1>1. PICK r \in Request : pairByInvite(c, r)
    BY DEF OnInvite
  <1> DEFINE opens == outcome[r] = "none" /\ r \notin due /\ Owner \in paired
             late == asker[r] = key[c] /\ Waiting(r) /\ r \in due
  <1>0. key' = key /\ paired' = paired /\ task[c] = Idle /\ c # Sweeper /\ c \in Conn \cup {Sweeper}
    BY <1>1, PairFlowAssumption DEF pairByInvite, Runs, Reads
  <1>2. CASE task' = task
    BY <1>0, <1>2 DEF Advances
  <1>3. CASE Goes(c, At("settle")) /\ key[c] \in paired
    BY <1>0, <1>3, IdleIs, GoesOn
  <1>4. CASE late /\ Goes(c, Announce({r}, None))
    <2>1. outcome'[r] = "expired"
      BY <1>1, <1>4 DEF pairByInvite, Waiting, TypeInv, StoreOK
    <2>2. {r} \in SUBSET Request /\ \A q \in {r} : Closed(q)'
      BY <2>1 DEF Closed
    <2> QED BY <1>0, <1>4, <2>2, Announced
  <1>5. CASE /\ opens \/ (asker[r] = key[c] /\ Waiting(r) /\ ~late)
             /\ Goes(c, [On("await", r) EXCEPT !.todo = IF opens THEN {r} ELSE {}])
    <2>0. PICK T : T = IF opens THEN {r} ELSE {}
      OBVIOUS
    <2>7. T \in SUBSET Request /\ Goes(c, [On("await", r) EXCEPT !.todo = T])
      BY <1>5, <2>0
    <2>8. PICK t : t = Await(r, T) /\ Goes(c, t)
      BY <2>7 DEF Await
    <2>1. t \in Task /\ t.at = "await" /\ t.r = r /\ t.todo = T
      BY <2>7, <2>8, AwaitForms
    <2>3. outcome'[r] = "waiting" /\ asker'[r] = key[c]
      BY <1>1, <1>5 DEF pairByInvite, Waiting, TypeInv, StoreOK
    <2>4. TaskOK(c, t)
      BY <1>0, <2>1 DEF TaskOK
    <2>5. Fits(c, t)
      BY <1>0, <2>1, <2>3, IdleIs DEF Fits
    <2>6. t.at # "free" /\ task[c].at # "free"
      BY <1>0, <2>1, IdleIs
    <2> QED BY <1>0, <2>4, <2>5, <2>6, <2>8 DEF Advances
  <1> QED BY <1>1, <1>2, <1>3, <1>4, <1>5 DEF pairByInvite

\* A request is about to wait for its answer.
LEMMA AwaitAdvances ==
    ASSUME TypeInv, NEW c \in Conn, awaitAnswer(c)
    PROVE  Advances(c)
  <1>0. key' = key /\ task[c].at = "await" /\ task[c] \in Task /\ task[c].r \in Request /\ c # Sweeper
    BY PairFlowAssumption DEF awaitAnswer, TypeInv, TaskInv, TaskOK
  <1>6. PICK s \in {"reread", "pending"} : Goes(c, Stepped(task[c], s))
    BY DEF awaitAnswer, Stepped
  <1>1. PICK t : t = Stepped(task[c], s) /\ Goes(c, t)
    BY <1>6
  <1>2. t \in Task /\ t.at \in {"reread", "pending"} /\ t.r = task[c].r /\ t.todo = task[c].todo
    <2>1. s \in Steps
      BY DEF Steps
    <2> QED BY <1>0, <1>1, <2>1, SteppedForms
  <1>3. TaskOK(c, t)
    BY <1>0, <1>2 DEF TaskOK
  <1>4. Fits(c, t)
    BY <1>0, <1>2 DEF Fits
  <1>5. t.at # "free" /\ task[c].at # "free"
    BY <1>0, <1>2
  <1> QED BY <1>0, <1>1, <1>3, <1>4, <1>5 DEF Advances

\* The reply says that the request waits.
LEMMA PendingAdvances ==
    ASSUME TypeInv, NEW c \in Conn, ReadsAgain(c) \/ RepliesUnheld(c)
    PROVE  Advances(c)
  <1>0. /\ key' = key /\ due' = due /\ task[c].at \in {"reread", "pending"} /\ RepliesPending(c) /\ c # Sweeper
        /\ task[c] \in Task /\ task[c].r \in Request
    BY PairFlowAssumption DEF ReadsAgain, RepliesUnheld, TypeInv, TaskInv, TaskOK, storeVars
  <1>1. PICK t : Goes(c, t) /\ t = IF task[c].todo = {} THEN Idle ELSE Stepped(task[c], "opened")
    BY <1>0 DEF RepliesPending, Stepped
  <1>2. /\ t \in Task /\ t.at \in {"read", "opened"} /\ t.todo = task[c].todo
        /\ t.todo # {} => t.at = "opened" /\ t.r = task[c].r
        /\ t.at = "opened" => t.todo # {}
    <2>1. "opened" \in Steps
      BY DEF Steps
    <2>2. CASE task[c].todo = {}
      BY <1>1, <2>2, IdleIs
    <2>3. CASE task[c].todo # {}
      BY <1>0, <1>1, <2>1, <2>3, SteppedForms
    <2> QED BY <2>2, <2>3
  <1>3. TaskOK(c, t)
    BY <1>0, <1>2 DEF TaskOK
  <1>4. task[c].at = "reread" /\ Closed(task[c].r) => waits'[task[c].r] = None
    <2> SUFFICES ASSUME NEW r \in Request, r = task[c].r, task[c].at = "reread", Closed(r)
                 PROVE  waits'[r] = None
      BY <1>0
    <2>1. ReadsAgain(c)
      BY DEF RepliesUnheld
    <2>2. PICK how : SetHold(endWait(Hold, r, how)) /\ (how = "allowed" => outcome[r] = "allowed")
      BY <2>1 DEF ReadsAgain
    <2> QED BY <1>0, <2>2, EndEffects
  <1>5. Fits(c, t)
    BY <1>0, <1>2, <1>4 DEF Fits
  <1>6. t.at # "free" /\ task[c].at # "free"
    BY <1>0, <1>2
  <1> QED BY <1>0, <1>1, <1>3, <1>5, <1>6 DEF Advances

\* The issuer is asked.
LEMMA OpenedAdvances ==
    ASSUME TypeInv, NEW c \in Conn, announcePairRequested(c)
    PROVE  Advances(c)
  <1>0. /\ key' = key /\ greeted' = greeted /\ task[c].at = "opened" /\ Goes(c, Idle) /\ c # Sweeper
        /\ dialog' = [i \in Conn |-> IF i \in IssuersScreens THEN dialog[i] \cup task[c].todo ELSE dialog[i]]
        /\ greeted \subseteq Conn
    BY PairFlowAssumption DEF announcePairRequested, TypeInv, ConnOK
  <1>1. \A i \in IssuersScreens' : task[c].todo \subseteq dialog'[i]
    BY <1>0 DEF IssuersScreens
  <1>2. Fits(c, Idle)
    BY <1>0, <1>1, IdleIs DEF Fits
  <1>3. TaskOK(c, Idle)
    BY <1>0, IdleIs DEF TaskOK
  <1> QED BY <1>0, <1>2, <1>3, IdleIs DEF Advances

\* A request is withdrawn, answered, or out of time.
LEMMA EndingAdvances ==
    ASSUME TypeInv, NEW c \in Conn, handlePairCancel(c) \/ handleDeviceApprove(c)
    PROVE  Advances(c)
  <1> SUFFICES ASSUME NEW r, r = inbox[c].r PROVE Advances(c)
    OBVIOUS
  <1>0. key' = key /\ task[c] = Idle /\ c \in Conn \cup {Sweeper} /\ r \in Request
    BY DEF handlePairCancel, handleDeviceApprove, Runs, Reads, TypeInv, TaskInv, InboxOK
  <1>1. CASE Goes(c, Idle)
    BY <1>0, <1>1, IdleIs, GoesOn
  <1>2. CASE Goes(c, Announce({r}, None)) /\ Closed(r)'
    <2>1. {r} \in SUBSET Request /\ \A q \in {r} : Closed(q)'
      BY <1>0, <1>2
    <2> QED BY <1>0, <1>2, <2>1, Announced
  <1>3. CASE handlePairCancel(c)
    <2>1. CASE Waiting(r) /\ asker[r] = key[c]
      <3>1. Goes(c, Announce({r}, None)) /\ outcome'[r] \in {"expired", "cancelled"}
        BY <1>0, <1>3, <2>1 DEF handlePairCancel, Close
      <3> QED BY <1>2, <3>1 DEF Closed
    <2> QED BY <1>1, <1>3, <2>1 DEF handlePairCancel
  <1>4. CASE handleDeviceApprove(c)
    <2>1. CASE key[c] \in paired /\ Waiting(r) /\ r \notin due
      <3>1. Goes(c, Announce({r}, None)) /\ outcome'[r] \in {"allowed", "denied"}
        BY <1>0, <1>4, <2>1 DEF handleDeviceApprove, Close
      <3> QED BY <1>2, <3>1 DEF Closed
    <2> QED BY <1>1, <1>4, <2>1 DEF handleDeviceApprove
  <1> QED BY <1>3, <1>4

\* The sweep ends what is out of time.
LEMMA SweepAdvances ==
    ASSUME TypeInv, runRequestSweeper
    PROVE  Advances(Sweeper)
  <1> SUFFICES ASSUME NEW R, R = {r \in due : Waiting(r)} PROVE Advances(Sweeper)
    OBVIOUS
  <1>1. R \in SUBSET Request
    BY DEF TypeInv, StoreOK
  <1>2. key' = key /\ task[Sweeper] = Idle /\ Goes(Sweeper, Announce(R, None)) /\ Sweeper \in Conn \cup {Sweeper}
    BY DEF runRequestSweeper
  <1>3. \A r \in R : Closed(r)'
    BY <1>1 DEF runRequestSweeper, Close, Closed
  <1> QED BY <1>1, <1>2, <1>3, Announced

\* A device is revoked.
LEMMA RevokeAdvances ==
    ASSUME TypeInv, NEW c \in Conn, handleDeviceRevoke(c)
    PROVE  Advances(c)
  <1> SUFFICES ASSUME NEW d, d = inbox[c].d, NEW R, R = {r \in Request : Waiting(r) /\ (d = Owner \/ asker[r] = d)},
                      NEW t, t = Drop(R, d)
               PROVE  Advances(c)
    OBVIOUS
  <1>0. key' = key /\ task[c] = Idle /\ c # Sweeper /\ d \in Key
    BY PairFlowAssumption DEF handleDeviceRevoke, Runs, Reads, TypeInv, TaskInv, InboxOK
  <1>1. CASE task' = task
    BY <1>0, <1>1 DEF Advances
  <1>2. CASE task' # task
    <2>1. R \in SUBSET Request
      OBVIOUS
    <2>2. t \in Task /\ t.at = "drop" /\ t.todo = R /\ t.who = d
      BY <1>0, <2>1, DropForms
    <2>3. /\ Goes(c, t)
          /\ outcome' = [r \in Request |-> IF r \notin R THEN outcome[r] ELSE IF r \in due THEN "expired" ELSE "denied"]
      BY <1>2 DEF handleDeviceRevoke, Drop
    <2>4. \A r \in R : Closed(r)'
      BY <2>1, <2>3 DEF Closed
    <2>5. TaskOK(c, t)
      BY <1>0, <2>2 DEF TaskOK
    <2>6. Fits(c, t)
      BY <1>0, <2>2, <2>4, IdleIs DEF Fits
    <2>7. t.at # "free" /\ task[c].at # "free"
      BY <1>0, <2>2, IdleIs
    <2> QED BY <1>0, <2>3, <2>5, <2>6, <2>7 DEF Advances
  <1> QED BY <1>1, <1>2

\* The connections of the revoked key are dropped, then the ends announced.
LEMMA DropAdvances ==
    ASSUME TypeInv, NEW c \in Conn, dropDevice(c)
    PROVE  Advances(c)
  <1>0. /\ key' = key /\ task[c].at = "drop" /\ task[c] \in Task /\ c # Sweeper
        /\ Goes(c, Announce(task[c].todo, task[c].who))
    BY PairFlowAssumption DEF dropDevice, TypeInv, TaskInv
  <1>1. PICK t : t = Announce(task[c].todo, task[c].who) /\ Goes(c, t)
    BY <1>0
  <1>2. t \in Task /\ t.todo = task[c].todo /\ t.at = IF t.todo = {} THEN "read" ELSE "end"
    <2>1. task[c].todo \in SUBSET Request /\ task[c].who \in Key \cup {None}
      BY <1>0 DEF Task
    <2> QED BY <1>1, <2>1, AnnounceForms
  <1>3. TaskOK(c, t)
    BY <1>0, <1>2 DEF TaskOK
  <1>4. \A x \in Conn : key[x] = task[c].who => x \in closing'
    BY DropEffects
  <1>5. Fits(c, t)
    BY <1>0, <1>2, <1>4 DEF Fits
  <1>6. t.at # "free" /\ task[c].at # "free"
    BY <1>0, <1>2
  <1> QED BY <1>0, <1>1, <1>3, <1>5, <1>6 DEF Advances

\* The wait ends, and both sides are told.
LEMMA TellingAdvances ==
    ASSUME TypeInv, NEW a \in Conn \cup {Sweeper}, Announces(a)
    PROVE  Advances(a)
  <1>0. key' = key /\ due' = due /\ task[a] \in Task /\ (task[a].at = "tell" => task[a].r \in Request)
    BY DEF Announces, EndsWait, TellsBoth, TypeInv, TaskInv, TaskOK, storeVars
  <1>1. CASE EndsWait(a)
    <2>1. PICK r \in task[a].todo : SetHold(endWait(Hold, r, outcome[r])) /\ Goes(a, Tell(task[a], r))
      BY <1>1 DEF EndsWait, Tell
    <2>2. r \in Request /\ task[a].at = "end"
      BY <1>0, <1>1 DEF Task, EndsWait
    <2>3. waits'[r] = None
      BY <1>0, <2>1, <2>2, EndEffects
    <2>4. PICK t : t = Tell(task[a], r) /\ Goes(a, t)
      BY <2>1
    <2>5. t \in Task /\ t.at = "tell" /\ t.r = r /\ t.todo = task[a].todo
      BY <1>0, <2>2, <2>4, TellForms
    <2>6. TaskOK(a, t)
      BY <2>2, <2>5 DEF TaskOK
    <2>7. Fits(a, t)
      BY <2>2, <2>3, <2>5 DEF Fits
    <2>8. t.at # "free" /\ task[a].at # "free"
      BY <2>2, <2>5
    <2> QED BY <1>0, <2>4, <2>6, <2>7, <2>8 DEF Advances
  <1>2. CASE TellsBoth(a)
    <2>1. task[a].at = "tell" /\ Goes(a, Announce(task[a].todo \ {task[a].r}, task[a].who))
      BY <1>2 DEF TellsBoth
    <2>2. PICK R : R = task[a].todo \ {task[a].r}
      OBVIOUS
    <2>3. PICK t : t = Announce(R, task[a].who) /\ Goes(a, t)
      BY <2>1, <2>2
    <2>4. t \in Task /\ t.todo = R /\ t.at = IF R = {} THEN "read" ELSE "end"
      <3>1. R \in SUBSET Request /\ task[a].who \in Key \cup {None}
        BY <1>0, <2>2 DEF Task
      <3> QED BY <2>3, <3>1, AnnounceForms
    <2>5. TaskOK(a, t)
      BY <2>4 DEF TaskOK
    <2>6. Fits(a, t)
      BY <2>1, <2>2, <2>4 DEF Fits
    <2>7. t.at # "free" /\ task[a].at # "free"
      BY <2>1, <2>4
    <2> QED BY <1>0, <2>3, <2>5, <2>6, <2>7 DEF Advances
  <1> QED BY <1>1, <1>2 DEF Announces

\* A greeting hands over what waits.
LEMMA ResendAdvances ==
    ASSUME TypeInv, NEW c \in Conn, ListsWaiting(c) \/ Resends(c) \/ Rechecks(c)
    PROVE  Advances(c)
  <1>0. /\ key' = key /\ c # Sweeper /\ task[c] \in Task /\ dialog \in [Conn -> SUBSET Request]
        /\ "recheck" \in Steps
    BY PairFlowAssumption DEF ListsWaiting, Resends, Rechecks, TypeInv, TaskInv, ConnOK, Steps
  <1>4. CASE ListsWaiting(c) /\ missed' = [missed EXCEPT ![c] = missed[c] \cup WaitingFor(key[c])] /\ Goes(c, Idle)
    <2>1. task[c].at = "list" /\ missed \in [Conn -> SUBSET Request]
      BY <1>4 DEF ListsWaiting, TypeInv, ConnOK
    <2>2. WaitingFor(key[c]) \subseteq missed'[c]
      BY <1>4, <2>1
    <2>3. TaskOK(c, Idle)
      BY <1>0, IdleIs DEF TaskOK
    <2>4. Fits(c, Idle)
      BY <2>1, <2>2, IdleIs DEF Fits
    <2> QED BY <1>0, <1>4, <2>1, <2>3, <2>4, IdleIs DEF Advances
  <1>1. CASE ListsWaiting(c) /\ Goes(c, IF WaitingFor(key[c]) = {} THEN Idle ELSE Resend(WaitingFor(key[c])))
    <2>1. PICK R : R = WaitingFor(key[c])
      OBVIOUS
    <2>2. PICK t : t = (IF R = {} THEN Idle ELSE Resend(R)) /\ Goes(c, t)
      BY <1>1, <2>1
    <2>3. t \in Task /\ t.at = (IF R = {} THEN "read" ELSE "resend") /\ t.todo = R
      <3>1. R \in SUBSET Request
        BY <2>1 DEF WaitingFor
      <3>2. CASE R = {}
        BY <2>2, <3>2, IdleIs
      <3>3. CASE R # {}
        BY <2>2, <3>1, <3>3, ResendForms
      <3> QED BY <3>2, <3>3
    <2>4. task[c].at = "list"
      BY <1>1 DEF ListsWaiting
    <2>5. TaskOK(c, t)
      BY <1>0, <2>3 DEF TaskOK
    <2>6. Fits(c, t)
      BY <2>1, <2>3, <2>4 DEF Fits
    <2>7. t.at # "free" /\ task[c].at # "free"
      BY <2>3, <2>4
    <2> QED BY <1>0, <2>2, <2>5, <2>6, <2>7 DEF Advances
  <1>2. CASE Resends(c)
    <2>1. task[c].at = "resend" /\ dialog' = [dialog EXCEPT ![c] = dialog[c] \cup task[c].todo]
      BY <1>2 DEF Resends
    <2>2. PICK t : t = Stepped(task[c], "recheck") /\ Goes(c, t)
      BY <1>2 DEF Resends, Stepped
    <2>3. t \in Task /\ t.at = "recheck"
      BY <1>0, <2>2, SteppedForms
    <2>4. task[c].todo \subseteq dialog'[c]
      BY <1>0, <2>1
    <2>5. TaskOK(c, t)
      BY <1>0, <2>3 DEF TaskOK
    <2>6. Fits(c, t)
      BY <2>1, <2>3, <2>4 DEF Fits
    <2>7. t.at # "free" /\ task[c].at # "free"
      BY <2>1, <2>3
    <2> QED BY <1>0, <2>2, <2>5, <2>6, <2>7 DEF Advances
  <1>3. CASE Rechecks(c)
    <2>1. task[c].at = "recheck" /\ Goes(c, Idle)
      BY <1>3 DEF Rechecks
    <2>2. TaskOK(c, Idle)
      BY <1>0, IdleIs DEF TaskOK
    <2>3. Fits(c, Idle)
      BY <2>1, IdleIs DEF Fits
    <2> QED BY <1>0, <2>1, <2>2, <2>3, IdleIs DEF Advances
  <1>5. CASE ListsWaiting(c)
    BY <1>1, <1>4, <1>5 DEF ListsWaiting, Resend
  <1> QED BY <1>2, <1>3, <1>5

\* All that a step may do to the handlers, and to whose the connections are.
Moves ==
    /\ task' \in [Conn \cup {Sweeper} -> Task] /\ \A b \in Conn \cup {Sweeper} : TaskOK(b, task'[b])
    /\ \A b \in Conn \cup {Sweeper} : task'[b] = task[b] \/ Fits(b, task'[b])
    /\ key' \in [Conn -> Key \cup {None}]
    /\ \A c \in Conn :
         \/ key'[c] = key[c] /\ (task'[c].at = "free" <=> task[c].at = "free")
         \/ key[c] = None /\ key'[c] \in Key /\ task'[c].at = "ask"
         \/ key'[c] = None /\ task'[c].at = "free" /\ ~Held(c)'

\* A step of one handler alone is one of those.
LEMMA OneMoves ==
    ASSUME TypeInv, NEW a \in Conn \cup {Sweeper}, Advances(a)
    PROVE  Moves
  <1>0. /\ task \in [Conn \cup {Sweeper} -> Task] /\ \A b \in Conn \cup {Sweeper} : TaskOK(b, task[b])
        /\ key' = key /\ key \in [Conn -> Key \cup {None}]
    BY DEF TypeInv, TaskInv, ConnOK, Advances
  <1>1. CASE task' = task
    BY <1>0, <1>1 DEF Moves
  <1>2. CASE task' # task
    <2>1. PICK t : Goes(a, t) /\ TaskOK(a, t) /\ Fits(a, t) /\ t.at # "free" /\ task[a].at # "free"
      BY <1>2 DEF Advances
    <2>2. t \in Task
      BY <2>1 DEF TaskOK
    <2>3. task' \in [Conn \cup {Sweeper} -> Task] /\ task'[a] = t /\ \A b \in Conn \cup {Sweeper} : b # a => task'[b] = task[b]
      BY <1>0, <2>1, <2>2 DEF Goes
    <2>4. \A b \in Conn \cup {Sweeper} : TaskOK(b, task'[b])
      BY <1>0, <2>1, <2>3
    <2>5. \A b \in Conn \cup {Sweeper} : task'[b] = task[b] \/ Fits(b, task'[b])
      BY <2>1, <2>3
    <2>6. \A c \in Conn : task'[c].at = "free" <=> task[c].at = "free"
      BY <2>1, <2>3
    <2> QED BY <1>0, <2>3, <2>4, <2>5, <2>6 DEF Moves
  <1> QED BY <1>1, <1>2

\* A connection comes.
LEMMA ConnectMoves ==
    ASSUME TypeInv, NEW k \in Key, NEW c \in Conn, Connect(k, c)
    PROVE  Moves
  <1>0. /\ task \in [Conn \cup {Sweeper} -> Task] /\ \A b \in Conn \cup {Sweeper} : TaskOK(b, task[b])
        /\ key \in [Conn -> Key \cup {None}] /\ key' = [key EXCEPT ![c] = k] /\ key[c] = None
        /\ task[c].at = "free" /\ task' = [task EXCEPT ![c] = At("ask")] /\ c # Sweeper
    BY PairFlowAssumption DEF TypeInv, TaskInv, ConnOK, Connect, Goes
  <1>1. PICK t : t = At("ask")
    OBVIOUS
  <1>2. t \in Task /\ t.at = "ask" /\ t.todo = {}
    <2>1. "ask" \in Steps
      BY DEF Steps
    <2> QED BY <1>1, <2>1, AtForms
  <1>3. task' \in [Conn \cup {Sweeper} -> Task] /\ task'[c] = t /\ \A b \in Conn \cup {Sweeper} : b # c => task'[b] = task[b]
    BY <1>0, <1>1, <1>2
  <1>4. TaskOK(c, t)
    BY <1>0, <1>2 DEF TaskOK
  <1>5. Fits(c, t)
    BY <1>0, <1>2 DEF Fits
  <1>6. \A b \in Conn \cup {Sweeper} : TaskOK(b, task'[b])
    BY <1>0, <1>3, <1>4
  <1>7. \A b \in Conn \cup {Sweeper} : task'[b] = task[b] \/ Fits(b, task'[b])
    BY <1>3, <1>5
  <1>8. key' \in [Conn -> Key \cup {None}] /\ key'[c] = k /\ \A x \in Conn : x # c => key'[x] = key[x]
    BY <1>0
  <1> QED BY <1>0, <1>2, <1>3, <1>6, <1>7, <1>8 DEF Moves

\* A connection ends.
LEMMA UntrackMoves ==
    ASSUME TypeInv, NEW c \in Conn, untrack(c)
    PROVE  Moves
  <1>0. /\ task \in [Conn \cup {Sweeper} -> Task] /\ \A b \in Conn \cup {Sweeper} : TaskOK(b, task[b])
        /\ key \in [Conn -> Key \cup {None}] /\ key' = [key EXCEPT ![c] = None]
        /\ task[c] = Idle /\ task' = [task EXCEPT ![c] = At("free")] /\ c # Sweeper /\ ~Held(c)'
    BY PairFlowAssumption, UntrackEffects DEF TypeInv, TaskInv, ConnOK, untrack, Goes
  <1>1. PICK t : t = At("free")
    OBVIOUS
  <1>2. t \in Task /\ t.at = "free" /\ t.todo = {}
    <2>1. "free" \in Steps
      BY DEF Steps
    <2> QED BY <1>1, <2>1, AtForms
  <1>3. task' \in [Conn \cup {Sweeper} -> Task] /\ task'[c] = t /\ \A b \in Conn \cup {Sweeper} : b # c => task'[b] = task[b]
    BY <1>0, <1>1, <1>2
  <1>4. TaskOK(c, t)
    BY <1>0, <1>2 DEF TaskOK
  <1>5. Fits(c, t)
    BY <1>0, <1>2, IdleIs DEF Fits
  <1>6. \A b \in Conn \cup {Sweeper} : TaskOK(b, task'[b])
    BY <1>0, <1>3, <1>4
  <1>7. \A b \in Conn \cup {Sweeper} : task'[b] = task[b] \/ Fits(b, task'[b])
    BY <1>3, <1>5
  <1>8. key' \in [Conn -> Key \cup {None}] /\ key'[c] = None /\ \A x \in Conn : x # c => key'[x] = key[x]
    BY <1>0
  <1> QED BY <1>0, <1>2, <1>3, <1>6, <1>7, <1>8 DEF Moves

\* Whatever happens, the handlers go on in those ways only.
LEMMA StepMoves ==
    ASSUME TypeInv, FlowNext
    PROVE  Moves
  <1>1. ASSUME UNCHANGED <<key, task>> PROVE Moves
    <2>1. Advances(Sweeper) /\ Sweeper \in Conn \cup {Sweeper}
      BY <1>1 DEF Advances
    <2> QED BY <2>1, OneMoves
  <1>2. ASSUME NEW c \in Conn, Serves(c) PROVE Moves
    <2>0. c \in Conn \cup {Sweeper}
      OBVIOUS
    <2>1. CASE untrack(c)
      BY <2>1, UntrackMoves
    <2>2. CASE AsksWhose(c) \/ holdUnpaired(c)
      BY <2>0, <2>2, AsksAdvances, OneMoves
    <2>3. CASE pairByLink(c) \/ ResolvesIdentity(c) \/ Refuses(c) \/ Settles(c) \/ markGreeted(c)
      BY <2>0, <2>3, LinkAdvances, OneMoves
    <2>4. CASE OnInvite(c)
      BY <2>0, <2>4, InviteAdvances, OneMoves
    <2>5. CASE awaitAnswer(c)
      BY <2>0, <2>5, AwaitAdvances, OneMoves
    <2>6. CASE ReadsAgain(c) \/ RepliesUnheld(c)
      BY <2>0, <2>6, PendingAdvances, OneMoves
    <2>7. CASE announcePairRequested(c)
      BY <2>0, <2>7, OpenedAdvances, OneMoves
    <2>8. CASE handlePairCancel(c) \/ handleDeviceApprove(c)
      BY <2>0, <2>8, EndingAdvances, OneMoves
    <2>9. CASE handleDeviceRevoke(c)
      BY <2>0, <2>9, RevokeAdvances, OneMoves
    <2>10. CASE dropDevice(c)
      BY <2>0, <2>10, DropAdvances, OneMoves
    <2>11. CASE ListsWaiting(c) \/ Resends(c) \/ Rechecks(c)
      BY <2>0, <2>11, ResendAdvances, OneMoves
    <2> QED BY <1>2, <2>1, <2>2, <2>3, <2>4, <2>5, <2>6, <2>7, <2>8, <2>9, <2>10, <2>11 DEF Serves
  <1>3. ASSUME NEW c \in Conn, TimerFires(c) \/ outOfTime(c) PROVE Moves
    BY <1>1, <1>3 DEF TimerFires, outOfTime
  <1>4. ASSUME NEW a \in Conn \cup {Sweeper}, Announces(a) PROVE Moves
    BY <1>4, TellingAdvances, OneMoves
  <1>5. CASE runRequestSweeper
    BY <1>5, SweepAdvances, OneMoves
  <1>7. ASSUME NEW k \in Key, AppActs(k) \/ PersonActs(k) PROVE Moves
    <2>1. CASE \E c \in Conn : Connect(k, c)
      BY <2>1, ConnectMoves
    <2>2. CASE Presents(k) \/ Greets(k) \/ Lost(k) \/ Withdraws(k)
      BY <1>1, <2>2 DEF Presents, Greets, Lost, Withdraws, Send
    <2>3. CASE (\E r \in Request \cup {None} : Begins(k, r)) \/ (\E d \in Key : Revokes(k, d))
      BY <1>1, <2>3 DEF Begins, Revokes, Send
    <2> QED BY <1>7, <2>1, <2>2, <2>3 DEF AppActs, PersonActs, Dials
  <1>8. ASSUME NEW r \in Request, TimeUp(r) PROVE Moves
    BY <1>1, <1>8 DEF TimeUp
  <1>9. ASSUME NEW r \in Request, NEW allow \in BOOLEAN, Answers(r, allow) PROVE Moves
    BY <1>1, <1>9 DEF Answers, Send
  <1> QED BY <1>2, <1>3, <1>4, <1>5, <1>7, <1>8, <1>9 DEF FlowNext

(***************************************************************************)
(* What a step does to the store and to the screens                        *)
(***************************************************************************)

\* All that a step may do to the store: an outcome is for good, a key that goes is about to
\* be dropped, an end is about to be told, and what opens is about to be asked.
StoreMoves ==
    /\ due \subseteq due'
    /\ \A r \in Request : outcome[r] # "none" => outcome'[r] # "none" /\ asker'[r] = asker[r]
    /\ \A r \in Request :
         outcome'[r] = "allowed" => outcome[r] = "allowed" \/ (outcome[r] = "waiting" /\ asker[r] \in paired')
    /\ \A r \in Request : Closed(r) => outcome'[r] = outcome[r]
    /\ \A k \in paired \ paired' : DropOnItsWay(k)'
    /\ \A r \in Request : Closed(r)' => Closed(r) \/ \E a \in Conn \cup {Sweeper} : Telling(a, r)'
    /\ \A r \in Request :
         Waiting(r)' => Waiting(r) \/ \E a \in Conn : task'[a].at = "await" /\ r \in task'[a].todo

\* Nothing happens to the store but the time.
LEMMA StoreRests ==
    ASSUME TypeInv, UNCHANGED <<paired, asker, outcome>>, due \subseteq due', due' \subseteq Request,
           spent' \subseteq Key
    PROVE  StoreOK' /\ StoreMoves
  <1>1. StoreOK
    BY DEF TypeInv
  <1>2. StoreOK'
    BY <1>1 DEF StoreOK
  <1>3. StoreMoves
    BY DEF StoreMoves, Closed, Waiting
  <1> QED BY <1>2, <1>3

\* A machine link pairs its key.
LEMMA LinkStore ==
    ASSUME TypeInv, NEW c \in Conn, pairByLink(c)
    PROVE  StoreOK' /\ StoreMoves
  <1>0. /\ StoreOK /\ UNCHANGED <<asker, outcome, due>>
        /\ (paired' = paired \cup {key[c]} /\ spent' = spent \cup {key[c]}) \/ UNCHANGED <<paired, spent>>
    BY DEF TypeInv, pairByLink
  <1>1. key[c] \in Key
    BY IdleIs DEF TypeInv, TaskInv, ConnOK, pairByLink, Runs, Reads
  <1>2. StoreOK'
    BY <1>0, <1>1 DEF StoreOK
  <1>3. StoreMoves
    BY <1>0 DEF StoreMoves, Closed, Waiting
  <1> QED BY <1>2, <1>3

\* The next task of a handler that was sent to t.
LEMMA Sent ==
    ASSUME TypeInv, NEW a \in Conn \cup {Sweeper}, NEW t, Goes(a, t)
    PROVE  task'[a] = t
  BY DEF TypeInv, TaskInv, Goes

\* An invite opens its request, or ends it late.
LEMMA InviteStore ==
    ASSUME TypeInv, NEW c \in Conn, OnInvite(c)
    PROVE  StoreOK' /\ StoreMoves
  <1>1. PICK r \in Request : pairByInvite(c, r)
    BY DEF OnInvite
  <1> DEFINE opens == outcome[r] = "none" /\ r \notin due /\ Owner \in paired
             late == asker[r] = key[c] /\ Waiting(r) /\ r \in due
  <1>0. /\ StoreOK /\ UNCHANGED <<paired, due, spent>>
        /\ asker' = IF opens THEN [asker EXCEPT ![r] = key[c]] ELSE asker
        /\ outcome' = [outcome EXCEPT ![r] = IF opens THEN "waiting" ELSE IF late THEN "expired" ELSE @]
    BY <1>1 DEF TypeInv, pairByInvite
  <1>2. key[c] \in Key /\ c \in Conn \cup {Sweeper}
    BY <1>1, IdleIs DEF TypeInv, TaskInv, ConnOK, pairByInvite, Runs, Reads
  <1>3. outcome \in [Request -> Outcomes] /\ asker \in [Request -> Key \cup {None}]
    BY <1>0 DEF StoreOK
  <1>4. StoreOK'
    <2>1. outcome' \in [Request -> Outcomes] /\ asker' \in [Request -> Key \cup {None}]
      BY <1>0, <1>2, <1>3 DEF Outcomes
    <2>2. \A q \in Request : outcome'[q] # "none" => asker'[q] \in Key
      BY <1>0, <1>2, <1>3 DEF StoreOK, Waiting
    <2> QED BY <1>0, <2>1, <2>2 DEF StoreOK
  <1>5. CASE opens
    <2>1. asker'[r] = key[c] /\ outcome'[r] = "waiting" /\ \A q \in Request \ {r} : outcome'[q] = outcome[q] /\ asker'[q] = asker[q]
      BY <1>0, <1>3, <1>5
    <2>2. task'[c].at = "await" /\ task'[c].todo = {r}
      <3>1. PICK t : t = Await(r, {r}) /\ Goes(c, t)
        BY <1>1, <1>5 DEF pairByInvite, Await, Waiting
      <3>2. {r} \in SUBSET Request
        OBVIOUS
      <3>3. t.at = "await" /\ t.todo = {r}
        BY <3>1, <3>2, AwaitForms
      <3> QED BY <1>2, <3>1, <3>3, Sent
    <2> QED BY <1>0, <1>4, <1>5, <2>1, <2>2 DEF StoreMoves, Closed, Waiting
  <1>6. CASE ~opens /\ late
    <2>1. asker' = asker /\ outcome[r] = "waiting" /\ outcome'[r] = "expired" /\ \A q \in Request \ {r} : outcome'[q] = outcome[q]
      BY <1>0, <1>3, <1>6 DEF Waiting
    <2>2. Telling(c, r)'
      <3>1. PICK t : t = Announce({r}, None) /\ Goes(c, t)
        BY <1>1, <1>6 DEF pairByInvite, Waiting
      <3>2. {r} \in SUBSET Request /\ {r} # {}
        OBVIOUS
      <3>3. t.at = "end" /\ t.todo = {r}
        BY <3>1, <3>2, AnnounceForms
      <3>4. task'[c] = t
        BY <1>2, <3>1, Sent
      <3> QED BY <3>3, <3>4 DEF Telling
    <2> QED BY <1>0, <1>2, <1>4, <2>1, <2>2 DEF StoreMoves, Closed, Waiting
  <1>7. CASE ~opens /\ ~late
    <2>1. UNCHANGED <<asker, outcome>>
      BY <1>0, <1>3, <1>7
    <2> QED BY <1>0, <1>4, <2>1 DEF StoreMoves, Closed, Waiting
  <1> QED BY <1>5, <1>6, <1>7

\* Requests end, and whoever ended them is about to tell.
LEMMA EndStore ==
    ASSUME TypeInv, NEW R \in SUBSET Request, \A r \in R : Waiting(r), UNCHANGED <<asker, due, spent>>,
           outcome' \in [Request -> Outcomes],
           \A r \in Request \ R : outcome'[r] = outcome[r],
           \A r \in R : outcome'[r] \notin {"none", "waiting"} /\ (outcome'[r] = "allowed" => asker[r] \in paired'),
           NEW a \in Conn \cup {Sweeper}, \A r \in R : Telling(a, r)',
           paired' \subseteq Key, \A k \in paired \ paired' : DropOnItsWay(k)'
    PROVE  StoreOK' /\ StoreMoves
  <1>0. StoreOK
    BY DEF TypeInv
  <1>1. StoreOK'
    BY <1>0 DEF StoreOK, Waiting
  <1>2. StoreMoves
    BY DEF StoreMoves, Closed, Waiting
  <1> QED BY <1>1, <1>2

\* Who announces R is about to tell of each.
LEMMA AnnouncedTold ==
    ASSUME TypeInv, NEW a \in Conn \cup {Sweeper}, NEW R \in SUBSET Request, R # {} => Goes(a, Announce(R, None))
    PROVE  \A r \in R : Telling(a, r)'
  <1>1. CASE R # {}
    <2>1. PICK t : t = Announce(R, None) /\ Goes(a, t)
      BY <1>1
    <2>2. t.at = "end" /\ t.todo = R
      BY <1>1, <2>1, AnnounceForms
    <2>3. task'[a] = t
      BY <2>1, Sent
    <2> QED BY <2>2, <2>3 DEF Telling
  <1> QED BY <1>1

\* A request is withdrawn or answered; a key that is let in is paired at once.
LEMMA AnswerStore ==
    ASSUME TypeInv, NEW c \in Conn, handlePairCancel(c) \/ handleDeviceApprove(c)
    PROVE  StoreOK' /\ StoreMoves
  <1> SUFFICES ASSUME NEW r, r = inbox[c].r PROVE StoreOK' /\ StoreMoves
    OBVIOUS
  <1>0. /\ r \in Request /\ c \in Conn \cup {Sweeper} /\ UNCHANGED <<asker, due, spent>>
        /\ outcome \in [Request -> Outcomes] /\ paired \subseteq Key
        /\ outcome[r] # "none" => asker[r] \in Key
    BY DEF handlePairCancel, handleDeviceApprove, Runs, Reads, TypeInv, TaskInv, InboxOK, StoreOK
  <1>1. PICK R \in SUBSET {r}, how \in {"expired", "cancelled", "allowed", "denied"} :
          /\ \A q \in R : Waiting(q)
          /\ outcome' = [q \in Request |-> IF q \in R THEN how ELSE outcome[q]]
          /\ R # {} => Goes(c, Announce({r}, None))
          /\ paired' = paired \/ (paired' = paired \cup {asker[r]} /\ R = {r})
          /\ how = "allowed" /\ R # {} => paired' = paired \cup {asker[r]}
    <2>1. CASE handlePairCancel(c)
      <3>1. PICK R : R = {q \in {r} : Waiting(r) /\ asker[r] = key[c]}
        OBVIOUS
      <3>2. PICK how : how = IF r \in due THEN "expired" ELSE "cancelled"
        OBVIOUS
      <3>3. /\ outcome' = [q \in Request |-> IF q \in R THEN how ELSE outcome[q]] /\ paired' = paired
            /\ R # {} => Goes(c, Announce({r}, None))
        BY <2>1, <3>1, <3>2 DEF handlePairCancel, Close
      <3>4. R \in SUBSET {r} /\ \A q \in R : Waiting(q)
        BY <3>1
      <3> QED BY <3>2, <3>3, <3>4
    <2>2. CASE handleDeviceApprove(c)
      <3> DEFINE ok == key[c] \in paired /\ Waiting(r) /\ r \notin due
                 yes == ok /\ inbox[c].allow
      <3>1. PICK R : R = {q \in {r} : ok}
        OBVIOUS
      <3>2. PICK how : how = IF yes THEN "allowed" ELSE "denied"
        OBVIOUS
      <3>3. /\ outcome' = [q \in Request |-> IF q \in R THEN how ELSE outcome[q]]
            /\ paired' = paired \cup {asker[q] : q \in {q \in {r} : yes}}
            /\ R # {} => Goes(c, Announce({r}, None))
        BY <2>2, <3>1, <3>2 DEF handleDeviceApprove, Close
      <3>4. R \in SUBSET {r} /\ (\A q \in R : Waiting(q)) /\ (R # {} => R = {r}) /\ (yes => R = {r})
        BY <3>1
      <3>5. CASE yes
        <4>1. paired' = paired \cup {asker[r]}
          BY <3>3, <3>5
        <4> QED BY <3>2, <3>3, <3>4, <3>5, <4>1
      <3>6. CASE ~yes
        <4>1. paired' = paired
          BY <3>3, <3>6
        <4> QED BY <3>2, <3>3, <3>4, <3>6, <4>1
      <3> QED BY <3>5, <3>6
    <2> QED BY <2>1, <2>2
  <1>2. R \in SUBSET Request /\ (R # {} => R = {r}) /\ outcome' \in [Request -> Outcomes]
    BY <1>0, <1>1 DEF Outcomes
  <1>3. \A q \in R : Telling(c, q)'
    BY <1>0, <1>1, <1>2, AnnouncedTold
  <1>4. paired' \subseteq Key /\ paired \subseteq paired'
    BY <1>0, <1>1 DEF Waiting
  <1>5. /\ \A q \in Request \ R : outcome'[q] = outcome[q]
        /\ \A q \in R : outcome'[q] \notin {"none", "waiting"} /\ (outcome'[q] = "allowed" => asker[q] \in paired')
    BY <1>0, <1>1, <1>2
  <1> QED BY <1>0, <1>1, <1>2, <1>3, <1>4, <1>5, EndStore

\* The sweep.
LEMMA SweepStore ==
    ASSUME TypeInv, runRequestSweeper
    PROVE  StoreOK' /\ StoreMoves
  <1>1. PICK R : R = {r \in due : Waiting(r)}
    OBVIOUS
  <1>2. /\ R \in SUBSET Request /\ (\A r \in R : Waiting(r)) /\ Sweeper \in Conn \cup {Sweeper}
        /\ outcome \in [Request -> Outcomes] /\ paired \subseteq Key
    BY <1>1 DEF TypeInv, StoreOK
  <1>3. /\ UNCHANGED <<paired, asker, due, spent>> /\ Goes(Sweeper, Announce(R, None))
        /\ outcome' = [r \in Request |-> IF r \in R THEN "expired" ELSE outcome[r]]
    BY <1>1 DEF runRequestSweeper, Close
  <1>4. \A r \in R : Telling(Sweeper, r)'
    BY <1>2, <1>3, AnnouncedTold
  <1>5. /\ outcome' \in [Request -> Outcomes] /\ \A q \in Request \ R : outcome'[q] = outcome[q]
        /\ \A q \in R : outcome'[q] = "expired"
    BY <1>2, <1>3 DEF Outcomes
  <1> QED BY <1>2, <1>3, <1>4, <1>5, EndStore

\* A revocation ends what its device asked for, and what it was asked.
LEMMA RevokeStore ==
    ASSUME TypeInv, NEW c \in Conn, handleDeviceRevoke(c)
    PROVE  StoreOK' /\ StoreMoves
  <1> SUFFICES ASSUME NEW d, d = inbox[c].d PROVE StoreOK' /\ StoreMoves
    OBVIOUS
  <1>0. /\ d \in Key /\ c \in Conn \cup {Sweeper} /\ UNCHANGED <<asker, due, spent>>
        /\ outcome \in [Request -> Outcomes] /\ paired \subseteq Key /\ due \subseteq Request /\ spent \subseteq Key
    BY DEF handleDeviceRevoke, Runs, Reads, TypeInv, TaskInv, InboxOK, StoreOK
  <1>1. CASE UNCHANGED <<paired, outcome>>
    BY <1>0, <1>1, StoreRests
  <1>2. CASE ~UNCHANGED <<paired, outcome>>
    <2>1. PICK R : R = {r \in Request : Waiting(r) /\ (d = Owner \/ asker[r] = d)}
      OBVIOUS
    <2>2. R \in SUBSET Request /\ \A r \in R : Waiting(r)
      BY <2>1
    <2>3. /\ paired' = paired \ {d} /\ Goes(c, Drop(R, d))
          /\ outcome' = [r \in Request |-> IF r \notin R THEN outcome[r] ELSE IF r \in due THEN "expired" ELSE "denied"]
      BY <1>2, <2>1 DEF handleDeviceRevoke, Drop
    <2>4. PICK t : t = Drop(R, d) /\ Goes(c, t)
      BY <2>3
    <2>5. t.at = "drop" /\ t.todo = R /\ t.who = d
      BY <1>0, <2>2, <2>4, DropForms
    <2>6. task'[c] = t
      BY <1>0, <2>4, Sent
    <2>7. (\A r \in R : Telling(c, r)') /\ \A k \in paired \ paired' : DropOnItsWay(k)'
      BY <2>3, <2>5, <2>6 DEF Telling, DropOnItsWay
    <2>8. /\ outcome' \in [Request -> Outcomes] /\ \A q \in Request \ R : outcome'[q] = outcome[q]
          /\ \A q \in R : outcome'[q] \in {"expired", "denied"}
      BY <1>0, <2>2, <2>3 DEF Outcomes
    <2>9. paired' \subseteq Key
      BY <1>0, <2>3
    <2> QED BY <1>0, <2>2, <2>7, <2>8, <2>9, EndStore
  <1> QED BY <1>1, <1>2

\* Whatever happens, the store changes in those ways only.
LEMMA StepStore ==
    ASSUME TypeInv, FlowNext
    PROVE  StoreOK' /\ StoreMoves
  <1>0. due \subseteq Request /\ spent \subseteq Key
    BY DEF TypeInv, StoreOK
  <1>1. ASSUME UNCHANGED storeVars PROVE StoreOK' /\ StoreMoves
    BY <1>0, <1>1, StoreRests DEF storeVars
  <1>2. ASSUME NEW c \in Conn, Serves(c) PROVE StoreOK' /\ StoreMoves
    <2>1. CASE pairByLink(c)
      BY <2>1, LinkStore
    <2>2. CASE OnInvite(c)
      BY <2>2, InviteStore
    <2>3. CASE handlePairCancel(c) \/ handleDeviceApprove(c)
      BY <2>3, AnswerStore
    <2>4. CASE handleDeviceRevoke(c)
      BY <2>4, RevokeStore
    <2>5. CASE AsksWhose(c) \/ holdUnpaired(c) \/ untrack(c) \/ Refuses(c) \/ Settles(c) \/ awaitAnswer(c)
      BY <1>1, <2>5 DEF AsksWhose, holdUnpaired, untrack, Refuses, Settles, awaitAnswer
    <2>6. CASE ReadsAgain(c) \/ RepliesUnheld(c) \/ announcePairRequested(c) \/ dropDevice(c)
      BY <1>1, <2>6 DEF ReadsAgain, RepliesUnheld, announcePairRequested, dropDevice
    <2>7. CASE ResolvesIdentity(c) \/ markGreeted(c) \/ ListsWaiting(c) \/ Resends(c) \/ Rechecks(c)
      BY <1>1, <2>7 DEF ResolvesIdentity, markGreeted, ListsWaiting, Resends, Rechecks
    <2> QED BY <1>2, <2>1, <2>2, <2>3, <2>4, <2>5, <2>6, <2>7 DEF Serves
  <1>3. ASSUME NEW c \in Conn, TimerFires(c) \/ outOfTime(c) PROVE StoreOK' /\ StoreMoves
    BY <1>1, <1>3 DEF TimerFires, outOfTime
  <1>4. ASSUME NEW a \in Conn \cup {Sweeper}, Announces(a) PROVE StoreOK' /\ StoreMoves
    BY <1>1, <1>4 DEF Announces, EndsWait, TellsBoth
  <1>5. CASE runRequestSweeper
    BY <1>5, SweepStore
  <1>7. ASSUME NEW k \in Key, AppActs(k) \/ PersonActs(k) PROVE StoreOK' /\ StoreMoves
    <2>1. CASE \E c \in Conn : Connect(k, c)
      BY <1>1, <2>1 DEF Connect
    <2>2. CASE Presents(k) \/ Greets(k) \/ Lost(k) \/ Withdraws(k) \/ \E d \in Key : Revokes(k, d)
      BY <1>1, <2>2 DEF Presents, Greets, Lost, Withdraws, Revokes, Send
    <2>3. ASSUME NEW r \in Request \cup {None}, Begins(k, r) PROVE StoreOK' /\ StoreMoves
      BY <1>0, <2>3, StoreRests DEF Begins
    <2> QED BY <1>7, <2>1, <2>2, <2>3 DEF AppActs, PersonActs, Dials
  <1>8. ASSUME NEW r \in Request, TimeUp(r) PROVE StoreOK' /\ StoreMoves
    BY <1>0, <1>8, StoreRests DEF TimeUp
  <1>9. ASSUME NEW r \in Request, NEW allow \in BOOLEAN, Answers(r, allow) PROVE StoreOK' /\ StoreMoves
    BY <1>1, <1>9 DEF Answers, Send
  <1> QED BY <1>2, <1>3, <1>4, <1>5, <1>7, <1>8, <1>9 DEF FlowNext

\* All that a step may do to the screens: a connection that greets lists what waits next, and
\* a question is taken back when it is over, or by whoever tells that it is.
ScreenMoves ==
    /\ greeted' \cup revoked' \subseteq {c \in Conn : key'[c] # None}
    /\ dialog' \in [Conn -> SUBSET Request] /\ missed' \in [Conn -> SUBSET Request]
    /\ \A c \in greeted : key'[c] = key[c] => missed[c] \subseteq missed'[c]
    /\ \A c \in greeted' : (c \in greeted /\ key'[c] = key[c]) \/ task'[c].at = "list"
    /\ \A c \in greeted : \A r \in dialog[c] :
         key[c] = Owner /\ c \in greeted' =>
           \/ r \in dialog'[c] \/ ~Waiting(r)' \/ r \in due'
           \/ \E a \in Conn \cup {Sweeper} : task[a].at = "tell" /\ task[a].r = r

\* Nothing happens to the screens, whoever comes.
LEMMA ScreenRests ==
    ASSUME TypeInv, UNCHANGED <<revoked, greeted, dialog, missed>>,
           \A c \in Conn : key[c] # None => key'[c] = key[c]
    PROVE  ScreenMoves
  BY DEF ScreenMoves, TypeInv, ConnOK

\* A connection ends: nothing of it is left.
LEMMA UntrackScreens ==
    ASSUME TypeInv, NEW c \in Conn, untrack(c)
    PROVE  ScreenMoves
  <1>1. /\ key' = [key EXCEPT ![c] = None] /\ revoked' = revoked \ {c} /\ greeted' = greeted \ {c}
        /\ dialog' = [dialog EXCEPT ![c] = {}] /\ missed' = [missed EXCEPT ![c] = {}]
    BY DEF untrack
  <1> QED BY <1>1, PairFlowAssumption DEF ScreenMoves, TypeInv, ConnOK

\* A connection greets.
LEMMA GreetScreens ==
    ASSUME TypeInv, NEW c \in Conn, markGreeted(c)
    PROVE  ScreenMoves
  <1>1. key' = key /\ UNCHANGED <<revoked, dialog, missed>> /\ greeted' = greeted \cup {c} /\ Goes(c, At("list")) /\ task[c].at = "mark"
    BY DEF markGreeted
  <1>2. key[c] # None
    BY <1>1 DEF TypeInv, TaskInv
  <1>3. task'[c].at = "list"
    <2>1. PICK t : t = At("list") /\ Goes(c, t)
      BY <1>1
    <2>2. t.at = "list" /\ c \in Conn \cup {Sweeper}
      BY <2>1 DEF At
    <2> QED BY <2>1, <2>2, Sent
  <1> QED BY <1>1, <1>2, <1>3 DEF ScreenMoves, TypeInv, ConnOK

\* The connections of a revoked key.
LEMMA DropScreens ==
    ASSUME TypeInv, NEW c \in Conn, dropDevice(c)
    PROVE  ScreenMoves
  <1>1. PICK C : C = {x \in Conn : key[x] = task[c].who}
    OBVIOUS
  <1>2. UNCHANGED <<key, greeted, dialog, missed>> /\ revoked' = revoked \cup C /\ task[c].at = "drop"
    BY <1>1 DEF dropDevice
  <1>3. C \subseteq {x \in Conn : key[x] # None}
    BY <1>1, <1>2, PairFlowAssumption DEF TypeInv, TaskInv, TaskOK
  <1> QED BY <1>2, <1>3 DEF ScreenMoves, TypeInv, ConnOK

\* Questions are put on screens.
LEMMA AskedScreens ==
    ASSUME TypeInv, NEW c \in Conn, announcePairRequested(c) \/ Resends(c)
    PROVE  ScreenMoves
  <1>0. task[c] \in Task /\ task[c].todo \subseteq Request /\ dialog \in [Conn -> SUBSET Request] /\ UNCHANGED <<key, greeted, revoked, missed>>
    BY DEF TypeInv, TaskInv, ConnOK, Task, announcePairRequested, Resends
  <1>1. dialog' \in [Conn -> SUBSET Request] /\ \A i \in Conn : dialog[i] \subseteq dialog'[i]
    <2>1. CASE announcePairRequested(c)
      BY <1>0, <2>1 DEF announcePairRequested
    <2>2. CASE Resends(c)
      BY <1>0, <2>2 DEF Resends
    <2> QED BY <2>1, <2>2
  <1> QED BY <1>0, <1>1 DEF ScreenMoves, TypeInv, ConnOK

\* The owner's own answer, and a listing that came late, take a question back.
LEMMA AnsweredScreens ==
    ASSUME TypeInv, NEW c \in Conn, handleDeviceApprove(c) \/ Rechecks(c)
    PROVE  ScreenMoves
  <1>0. dialog \in [Conn -> SUBSET Request] /\ UNCHANGED <<key, greeted, revoked, due, missed>>
    BY DEF TypeInv, ConnOK, handleDeviceApprove, Rechecks, storeVars
  <1>3. CASE Rechecks(c) /\ dialog' = dialog
    BY <1>0, <1>3, ScreenRests
  <1>1. CASE Rechecks(c) /\ dialog' # dialog
    <2>1. dialog' = [dialog EXCEPT ![c] = dialog[c] \ (task[c].todo \ WaitingFor(key[c]))] /\ outcome' = outcome
      BY <1>1 DEF Rechecks, storeVars
    <2>2. dialog' \in [Conn -> SUBSET Request] /\ \A i \in Conn : i # c => dialog'[i] = dialog[i]
      BY <1>0, <2>1
    <2>3. \A r \in dialog[c] : key[c] = Owner => r \in dialog'[c] \/ ~Waiting(r)' \/ r \in due'
      BY <1>0, <2>1 DEF WaitingFor, Waiting
    <2> QED BY <1>0, <2>2, <2>3 DEF ScreenMoves, TypeInv, ConnOK
  <1>2. CASE handleDeviceApprove(c)
    <2> DEFINE ok == key[c] \in paired /\ Waiting(inbox[c].r) /\ inbox[c].r \notin due
    <2>1. /\ dialog' = [dialog EXCEPT ![c] = dialog[c] \ {q \in {inbox[c].r} : key[c] \in paired}]
          /\ Close({q \in {inbox[c].r} : ok}, IF ok /\ inbox[c].allow THEN "allowed" ELSE "denied")
      BY <1>2 DEF handleDeviceApprove
    <2>2. dialog' \in [Conn -> SUBSET Request] /\ \A i \in Conn : i # c => dialog'[i] = dialog[i]
      BY <1>0, <2>1
    <2>3. ASSUME NEW r \in dialog[c] PROVE r \in dialog'[c] \/ ~Waiting(r)' \/ r \in due'
      <3>1. CASE r \in dialog'[c]
        BY <3>1
      <3>2. CASE r \notin dialog'[c]
        <4>1. r = inbox[c].r /\ key[c] \in paired /\ r \in Request
          BY <1>0, <2>1, <3>2
        <4>2. CASE ok
          <5>1. outcome'[r] \in {"allowed", "denied"}
            BY <2>1, <4>1, <4>2 DEF Close
          <5> QED BY <5>1 DEF Waiting
        <4>3. CASE ~ok
          <5>1. outcome'[r] = outcome[r]
            BY <2>1, <4>1, <4>3 DEF Close
          <5> QED BY <1>0, <4>1, <4>3, <5>1 DEF Waiting
        <4> QED BY <4>2, <4>3
      <3> QED BY <3>1, <3>2
    <2> QED BY <1>0, <2>2, <2>3 DEF ScreenMoves, TypeInv, ConnOK
  <1> QED BY <1>1, <1>2, <1>3

\* A listing that fails asks nothing, of what waits then.
LEMMA ListedScreens ==
    ASSUME TypeInv, NEW c \in Conn, ListsWaiting(c)
    PROVE  ScreenMoves
  <1>0. missed \in [Conn -> SUBSET Request] /\ UNCHANGED <<key, greeted, revoked, dialog>>
    BY DEF TypeInv, ConnOK, ListsWaiting
  <1>1. WaitingFor(key[c]) \subseteq Request
    BY DEF WaitingFor
  <1>2. missed' \in [Conn -> SUBSET Request] /\ \A i \in Conn : missed[i] \subseteq missed'[i]
    BY <1>0, <1>1 DEF ListsWaiting
  <1> QED BY <1>0, <1>2 DEF ScreenMoves, TypeInv, ConnOK

\* The issuer is told that a request is over.
LEMMA ToldScreens ==
    ASSUME TypeInv, NEW a \in Conn \cup {Sweeper}, TellsBoth(a)
    PROVE  ScreenMoves
  <1>0. dialog \in [Conn -> SUBSET Request] /\ UNCHANGED <<key, greeted, revoked, missed>> /\ task[a].at = "tell"
    BY DEF TypeInv, ConnOK, TellsBoth
  <1>1. dialog' \in [Conn -> SUBSET Request] /\ \A i \in Conn : dialog[i] \ {task[a].r} \subseteq dialog'[i]
    BY <1>0 DEF TellsBoth
  <1> QED BY <1>0, <1>1 DEF ScreenMoves, TypeInv, ConnOK

\* Whatever happens, the screens change in those ways only.
LEMMA StepScreens ==
    ASSUME TypeInv, FlowNext
    PROVE  ScreenMoves
  <1>1. ASSUME UNCHANGED <<key, flagVars>> PROVE ScreenMoves
    BY <1>1, ScreenRests DEF flagVars
  <1>2. ASSUME NEW c \in Conn, Serves(c) PROVE ScreenMoves
    <2>1. CASE untrack(c)
      BY <2>1, UntrackScreens
    <2>2. CASE markGreeted(c)
      BY <2>2, GreetScreens
    <2>3. CASE dropDevice(c)
      BY <2>3, DropScreens
    <2>4. CASE announcePairRequested(c) \/ Resends(c)
      BY <2>4, AskedScreens
    <2>5. CASE handleDeviceApprove(c) \/ Rechecks(c)
      BY <2>5, AnsweredScreens
    <2>6. CASE AsksWhose(c) \/ holdUnpaired(c) \/ Refuses(c) \/ pairByLink(c) \/ OnInvite(c) \/ Settles(c) \/ awaitAnswer(c)
      BY <1>1, <2>6 DEF AsksWhose, holdUnpaired, Refuses, pairByLink, OnInvite, pairByInvite, Settles, awaitAnswer
    <2>7. CASE ReadsAgain(c) \/ RepliesUnheld(c) \/ handlePairCancel(c) \/ handleDeviceRevoke(c) \/ ResolvesIdentity(c)
      BY <1>1, <2>7 DEF ReadsAgain, RepliesUnheld, handlePairCancel, handleDeviceRevoke, ResolvesIdentity
    <2>8. CASE ListsWaiting(c)
      BY <2>8, ListedScreens
    <2> QED BY <1>2, <2>1, <2>2, <2>3, <2>4, <2>5, <2>6, <2>7, <2>8 DEF Serves
  <1>3. ASSUME NEW c \in Conn, TimerFires(c) \/ outOfTime(c) PROVE ScreenMoves
    BY <1>1, <1>3 DEF TimerFires, outOfTime
  <1>4. ASSUME NEW a \in Conn \cup {Sweeper}, Announces(a) PROVE ScreenMoves
    <2>1. CASE EndsWait(a)
      BY <1>1, <2>1 DEF EndsWait
    <2> QED BY <1>4, <2>1, ToldScreens DEF Announces
  <1>5. CASE runRequestSweeper
    BY <1>1, <1>5 DEF runRequestSweeper
  <1>7. ASSUME NEW k \in Key, AppActs(k) \/ PersonActs(k) PROVE ScreenMoves
    <2>1. ASSUME NEW c \in Conn, Connect(k, c) PROVE ScreenMoves
      <3>1. UNCHANGED <<revoked, greeted, dialog, missed>> /\ key' = [key EXCEPT ![c] = k] /\ key[c] = None
        BY <2>1 DEF Connect, flagVars
      <3>2. \A x \in Conn : key[x] # None => key'[x] = key[x]
        BY <3>1 DEF TypeInv, ConnOK
      <3> QED BY <3>1, <3>2, ScreenRests
    <2>2. CASE Presents(k) \/ Greets(k) \/ Lost(k) \/ Withdraws(k) \/ \E d \in Key : Revokes(k, d)
      BY <1>1, <2>2 DEF Presents, Greets, Lost, Withdraws, Revokes, Send
    <2>3. ASSUME NEW r \in Request \cup {None}, Begins(k, r) PROVE ScreenMoves
      BY <1>1, <2>3 DEF Begins
    <2> QED BY <1>7, <2>1, <2>2, <2>3 DEF AppActs, PersonActs, Dials
  <1>8. ASSUME NEW r \in Request, TimeUp(r) PROVE ScreenMoves
    BY <1>1, <1>8 DEF TimeUp
  <1>9. ASSUME NEW r \in Request, NEW allow \in BOOLEAN, Answers(r, allow) PROVE ScreenMoves
    BY <1>1, <1>9 DEF Answers, Send
  <1> QED BY <1>2, <1>3, <1>4, <1>5, <1>7, <1>8, <1>9 DEF FlowNext

(***************************************************************************)
(* The type invariant                                                      *)
(***************************************************************************)

InboxesOK == DOMAIN inbox = Conn /\ \A c \in Conn : InboxOK(c)

\* A command is read, or nothing is.
LEMMA InboxRests ==
    ASSUME InboxesOK, NEW c, inbox' = [inbox EXCEPT ![c] = None] \/ inbox' = inbox
    PROVE  InboxesOK'
  BY DEF InboxesOK, InboxOK

\* A command is sent.
LEMMA InboxFills ==
    ASSUME InboxesOK, NEW k, NEW cmd, Send(k, cmd),
           cmd.cmd \in {"pair.cancel", "device.approve"} => cmd.r \in Request,
           cmd.cmd = "device.revoke" => cmd.d \in Key
    PROVE  InboxesOK'
  <1>1. PICK l : l = link[k]
    OBVIOUS
  <1>2. inbox' = [inbox EXCEPT ![l] = cmd]
    BY <1>1 DEF Send
  <1>3. DOMAIN inbox' = Conn /\ \A c \in Conn : inbox'[c] = inbox[c] \/ inbox'[c] = cmd
    BY <1>2 DEF InboxesOK
  <1> QED BY <1>3 DEF InboxesOK, InboxOK

\* What is on its way in makes sense.
LEMMA InboxKeeps ==
    ASSUME TypeInv, FlowNext
    PROVE  InboxesOK'
  <1>0. InboxesOK
    BY DEF TypeInv, TaskInv, InboxesOK
  <1>1. ASSUME UNCHANGED inbox PROVE InboxesOK'
    BY <1>0, <1>1, InboxRests
  <1>2. ASSUME NEW c \in Conn, Serves(c) PROVE InboxesOK'
    <2>1. CASE untrack(c) \/ Refuses(c) \/ pairByLink(c) \/ OnInvite(c) \/ handlePairCancel(c)
      BY <1>0, <2>1, InboxRests DEF untrack, Refuses, pairByLink, OnInvite, pairByInvite, handlePairCancel, Runs, Reads
    <2>2. CASE handleDeviceApprove(c) \/ handleDeviceRevoke(c) \/ ResolvesIdentity(c)
      BY <1>0, <2>2, InboxRests DEF handleDeviceApprove, handleDeviceRevoke, ResolvesIdentity, Runs, Reads
    <2>3. CASE AsksWhose(c) \/ holdUnpaired(c) \/ Settles(c) \/ awaitAnswer(c) \/ ReadsAgain(c) \/ RepliesUnheld(c)
      BY <1>1, <2>3 DEF AsksWhose, holdUnpaired, Settles, awaitAnswer, ReadsAgain, RepliesUnheld
    <2>4. CASE announcePairRequested(c) \/ dropDevice(c) \/ markGreeted(c) \/ ListsWaiting(c) \/ Resends(c) \/ Rechecks(c)
      BY <1>1, <2>4 DEF announcePairRequested, dropDevice, markGreeted, ListsWaiting, Resends, Rechecks
    <2> QED BY <1>2, <2>1, <2>2, <2>3, <2>4 DEF Serves
  <1>3. ASSUME NEW c \in Conn, TimerFires(c) \/ outOfTime(c) PROVE InboxesOK'
    BY <1>1, <1>3 DEF TimerFires, outOfTime
  <1>4. ASSUME NEW a \in Conn \cup {Sweeper}, Announces(a) PROVE InboxesOK'
    BY <1>1, <1>4 DEF Announces, EndsWait, TellsBoth
  <1>5. CASE runRequestSweeper
    BY <1>1, <1>5 DEF runRequestSweeper
  <1>7. ASSUME NEW k \in Key, AppActs(k) \/ PersonActs(k) PROVE InboxesOK'
    <2>1. CASE \E c \in Conn : Connect(k, c)
      BY <1>1, <2>1 DEF Connect
    <2>2. CASE Presents(k)
      <3>1. PICK cmd : cmd = [cmd |-> "pair", r |-> app[k].r] /\ Send(k, cmd)
        BY <2>2 DEF Presents
      <3>2. cmd.cmd = "pair"
        BY <3>1
      <3> QED BY <1>0, <3>1, <3>2, InboxFills
    <2>3. CASE Greets(k)
      <3>1. PICK cmd : cmd = [cmd |-> "session.hello"] /\ Send(k, cmd)
        BY <2>3 DEF Greets
      <3>2. cmd.cmd = "session.hello"
        BY <3>1
      <3> QED BY <1>0, <3>1, <3>2, InboxFills
    <2>4. CASE Withdraws(k)
      <3>1. PICK cmd : cmd = [cmd |-> "pair.cancel", r |-> app[k].r] /\ Send(k, cmd)
        BY <2>4 DEF Withdraws
      <3>2. app[k].r \in Request
        BY <2>4 DEF Withdraws, TypeInv, AppOK
      <3>3. cmd.cmd = "pair.cancel" /\ cmd.r \in Request
        BY <3>1, <3>2
      <3> QED BY <1>0, <3>1, <3>3, InboxFills
    <2>5. ASSUME NEW d \in Key, Revokes(k, d) PROVE InboxesOK'
      <3>1. PICK cmd : cmd = [cmd |-> "device.revoke", d |-> d] /\ Send(k, cmd)
        BY <2>5 DEF Revokes
      <3>2. cmd.cmd = "device.revoke" /\ cmd.d \in Key
        BY <3>1
      <3> QED BY <1>0, <3>1, <3>2, InboxFills
    <2>6. CASE Lost(k) \/ \E r \in Request \cup {None} : Begins(k, r)
      BY <1>1, <2>6 DEF Lost, Begins
    <2> QED BY <1>7, <2>1, <2>2, <2>3, <2>4, <2>5, <2>6 DEF AppActs, PersonActs, Dials
  <1>8. ASSUME NEW r \in Request, TimeUp(r) PROVE InboxesOK'
    BY <1>1, <1>8 DEF TimeUp
  <1>9. ASSUME NEW r \in Request, NEW allow \in BOOLEAN, Answers(r, allow) PROVE InboxesOK'
    <2>1. PICK cmd : cmd = [cmd |-> "device.approve", r |-> r, allow |-> allow] /\ Send(Owner, cmd)
      BY <1>9 DEF Answers
    <2>2. cmd.cmd = "device.approve" /\ cmd.r \in Request
      BY <2>1
    <2> QED BY <1>0, <2>1, <2>2, InboxFills
  <1> QED BY <1>2, <1>3, <1>4, <1>5, <1>7, <1>8, <1>9 DEF FlowNext

\* Every step keeps the types.
LEMMA TypeKeeps ==
    ASSUME TypeInv, [FlowNext]_flowVars
    PROVE  TypeInv'
  <1>1. CASE FlowNext
    <2>1. HoldOK(Hold, due)' /\ Effects
      BY <1>1, StepEffects
    <2>2. Moves
      BY <1>1, StepMoves
    <2>3. StoreOK'
      BY <1>1, StepStore
    <2>4. ScreenMoves
      BY <1>1, StepScreens
    <2>5. AppOK' /\ InboxesOK'
      BY <1>1, AppKeeps, InboxKeeps
    <2>6. /\ key \in [Conn -> Key \cup {None}]
          /\ \A c \in Conn : (task[c].at = "free" <=> key[c] = None) /\ (task[c].at \in {"free", "ask", "hold"} => ~Held(c))
          /\ closing \subseteq {c \in Conn : key[c] # None} /\ \A c \in Conn : task[c] \in Task
      BY DEF TypeInv, ConnOK, TaskInv
    <2>7. key' \in [Conn -> Key \cup {None}]
      BY <2>2, <2>6 DEF Moves
    <2>8. closing' \subseteq {c \in Conn : key'[c] # None}
      <3>1. closing' \subseteq Conn
        BY <2>1 DEF HoldOK, HoldType, Hold
      <3> QED BY <2>1, <2>6, <3>1 DEF Effects
    <2>9. ConnOK'
      BY <2>4, <2>7, <2>8 DEF ConnOK, ScreenMoves
    <2>10. \A c \in Conn : task'[c].at = "free" <=> key'[c] = None
      BY <2>2, <2>6, PairFlowAssumption DEF Moves
    <2>11. ASSUME NEW c \in Conn, task'[c].at \in {"free", "ask", "hold"} PROVE ~Held(c)'
      <3>1. CASE task'[c] = task[c]
        BY <2>1, <2>6, <2>11, <3>1, IdleIs DEF Effects
      <3>2. CASE Fits(c, task'[c]) /\ task'[c].at \in {"ask", "hold"}
        BY <2>1, <2>6, <3>2, IdleIs DEF Effects, Fits
      <3>3. CASE task'[c].at = "free"
        BY <2>1, <2>2, <2>6, <3>3, IdleIs DEF Moves, Effects
      <3> QED BY <2>2, <2>11, <3>1, <3>2, <3>3 DEF Moves
    <2>12. TaskInv'
      BY <2>2, <2>5, <2>10, <2>11 DEF TaskInv, Moves, InboxesOK
    <2> QED BY <2>1, <2>3, <2>5, <2>9, <2>12 DEF TypeInv
  <1>2. CASE UNCHANGED flowVars
    <2>1. UNCHANGED <<storeVars, appVars, key, inbox, task, holdVars, flagVars>>
      BY <1>2 DEF flowVars
    <2>2. StoreOK' /\ AppOK'
      BY <2>1 DEF TypeInv, StoreOK, AppOK, storeVars, appVars
    <2>3. ConnOK'
      BY <2>1 DEF TypeInv, ConnOK, holdVars, flagVars
    <2>4. HoldOK(Hold, due)'
      <3>1. Hold' = Hold /\ due' = due /\ HoldOK(Hold, due)
        BY <2>1 DEF TypeInv, Hold, holdVars, storeVars
      <3> QED BY <3>1
    <2>5. TaskInv'
      BY <2>1 DEF TypeInv, TaskInv, InboxOK, Held, holdVars
    <2> QED BY <2>2, <2>3, <2>4, <2>5 DEF TypeInv
  <1> QED BY <1>1, <1>2

\* The types hold at the start.
LEMMA TypeInit ==
    ASSUME FlowInit
    PROVE  TypeInv
  <1>1. StoreOK
    BY DEF FlowInit, StoreOK, Outcomes
  <1>2. AppOK
    BY DEF FlowInit, AppOK
  <1>3. ConnOK
    BY DEF FlowInit, ConnOK
  <1>4. HoldOK(Hold, due)
    <2> SUFFICES ASSUME NEW h, h = Hold PROVE HoldOK(h, due)
      OBVIOUS
    <2>1. /\ h = [unpaired |-> {}, ahead |-> [c \in Conn |-> {}], waits |-> [r \in Request |-> None],
                  fired |-> [c \in Conn |-> "no"], closing |-> {}]
      BY DEF FlowInit, Hold
    <2>2. IsFiniteSet({}) /\ Cardinality({}) <= MaxUnpaired
      BY FS_EmptySet, PairFlowAssumption
    <2>3. /\ h \in HoldType /\ h.unpaired = {} /\ h.waits = [r \in Request |-> None]
          /\ h.fired = [c \in Conn |-> "no"] /\ h.ahead = [c \in Conn |-> {}]
      BY <2>1 DEF HoldType
    <2> QED BY <2>2, <2>3 DEF HoldOK
  <1>5. TaskInv
    <2>1. /\ task = [a \in Conn \cup {Sweeper} |-> IF a = Sweeper THEN Idle ELSE At("free")]
          /\ inbox = [c \in Conn |-> None] /\ key = [c \in Conn |-> None] /\ ~\E c \in Conn : Held(c)
          /\ Sweeper \notin Conn
      BY PairFlowAssumption DEF FlowInit, Held
    <2>2. At("free") \in Task /\ At("free").at = "free"
      <3>1. "free" \in Steps
        BY DEF Steps
      <3> QED BY <3>1, AtForms
    <2>3. task \in [Conn \cup {Sweeper} -> Task] /\ task[Sweeper] = Idle /\ \A c \in Conn : task[c].at = "free"
      BY <2>1, <2>2, IdleIs
    <2>4. \A a \in Conn \cup {Sweeper} : TaskOK(a, task[a])
      BY <2>1, <2>3, IdleIs DEF TaskOK
    <2>5. DOMAIN inbox = Conn /\ \A c \in Conn : InboxOK(c)
      BY <2>1 DEF InboxOK
    <2> QED BY <2>1, <2>3, <2>4, <2>5 DEF TaskInv
  <1> QED BY <1>1, <1>2, <1>3, <1>4, <1>5 DEF TypeInv

\* The type invariant is inductive.
THEOREM FlowInductive == FlowSpec => []TypeInv
  <1>1. FlowInit => TypeInv
    BY TypeInit
  <1>2. TypeInv /\ [FlowNext]_flowVars => TypeInv'
    BY TypeKeeps
  <1> QED BY <1>1, <1>2, PTL DEF FlowSpec

\* Every variable keeps its type, there are never more places than the cap, and a connection
\* has a place or waits, never both, whatever the number of connections and invites
\* (placeUnpairedLocked).
THEOREM FlowTypeCorrect == FlowSpec => []FlowTypeOK
  <1>1. TypeInv => FlowTypeOK
    <2> SUFFICES ASSUME TypeInv PROVE FlowTypeOK
      OBVIOUS
    <2>1. /\ paired \subseteq Key /\ due \subseteq Request /\ spent \subseteq Key
          /\ asker \in [Request -> Key \cup {None}] /\ outcome \in [Request -> Outcomes]
          /\ link \in [Key -> Conn \cup {None}] /\ key \in [Conn -> Key \cup {None}]
          /\ closing \cup revoked \cup greeted \subseteq {c \in Conn : key[c] # None}
          /\ dialog \in [Conn -> SUBSET Request] /\ missed \in [Conn -> SUBSET Request]
      BY DEF TypeInv, StoreOK, AppOK, ConnOK
    <2>2. /\ waits \in [Request -> Conn \cup {None}] /\ fired \in [Conn -> {"no", "current", "stale"}]
          /\ ahead \in [Conn -> SUBSET Conn] /\ (\A c \in Conn : ahead[c] \subseteq unpaired)
          /\ Cardinality(unpaired) <= MaxUnpaired /\ \A r \in Request : waits[r] \notin unpaired
      BY HoldIs DEF TypeInv, HoldOK, HoldType
    <2>3. ahead \in [Conn -> SUBSET unpaired]
      BY <2>2
    <2> QED BY <2>1, <2>2, <2>3 DEF FlowTypeOK, Outcomes
  <1> QED BY <1>1, FlowInductive, PTL

\* A connection that waits for an answer still to come is closed by nobody but a revocation
\* or the connection that took its wait over: no newcomer pushes it out, and no deadline of
\* the place it had before reaches it (armLocked, holdGen).
THEOREM PatienceKeptAlways == FlowSpec => PatienceKept
  <1>1. ASSUME TypeInv, [FlowNext]_flowVars
        PROVE  [\A r \in Request, c \in Conn :
                  waits[r] = c /\ Waiting(r) /\ r \notin due /\ c \in closing' \ closing
                    => c \in revoked' \/ waits'[r] \in Conn \ {c}]_flowVars
    <2>1. CASE FlowNext
      <3>1. Effects
        BY <1>1, <2>1, StepEffects
      <3> QED BY <3>1 DEF Effects
    <2>2. CASE UNCHANGED flowVars
      BY <2>2
    <2> QED BY <1>1, <2>1, <2>2
  <1> QED BY <1>1, FlowInductive, PTL DEF FlowSpec, PatienceKept

(***************************************************************************)
(* No stranger escapes the limits                                          *)
(***************************************************************************)

\* A connection whose key is paired, or that is about to go, stays so while it is there.
LEMMA FineKept ==
    ASSUME TypeInv, FlowNext, NEW c \in Conn, Fine(c), key[c] # None, key'[c] = key[c]
    PROVE  Fine(c)'
  <1>0. Effects /\ Moves /\ StoreMoves
    BY StepEffects, StepMoves, StepStore
  <1>1. CASE key[c] \in paired
    BY <1>0, <1>1 DEF StoreMoves, Fine
  <1>2. CASE c \in closing
    BY <1>0, <1>2 DEF Effects, Fine
  <1>3. CASE DropOnItsWay(key[c])
    <2>1. PICK a \in Conn : task[a].at = "drop" /\ task[a].who = key[c]
      BY <1>3 DEF DropOnItsWay
    <2>2. task'[a] = task[a] \/ Fits(a, task'[a])
      BY <1>0 DEF Moves
    <2>3. CASE task'[a] = task[a]
      BY <2>1, <2>3 DEF Fine, DropOnItsWay
    <2>4. CASE Fits(a, task'[a])
      <3>1. c \in closing'
        BY <2>1, <2>4 DEF Fits
      <3> QED BY <3>1 DEF Fine
    <2> QED BY <2>2, <2>3, <2>4
  <1> QED BY <1>1, <1>2, <1>3 DEF Fine

\* Every step keeps strangers held.
LEMMA StrangersKeep ==
    ASSUME TypeInv, TypeInv', StrangerInv, [FlowNext]_flowVars
    PROVE  StrangerInv'
  <1>1. CASE UNCHANGED flowVars
    <2>1. UNCHANGED <<storeVars, key, task, holdVars>>
      BY <1>1 DEF flowVars
    <2> QED BY <2>1 DEF StrangerInv, StrangersAreHeld, Fine, Held, DropOnItsWay, storeVars, holdVars
  <1>2. CASE FlowNext
    <2>0. Effects /\ Moves /\ StoreMoves
      BY <1>2, StepEffects, StepMoves, StepStore
    <2>1. ASSUME NEW c \in Conn, key'[c] # None, task'[c].at # "ask"
          PROVE  key'[c] = key[c] /\ key[c] # None
      BY <2>0, <2>1 DEF Moves
    <2>2. \A c \in Conn : task[c].at = "free" <=> key[c] = None
      BY DEF TypeInv, TaskInv
    <2>3. \A c \in Conn : (task'[c].at = "free" <=> key'[c] = None) /\ (task'[c].at \in {"free", "ask", "hold"} => ~Held(c)')
      BY DEF TypeInv, TaskInv
    <2>4. ASSUME NEW c \in Conn, key'[c] # None, key'[c] \notin paired', task'[c].at \notin {"ask", "hold"}
          PROVE  Held(c)' \/ c \in closing' \/ DropOnItsWay(key[c])'
      <3>1. key'[c] = key[c] /\ key[c] # None
        BY <2>1, <2>4
      <3>2. CASE task[c].at \in {"ask", "hold"}
        <4>1. Fits(c, task'[c])
          BY <2>0, <2>4, <3>2 DEF Moves
        <4> QED BY <2>4, <3>1, <3>2, <4>1 DEF Fits
      <3>3. CASE task[c].at \notin {"ask", "hold"}
        <4>1. Fine(c) \/ Held(c)
          BY <3>1, <3>3 DEF StrangerInv, StrangersAreHeld, Fine
        <4>2. CASE Fine(c)
          BY <1>2, <2>4, <3>1, <4>2, FineKept DEF Fine
        <4>3. CASE Held(c)
          <5>1. Held(c)' \/ c \in closing' \/ Released(c)
            BY <2>0, <4>3 DEF Effects
          <5>2. CASE Released(c)
            <6>1. Fine(c)
              BY <2>4, <5>2 DEF Released, StrangerInv
            <6> QED BY <4>2, <6>1
          <5> QED BY <5>1, <5>2
        <4> QED BY <4>1, <4>2, <4>3
      <3> QED BY <3>2, <3>3
    <2>5. ASSUME NEW c \in Conn, task'[c].at \in {"settle", "mark"} PROVE Fine(c)'
      <3>1. key'[c] = key[c] /\ key[c] # None
        BY <2>1, <2>3, <2>5
      <3>2. CASE task'[c] = task[c]
        <4>1. Fine(c)
          BY <2>5, <3>2 DEF StrangerInv
        <4> QED BY <1>2, <3>1, <4>1, FineKept
      <3>3. CASE Fits(c, task'[c])
        BY <2>5, <3>1, <3>3 DEF Fits, Fine
      <3> QED BY <2>0, <3>2, <3>3 DEF Moves
    <2>6. ASSUME NEW c \in Conn, NEW r \in Request, waits'[r] = c \/ (task'[c].at = "await" /\ task'[c].r = r)
          PROVE  /\ outcome'[r] # "none" /\ asker'[r] = key'[c]
                 /\ outcome'[r] = "allowed" => Fine(c)'
      <3>0. task'[c].at \notin {"free", "ask", "hold"}
        BY <2>3, <2>6 DEF Held
      <3>1. key'[c] = key[c] /\ key[c] # None
        BY <2>1, <2>3, <3>0
      <3>2. CASE waits[r] = c \/ (task[c].at = "await" /\ task[c].r = r)
        <4>1. outcome[r] # "none" /\ asker[r] = key[c] /\ (outcome[r] = "allowed" => Fine(c))
          BY <3>2 DEF StrangerInv
        <4>2. outcome'[r] # "none" /\ asker'[r] = asker[r]
          BY <2>0, <4>1 DEF StoreMoves
        <4>3. ASSUME outcome'[r] = "allowed" PROVE Fine(c)'
          <5>1. CASE outcome[r] = "allowed"
            BY <1>2, <3>1, <4>1, <5>1, FineKept
          <5>2. CASE asker[r] \in paired'
            BY <3>1, <4>1, <5>2 DEF Fine
          <5> QED BY <2>0, <4>3, <5>1, <5>2 DEF StoreMoves
        <4> QED BY <3>1, <4>1, <4>2, <4>3
      <3>3. CASE ~(waits[r] = c \/ (task[c].at = "await" /\ task[c].r = r))
        <4>1. waits'[r] # c
          <5>1. \/ waits'[r] \in {waits[r], None}
                \/ \E x \in Conn : waits'[r] = x /\ task[x].at = "await" /\ task[x].r = r
            BY <2>0 DEF Effects
          <5>2. c # None
            BY PairFlowAssumption
          <5> QED BY <3>3, <5>1, <5>2
        <4>2. Fits(c, task'[c]) /\ task'[c].at = "await" /\ task'[c].r = r
          BY <2>0, <2>6, <3>3, <4>1 DEF Moves
        <4>3. outcome'[r] = "waiting" /\ asker'[r] = key[c]
          BY <4>2 DEF Fits
        <4> QED BY <3>1, <4>3
      <3> QED BY <3>2, <3>3
    <2>7. StrangersAreHeld'
      BY <2>4 DEF StrangersAreHeld
    <2> QED BY <2>5, <2>6, <2>7 DEF StrangerInv
  <1> QED BY <1>1, <1>2

\* No connection of a key nobody paired escapes the limits: once the server has asked whose
\* it is, it has a place or waits, unless it is being closed or about to be (handleWS,
\* endWait, dropDevice).
THEOREM StrangersAreHeldAlways == FlowSpec => []StrangersAreHeld
  <1>1. FlowInit => StrangerInv
    <2> SUFFICES ASSUME FlowInit PROVE StrangerInv
      OBVIOUS
    <2>1. /\ key = [c \in Conn |-> None] /\ waits = [r \in Request |-> None] /\ None \notin Conn
          /\ \A c \in Conn : task[c] = At("free")
      BY PairFlowAssumption DEF FlowInit
    <2>2. \A c \in Conn : task[c].at = "free"
      BY <2>1 DEF At
    <2> QED BY <2>1, <2>2 DEF StrangerInv, StrangersAreHeld
  <1>2. TypeInv /\ TypeInv' /\ StrangerInv /\ [FlowNext]_flowVars => StrangerInv'
    BY StrangersKeep
  <1>3. StrangerInv => StrangersAreHeld
    BY DEF StrangerInv
  <1> QED BY <1>1, <1>2, <1>3, FlowInductive, PTL DEF FlowSpec

(***************************************************************************)
(* Nobody waits in vain, and the owner is asked                            *)
(***************************************************************************)

\* Who waits on a request that is over and is about to read so, still is after a step, or
\* waits no more.
LEMMA RereadsKept ==
    ASSUME TypeInv, FlowNext, NEW r \in Request, Closed(r), Rereads(r)
    PROVE  Rereads(r)'
  <1>0. Effects /\ Moves
    BY StepEffects, StepMoves
  <1>1. \/ waits'[r] \in {waits[r], None}
        \/ \E c \in Conn : /\ waits'[r] = c /\ task[c].at = "await" /\ task[c].r = r
                           /\ task'[c] = [task[c] EXCEPT !.at = "reread"]
    BY <1>0 DEF Effects
  <1>2. CASE waits'[r] = None
    BY <1>2 DEF Rereads
  <1>3. CASE waits'[r] = waits[r] /\ waits[r] # None
    <2>1. waits[r] \in Conn
      BY <1>3, HoldIs DEF TypeInv, HoldOK, HoldType
    <2>2. task[waits[r]].at = "reread" /\ task[waits[r]].r = r
      BY <1>3 DEF Rereads
    <2>3. task'[waits[r]] = task[waits[r]] \/ Fits(waits[r], task'[waits[r]])
      BY <1>0, <2>1 DEF Moves
    <2>4. CASE task'[waits[r]] = task[waits[r]]
      BY <1>3, <2>2, <2>4 DEF Rereads
    <2>5. CASE Fits(waits[r], task'[waits[r]])
      <3>1. waits'[r] = None
        BY <2>2, <2>5 DEF Fits
      <3> QED BY <1>2, <3>1
    <2> QED BY <2>3, <2>4, <2>5
  <1>4. CASE \E c \in Conn : /\ waits'[r] = c /\ task[c].at = "await" /\ task[c].r = r
                             /\ task'[c] = [task[c] EXCEPT !.at = "reread"]
    <2>1. PICK c \in Conn : /\ waits'[r] = c /\ task[c].at = "await" /\ task[c].r = r
                            /\ task'[c] = Stepped(task[c], "reread")
      BY <1>4 DEF Stepped
    <2>2. task[c] \in Task /\ "reread" \in Steps
      BY DEF TypeInv, TaskInv, Steps
    <2>3. task'[c].at = "reread" /\ task'[c].r = r
      BY <2>1, <2>2, SteppedForms
    <2> QED BY <2>1, <2>3 DEF Rereads
  <1> QED BY <1>1, <1>2, <1>3, <1>4

\* Every step keeps it that nobody waits in vain.
LEMMA WaitsKeep ==
    ASSUME TypeInv, WaitInv, [FlowNext]_flowVars
    PROVE  WaitInv'
  <1>1. CASE UNCHANGED flowVars
    <2>1. UNCHANGED <<storeVars, key, task, holdVars>>
      BY <1>1 DEF flowVars
    <2> QED BY <2>1 DEF WaitInv, NobodyWaitsInVain, Rereads, Telling, Closed, storeVars, holdVars
  <1>2. CASE FlowNext
    <2>0. Effects /\ Moves /\ StoreMoves
      BY <1>2, StepEffects, StepMoves, StepStore
    <2>1. \A r \in Request : Closed(r) => Closed(r)'
      BY <2>0 DEF StoreMoves, Closed
    <2>2. ASSUME NEW a \in Conn \cup {Sweeper}, task'[a].at \in {"drop", "end", "tell"}, NEW r \in task'[a].todo
          PROVE  Closed(r)'
      <3>0. r \in Request /\ task[a] \in Task
        BY <2>0, <2>2 DEF Moves, Task, TypeInv, TaskInv
      <3>1. CASE task[a].at \in {"drop", "end", "tell"} /\ r \in task[a].todo
        BY <2>1, <3>0, <3>1 DEF WaitInv
      <3>2. CASE Fits(a, task'[a])
        BY <2>2, <3>1, <3>2 DEF Fits
      <3> QED BY <2>0, <2>2, <3>1, <3>2 DEF Moves
    <2>3. ASSUME NEW a \in Conn \cup {Sweeper}, task'[a].at = "tell", NEW r \in Request, r = task'[a].r
          PROVE  Closed(r)' /\ Rereads(r)'
      <3>1. CASE task'[a] = task[a]
        <4>1. Closed(r) /\ Rereads(r)
          BY <2>3, <3>1 DEF WaitInv
        <4> QED BY <1>2, <2>1, <4>1, RereadsKept
      <3>2. CASE Fits(a, task'[a])
        <4>1. task[a].at = "end" /\ r \in task[a].todo /\ waits'[r] = None
          BY <2>3, <3>2 DEF Fits
        <4>2. Closed(r)
          BY <4>1 DEF WaitInv
        <4>3. Closed(r)'
          BY <2>1, <4>2
        <4> QED BY <4>1, <4>3 DEF Rereads
      <3> QED BY <2>0, <3>1, <3>2 DEF Moves
    <2>4. ASSUME NEW r \in Request, Closed(r)'
          PROVE  Rereads(r)' \/ \E a \in Conn \cup {Sweeper} : Telling(a, r)'
      <3>1. CASE ~Closed(r)
        BY <2>0, <2>4, <3>1 DEF StoreMoves
      <3>2. CASE Closed(r) /\ Rereads(r)
        BY <1>2, <3>2, RereadsKept
      <3>3. CASE Closed(r) /\ ~Rereads(r)
        <4>1. PICK a \in Conn \cup {Sweeper} : Telling(a, r)
          BY <3>3 DEF WaitInv, NobodyWaitsInVain, Rereads
        <4>2. ~(task[a].at = "tell" /\ task[a].r = r)
          BY <3>3 DEF WaitInv
        <4>3. Telling(a, r)'
          <5>1. CASE task'[a] = task[a]
            BY <4>1, <5>1 DEF Telling
          <5>2. CASE Fits(a, task'[a])
            <6>1. task'[a].at \in {"end", "tell"} /\ r \in task'[a].todo
              BY <4>1, <4>2, <5>2 DEF Fits, Telling
            <6> QED BY <6>1 DEF Telling
          <5> QED BY <2>0, <5>1, <5>2 DEF Moves
        <4> QED BY <4>3
      <3> QED BY <3>1, <3>2, <3>3
    <2>5. NobodyWaitsInVain'
      BY <2>4 DEF NobodyWaitsInVain, Rereads
    <2>6. ASSUME NEW a \in Conn \cup {Sweeper}, task'[a].at = "tell"
          PROVE  task'[a].r \in Request
      BY <2>0, <2>6 DEF Moves, TaskOK
    <2>7. \A a \in Conn \cup {Sweeper} : (task[a].at = "tell" => Closed(task[a].r) /\ Rereads(task[a].r))'
      BY <2>3, <2>6 DEF Closed, Rereads
    <2> QED BY <2>2, <2>5, <2>7 DEF WaitInv
  <1> QED BY <1>1, <1>2

\* Who waits, and who is about to tell, stays right.
THEOREM WaitInductive == FlowSpec => []WaitInv
  <1>1. FlowInit => WaitInv
    <2> SUFFICES ASSUME FlowInit PROVE WaitInv
      OBVIOUS
    <2>1. /\ \A r \in Request : waits[r] = None
          /\ \A a \in Conn \cup {Sweeper} : task[a] \in {Idle, At("free")}
      BY DEF FlowInit
    <2>2. \A a \in Conn \cup {Sweeper} : task[a].at \in {"read", "free"}
      BY <2>1 DEF Idle, At
    <2> QED BY <2>1, <2>2 DEF WaitInv, NobodyWaitsInVain
  <1>2. TypeInv /\ WaitInv /\ [FlowNext]_flowVars => WaitInv'
    BY WaitsKeep
  <1> QED BY <1>1, <1>2, FlowInductive, PTL DEF FlowSpec

\* Nobody waits in vain: when a request has closed, the connection that waits on it is about
\* to read so itself, or somebody is about to let go of it (awaitAnswer,
\* announcePairClosed).
THEOREM NobodyWaitsInVainAlways == FlowSpec => []NobodyWaitsInVain
  <1>1. WaitInv => NobodyWaitsInVain
    BY DEF WaitInv
  <1> QED BY <1>1, WaitInductive, PTL

\* Every step keeps it that the owner is asked.
LEMMA AskedKeeps ==
    ASSUME TypeInv, WaitInv, OwnerIsAsked, [FlowNext]_flowVars
    PROVE  OwnerIsAsked'
  <1>1. CASE UNCHANGED flowVars
    <2>1. UNCHANGED <<storeVars, key, task, holdVars, flagVars>>
      BY <1>1 DEF flowVars
    <2> QED BY <2>1 DEF OwnerIsAsked, Asking, IssuersScreens, Waiting, storeVars, holdVars, flagVars
  <1>2. CASE FlowNext
    <2>0. Effects /\ Moves /\ StoreMoves /\ ScreenMoves
      BY <1>2, StepEffects, StepMoves, StepStore, StepScreens
    <2> SUFFICES ASSUME NEW r \in Request, NEW c \in IssuersScreens', Waiting(r)', r \notin due', c \notin closing'
                 PROVE  r \in dialog'[c] \/ Asking(c, r)' \/ r \in missed'[c]
      BY DEF OwnerIsAsked
    <2>1. c \in greeted' /\ key'[c] = Owner /\ c \in Conn
      BY <2>0 DEF IssuersScreens, ScreenMoves
    <2>2. CASE task'[c].at = "list"
      BY <2>2 DEF Asking
    <2>3. CASE \E a \in Conn : task'[a].at = "await" /\ r \in task'[a].todo
      BY <2>3 DEF Asking
    <2>4. CASE c \in greeted /\ key'[c] = key[c] /\ Waiting(r)
      <3>1. r \notin due /\ c \notin closing /\ c \in IssuersScreens
        <4>1. key'[c] # None
          BY <2>1, PairFlowAssumption
        <4> QED BY <2>0, <2>1, <2>4, <4>1 DEF StoreMoves, Effects, IssuersScreens
      <3>2. r \in dialog[c] \/ Asking(c, r) \/ r \in missed[c]
        BY <2>4, <3>1 DEF OwnerIsAsked
      <3>3. CASE r \in dialog[c]
        <4>1. ~\E a \in Conn \cup {Sweeper} : task[a].at = "tell" /\ task[a].r = r
          BY <2>4 DEF WaitInv, Closed, Waiting
        <4> QED BY <2>0, <2>1, <2>4, <3>3, <4>1 DEF ScreenMoves
      <3>4. CASE task[c].at = "list" \/ (task[c].at = "resend" /\ r \in task[c].todo)
        <4>1. CASE task'[c] = task[c]
          BY <3>4, <4>1 DEF Asking
        <4>2. CASE Fits(c, task'[c])
          <5>1. r \in WaitingFor(key[c])
            BY <2>1, <2>4, <3>1 DEF WaitingFor
          <5> QED BY <3>4, <4>2, <5>1 DEF Fits, Asking
        <4> QED BY <2>0, <2>1, <4>1, <4>2 DEF Moves
      <3>5. CASE \E a \in Conn : task[a].at \in {"await", "reread", "pending", "opened"} /\ r \in task[a].todo
        <4>1. PICK a \in Conn : task[a].at \in {"await", "reread", "pending", "opened"} /\ r \in task[a].todo
          BY <3>5
        <4>2. CASE task'[a] = task[a]
          BY <4>1, <4>2 DEF Asking
        <4>3. CASE Fits(a, task'[a]) /\ task[a].at # "opened"
          <5>1. task'[a].at \in {"reread", "pending", "opened"} /\ r \in task'[a].todo
            BY <4>1, <4>3 DEF Fits
          <5> QED BY <5>1 DEF Asking
        <4>4. CASE Fits(a, task'[a]) /\ task[a].at = "opened"
          BY <4>1, <4>4 DEF Fits
        <4> QED BY <2>0, <4>2, <4>3, <4>4 DEF Moves
      <3>6. CASE r \in missed[c]
        BY <2>0, <2>4, <3>6 DEF ScreenMoves
      <3> QED BY <3>2, <3>3, <3>4, <3>5, <3>6 DEF Asking
    <2>5. (c \in greeted /\ key'[c] = key[c]) \/ task'[c].at = "list"
      BY <2>0, <2>1 DEF ScreenMoves
    <2>6. Waiting(r) \/ \E a \in Conn : task'[a].at = "await" /\ r \in task'[a].todo
      BY <2>0 DEF StoreMoves
    <2> QED BY <2>2, <2>3, <2>4, <2>5, <2>6
  <1> QED BY <1>1, <1>2

\* Every waiting request is on every screen of the issuer, or on its way there: one that
\* opens while a connection greets falls between neither announcePairRequested nor
\* resendPairRequests, and a listing that failed leaves out no more than what waited then.
THEOREM OwnerIsAskedAlways == FlowSpec => []OwnerIsAsked
  <1>1. FlowInit => OwnerIsAsked
    BY DEF FlowInit, OwnerIsAsked, IssuersScreens
  <1>2. TypeInv /\ WaitInv /\ OwnerIsAsked /\ [FlowNext]_flowVars => OwnerIsAsked'
    BY AskedKeeps
  <1> QED BY <1>1, <1>2, FlowInductive, WaitInductive, PTL DEF FlowSpec
=============================================================================
