-------------------------- MODULE DeviceSyncProofs --------------------------
(***************************************************************************)
(* CursorMeansApplied for every set of devices, every capacity, any number *)
(* of events, faults and failing applies; and, as long as no apply fails,  *)
(* that the whole of it implements OrderedFeed.                            *)
(*                                                                         *)
(* The stored cursor may jump, because the queue of the applier outlives   *)
(* the connection that filled it and the next connection replays from a    *)
(* cursor read earlier.  What holds at every moment is that nothing is     *)
(* missing in front of an event: whatever is below an event of the queue,  *)
(* below the last one taken off the wire, or below the cursor of a hello,  *)
(* is settled or queued before it.                                         *)
(***************************************************************************)
EXTENDS DeviceSync, DeliveryProofs

\* Every variable of the device has its type.
ClientTypeOK ==
    /\ cursor \in [Device -> Nat \cup {NoSince}]
    /\ applied \in [Device -> SUBSET Nat] /\ skipped \in [Device -> SUBSET Nat]
    /\ queue \in [Device -> Seq(Nat)]
    /\ stored \subseteq Device /\ halted \subseteq Device /\ first \subseteq Device
    /\ greet \in [Device -> {"idle", "read", "checked", "sent", "answered", "adopting",
                             "done"}]
    /\ asked \in [Device -> Nat] /\ hello \in [Device -> Nat] /\ seen \in [Device -> Nat]
    /\ base \in [Device -> Nat]
    /\ phase \in [Device -> {"disconnected", "connecting", "catchingUp", "live"}]
    /\ fails \in Nat

\* What device d will not be given any more: its cursor or its bootstrap is past
\* it, an apply has given it up, or it went unsaid.
Settled(d) ==
    {n \in Nat : n <= cursor[d] \/ n <= base[d] \/ n \in skipped[d] \/ n \in silent[d]}

\* Everything up to n is in S or among the first m of q.
NoHoles(S, q, n, m) ==
    \A k \in 1 .. n : k \in S \/ \E j \in 1 .. m : q[j] = k

\* Nothing is missing in front of an event of the queue ...
QueueChain(S, q) ==
    \A i \in 1 .. Len(q) : NoHoles(S, q, q[i] - 1, i - 1)

\* ... nor in front of where the connection stands ...
WireChain(d) ==
    /\ QueueChain(Settled(d), queue[d])
    /\ NoHoles(Settled(d), queue[d], top[d], Len(queue[d]))
    /\ 1 .. since[d] \subseteq Settled(d)
    /\ 1 .. asked[d] \subseteq Settled(d)

\* ... and whoever has a seq has it from the journal.
FromJournal(d) ==
    /\ base[d] <= head /\ cursor[d] <= head /\ rend[d] <= head
    /\ \A i \in 1 .. Len(out[d]) : out[d][i] <= head
    /\ \A i \in 1 .. Len(queue[d]) : queue[d][i] <= head

\* The cursor's promise for one device; the event whose cursor write is due is
\* in the stores already.
CursorKept(d) ==
    /\ \A n \in base[d] + 1 .. cursor[d] :
         n \in applied[d] \/ n \in skipped[d] \/ n \in silent[d]
    /\ d \in stored => queue[d] # <<>> /\ queue[d][1] \in applied[d]

\* How the two ends of a greeting go together.
GreetInv(d) ==
    /\ greet[d] \in {"idle", "read", "checked"} => stage[d] \in {"none", "open"}
    /\ stage[d] = "none" => greet[d] = "idle"
    /\ greet[d] \in {"idle", "read"} => d \notin first
    /\ greet[d] = "adopting" => d \in first
    /\ d \in first /\ stage[d] \notin {"none", "open"} => since[d] = NoSince
    /\ stage[d] = "registered" /\ since[d] = NoSince => d \in first
    /\ stage[d] = "registered" \/ reply[d] # NoReply => greet[d] = "sent"
    /\ d \in first /\ reply[d] # NoReply => reply[d] <= base[d]
    /\ d \in first /\ greet[d] \in {"answered", "adopting"} => hello[d] <= base[d]

ClientInv(d) ==
    /\ WireChain(d) /\ FromJournal(d)
    /\ CursorKept(d) /\ GreetInv(d)

SyncInv ==
    /\ DeliveryInv
    /\ ClientTypeOK
    /\ \A d \in Device : ClientInv(d)
    /\ MaxFails = 0 => halted = {} /\ \A d \in Device : skipped[d] = {}

(***************************************************************************)
(* What a step leaves alone                                                *)
(***************************************************************************)

\* A step that changes nothing of device d at either end; more may go unsaid.
SameFor(d) ==
    /\ silent[d] \subseteq silent'[d]
    /\ cursor'[d] = cursor[d] /\ base'[d] = base[d] /\ skipped'[d] = skipped[d]
    /\ applied'[d] = applied[d] /\ queue'[d] = queue[d] /\ (d \in stored') = (d \in stored)
    /\ top'[d] = top[d] /\ since'[d] = since[d] /\ asked'[d] = asked[d]
    /\ rend'[d] = rend[d] /\ out'[d] = out[d] /\ reply'[d] = reply[d]
    /\ greet'[d] = greet[d] /\ stage'[d] = stage[d] /\ (d \in first') = (d \in first)
    /\ hello'[d] = hello[d]

\* With more settled, still nothing is missing.
LEMMA ChainStays ==
    ASSUME NEW S, NEW T, S \subseteq T, NEW q
    PROVE  /\ QueueChain(S, q) => QueueChain(T, q)
           /\ \A n, m : NoHoles(S, q, n, m) => NoHoles(T, q, n, m)
  BY DEF QueueChain, NoHoles

\* A device no step touches keeps its invariant while the journal grows.
LEMMA ClientUntouched ==
    ASSUME NEW d \in Device, ClientInv(d), head \in Int, head' \in Int, head <= head',
           DeliveryTypeOK, ClientTypeOK, SameFor(d)
    PROVE  ClientInv(d)'
  <1> USE DEF SameFor
  <1>1. WireChain(d)'
    <2>1. Settled(d) \subseteq Settled(d)'
      BY DEF Settled
    <2>2. /\ QueueChain(Settled(d)', queue[d])
          /\ NoHoles(Settled(d)', queue[d], top[d], Len(queue[d]))
      BY <2>1, ChainStays DEF ClientInv, WireChain
    <2> QED BY <2>1, <2>2 DEF ClientInv, WireChain
  <1>2. FromJournal(d)'
    <2>1. /\ base[d] \in Int /\ cursor[d] \in Int /\ rend[d] \in Int
          /\ out[d] \in Seq(Nat) /\ queue[d] \in Seq(Nat)
      BY DEF DeliveryTypeOK, ClientTypeOK, NoSince
    <2>2. /\ \A i \in 1 .. Len(out[d]) : out[d][i] \in Nat
          /\ \A i \in 1 .. Len(queue[d]) : queue[d][i] \in Nat
      BY <2>1, ElementOfSeq
    <2>3. base'[d] <= head' /\ cursor'[d] <= head' /\ rend'[d] <= head'
      BY <2>1 DEF ClientInv, FromJournal
    <2>4. \A i \in 1 .. Len(out[d]) : out[d][i] <= head'
      BY <2>2 DEF ClientInv, FromJournal
    <2>5. \A i \in 1 .. Len(queue[d]) : queue[d][i] <= head'
      BY <2>2 DEF ClientInv, FromJournal
    <2> QED BY <2>3, <2>4, <2>5 DEF FromJournal
  <1>3. CursorKept(d)' /\ GreetInv(d)'
    BY DEF ClientInv, CursorKept, GreetInv
  <1> QED BY <1>1, <1>2, <1>3 DEF ClientInv

\* What is settled stays so while the cursor, the bootstrap and what was given up
\* only grow.
LEMMA SettledStays ==
    ASSUME NEW d \in Device, cursor[d] \in Int, cursor'[d] \in Int,
           base[d] \in Int, base'[d] \in Int,
           cursor[d] <= cursor'[d], base[d] <= base'[d], skipped[d] \subseteq skipped'[d],
           silent[d] \subseteq silent'[d]
    PROVE  Settled(d) \subseteq Settled(d)'
  BY DEF Settled

\* The head of the queue leaves it, settled: nothing goes missing.
LEMMA HeadLeaves ==
    ASSUME NEW S, NEW T, S \subseteq T, NEW q \in Seq(Nat), q # <<>>, Head(q) \in T,
           NEW n, NEW m \in 1 .. Len(q), NoHoles(S, q, n, m)
    PROVE  NoHoles(T, Tail(q), n, m - 1)
  <1>1. /\ Len(q) \in Nat \ {0} /\ Head(q) = q[1]
        /\ \A i \in 1 .. Len(q) - 1 : Tail(q)[i] = q[i + 1]
    BY TailFacts
  <1> SUFFICES ASSUME NEW k \in 1 .. n
               PROVE  k \in T \/ \E j \in 1 .. m - 1 : Tail(q)[j] = k
    BY DEF NoHoles
  <1>2. CASE k \in S
    BY <1>2
  <1>3. CASE \E j \in 1 .. m : q[j] = k
    <2> PICK j \in 1 .. m : q[j] = k
      BY <1>3
    <2>1. CASE j = 1
      BY <2>1, <1>1
    <2>2. CASE j # 1
      <3>1. j - 1 \in 1 .. m - 1 /\ j - 1 \in 1 .. Len(q) - 1 /\ (j - 1) + 1 = j
        BY <2>2, <1>1
      <3>2. Tail(q)[j - 1] = k
        BY <3>1, <1>1
      <3> QED BY <3>1, <3>2
    <2> QED BY <2>1, <2>2
  <1> QED BY <1>2, <1>3 DEF NoHoles

\* The same for the whole chain.
LEMMA ChainTail ==
    ASSUME NEW S, NEW T, S \subseteq T, NEW q \in Seq(Nat), q # <<>>, Head(q) \in T,
           QueueChain(S, q)
    PROVE  QueueChain(T, Tail(q))
  <1>1. /\ Len(q) \in Nat \ {0} /\ Len(Tail(q)) = Len(q) - 1
        /\ \A i \in 1 .. Len(q) - 1 : Tail(q)[i] = q[i + 1]
    BY TailFacts
  <1> SUFFICES ASSUME NEW i \in 1 .. Len(Tail(q))
               PROVE  NoHoles(T, Tail(q), Tail(q)[i] - 1, i - 1)
    BY DEF QueueChain
  <1>2. /\ i + 1 \in 1 .. Len(q) /\ i \in 1 .. Len(q) /\ (i + 1) - 1 = i
        /\ Tail(q)[i] = q[i + 1]
    BY <1>1
  <1>3. NoHoles(S, q, q[i + 1] - 1, i)
    BY <1>2 DEF QueueChain
  <1> QED BY <1>2, <1>3, HeadLeaves

\* A frame with only settled events between where the connection stands and
\* itself joins the queue.
LEMMA ChainAppend ==
    ASSUME NEW S, NEW q \in Seq(Nat), NEW t \in Int, NEW e \in Nat, Follows(S, t, e),
           QueueChain(S, q), NoHoles(S, q, t, Len(q))
    PROVE  /\ QueueChain(S, Append(q, e))
           /\ NoHoles(S, Append(q, e), e, Len(q) + 1)
  <1> DEFINE p == Append(q, e)
  <1>1. /\ Len(p) = Len(q) + 1 /\ Len(q) \in Nat /\ p[Len(q) + 1] = e
        /\ \A i \in 1 .. Len(q) : p[i] = q[i] /\ q[i] \in Nat
    BY AppendFacts
  <1>2. ASSUME NEW n, NEW m \in 0 .. Len(q), NoHoles(S, q, n, m)
        PROVE  NoHoles(S, p, n, m)
    BY <1>1, <1>2 DEF NoHoles
  <1> HIDE DEF p
  <1>3. NoHoles(S, p, e - 1, Len(q))
    <2>1. NoHoles(S, p, t, Len(q))
      BY <1>1, <1>2
    <2> QED BY <2>1 DEF NoHoles, Follows
  <1>4. NoHoles(S, p, e, Len(q) + 1)
    BY <1>1, <1>3 DEF NoHoles
  <1>5. QueueChain(S, p)
    <2> SUFFICES ASSUME NEW i \in 1 .. Len(p) PROVE NoHoles(S, p, p[i] - 1, i - 1)
      BY DEF QueueChain
    <2>1. CASE i = Len(q) + 1
      BY <2>1, <1>1, <1>3
    <2>2. CASE i \in 1 .. Len(q)
      <3>1. NoHoles(S, q, q[i] - 1, i - 1) /\ i - 1 \in 0 .. Len(q)
        BY <2>2, <1>1 DEF QueueChain
      <3> QED BY <3>1, <2>2, <1>1, <1>2
    <2> QED BY <2>1, <2>2, <1>1
  <1> QED BY <1>4, <1>5 DEF p

(***************************************************************************)
(* Step by step                                                            *)
(***************************************************************************)

\* The types of what concerns one device.
LEMMA DeviceTypes ==
    ASSUME DeliveryTypeOK, ClientTypeOK, NEW d \in Device
    PROVE  /\ cursor[d] \in Int /\ base[d] \in Nat /\ head \in Nat /\ rend[d] \in Nat
           /\ asked[d] \in Nat /\ since[d] \in Int /\ top[d] \in Int /\ hello[d] \in Nat
           /\ reply[d] \in Int
           /\ queue[d] \in Seq(Nat) /\ out[d] \in Seq(Nat)
           /\ \A i \in 1 .. Len(out[d]) : out[d][i] \in Nat
           /\ \A i \in 1 .. Len(queue[d]) : queue[d][i] \in Nat
  <1>1. /\ cursor[d] \in Int /\ base[d] \in Nat /\ head \in Nat /\ rend[d] \in Nat
        /\ asked[d] \in Nat /\ since[d] \in Int /\ top[d] \in Int /\ hello[d] \in Nat
        /\ reply[d] \in Int
        /\ queue[d] \in Seq(Nat) /\ out[d] \in Seq(Nat)
    BY DEF DeliveryTypeOK, ClientTypeOK, NoSince, NotJoined, NoReply
  <1> QED BY <1>1, ElementOfSeq

\* One device's steps leave the others alone.
LEMMA OtherDevices ==
    ASSUME SyncInv, NEW c \in Device, NEW d \in Device, d # c,
           SocketStep(c) \/ ApplierStep(c) \/ AppRestarts(c)
    PROVE  SameFor(d) /\ head' = head
  <1>0. DeliveryTypeOK /\ ClientTypeOK
    BY DEF SyncInv, DeliveryInv
  <1> USE <1>0 DEF SameFor, deliveryVars, journal, dispatcher, link, store, applier, socket
  <1>1. CASE Open(c)
    BY <1>1 DEF Open, Accept, DeliveryTypeOK
  <1>2. CASE GreetReads(c) \/ GreetChecks(c)
    BY <1>2 DEF GreetReads, GreetChecks, ClientTypeOK
  <1>3. CASE GreetSends(c)
    BY <1>3 DEF GreetSends, Register, DeliveryTypeOK, ClientTypeOK
  <1>4. CASE ServerReplies(c)
    BY <1>4 DEF ServerReplies, Reply, DeliveryTypeOK, ClientTypeOK
  <1>5. CASE ReplyArrives(c)
    BY <1>5 DEF ReplyArrives, TakeReply, DeliveryTypeOK, ClientTypeOK
  <1>6. CASE GreetResumes(c) \/ GreetAdopts(c)
    BY <1>6 DEF GreetResumes, GreetAdopts, Advanced, ClientTypeOK
  <1>7. CASE FrameArrives(c)
    BY <1>7 DEF FrameArrives, TakeFrame, DeliveryTypeOK, ClientTypeOK
  <1>8. CASE Dropped(c)
    BY <1>8 DEF Dropped, Disconnect, CloseSlow, Gone, TornDown
  <1>9. CASE ApplierStep(c)
    <2>1. CASE ApplySkips(c) \/ ApplyDrops(c)
      BY <2>1 DEF ApplySkips, ApplyDrops, ClientTypeOK
    <2>2. CASE ApplyStores(c)
      BY <2>2 DEF ApplyStores, ClientTypeOK
    <2>3. CASE ApplyAdvances(c)
      BY <2>3 DEF ApplyAdvances, Advanced, ClientTypeOK
    <2>4. CASE ApplyFails(c)
      BY <2>4 DEF ApplyFails, ClientTypeOK
    <2> QED BY <1>9, <2>1, <2>2, <2>3, <2>4 DEF ApplierStep
  <1>10. CASE AppRestarts(c)
    BY <1>10 DEF AppRestarts, Gone, TornDown, ClientTypeOK
  <1> QED BY <1>1, <1>2, <1>3, <1>4, <1>5, <1>6, <1>7, <1>8, <1>9, <1>10 DEF SocketStep

\* Every step of the device's own keeps the types.
LEMMA ClientTyped ==
    ASSUME SyncInv, NEW d \in Device, SocketStep(d) \/ ApplierStep(d) \/ AppRestarts(d)
    PROVE  ClientTypeOK'
  <1>0. DeliveryTypeOK /\ ClientTypeOK
    BY DEF SyncInv, DeliveryInv
  <1>a. /\ queue[d] \in Seq(Nat) /\ out[d] \in Seq(Nat) /\ <<>> \in Seq(Nat)
        /\ cursor[d] \in Int /\ Since(d) \in Nat /\ NoSince \in Int
    BY <1>0, DeviceTypes, SMTT(30) DEF ClientTypeOK, Since, NoSince
  <1>b. /\ queue[d] # <<>> => Tail(queue[d]) \in Seq(Nat) /\ Head(queue[d]) \in Nat
        /\ out[d] # <<>> => Head(out[d]) \in Nat
    BY <1>a, TailFacts
  <1> USE <1>0 DEF store, applier, socket
  <1>1. CASE Open(d) \/ GreetReads(d) \/ GreetChecks(d) \/ GreetSends(d)
    <2>1. CASE Open(d)
      BY <2>1 DEF Open, ClientTypeOK
    <2>2. CASE GreetReads(d)
      BY <2>2, <1>a DEF GreetReads, ClientTypeOK
    <2>3. CASE GreetChecks(d)
      BY <2>3 DEF GreetChecks, ClientTypeOK
    <2>4. CASE GreetSends(d)
      BY <2>4 DEF GreetSends, ClientTypeOK
    <2> QED BY <1>1, <2>1, <2>2, <2>3, <2>4
  <1>2. CASE ServerReplies(d)
    BY <1>2 DEF ServerReplies, ClientTypeOK, DeliveryTypeOK
  <1>3. CASE ReplyArrives(d)
    BY <1>3 DEF ReplyArrives, TakeReply, ClientTypeOK, DeliveryTypeOK
  <1>4. CASE GreetResumes(d)
    BY <1>4 DEF GreetResumes, ClientTypeOK
  <1>5. CASE GreetAdopts(d)
    <2>1. hello[d] \in Nat /\ cursor[d] \in Nat \cup {NoSince}
      BY DEF ClientTypeOK
    <2>2. Larger(cursor[d], hello[d]) \in Nat \cup {NoSince}
      BY <2>1 DEF Larger
    <2> QED BY <1>5, <2>2 DEF GreetAdopts, Advanced, ClientTypeOK
  <1>6. CASE FrameArrives(d)
    <2>1. Head(out[d]) \in Nat /\ Append(queue[d], Head(out[d])) \in Seq(Nat)
      BY <1>6, <1>a, <1>b, AppendFacts DEF FrameArrives, TakeFrame
    <2>2. Larger(seen[d], Head(out[d])) \in Nat
      BY <2>1 DEF Larger, ClientTypeOK
    <2> QED BY <1>6, <2>1, <2>2 DEF FrameArrives, ClientTypeOK
  <1>7. CASE Dropped(d)
    BY <1>7 DEF Dropped, TornDown, ClientTypeOK
  <1>8. CASE ApplySkips(d) \/ ApplyDrops(d) \/ ApplyFails(d)
    <2>1. CASE ApplySkips(d)
      BY <2>1, <1>b DEF ApplySkips, Queued, ClientTypeOK
    <2>2. CASE ApplyDrops(d)
      BY <2>2, <1>b DEF ApplyDrops, Queued, ClientTypeOK
    <2>3. CASE ApplyFails(d)
      BY <2>3, <1>b, SMTT(30) DEF ApplyFails, Halts, ClientTypeOK
    <2> QED BY <1>8, <2>1, <2>2, <2>3
  <1>9. CASE ApplyStores(d)
    BY <1>9, <1>b DEF ApplyStores, Queued, ClientTypeOK
  <1>10. CASE ApplyAdvances(d)
    <2>1. queue[d] # <<>>
      BY <1>10 DEF ApplyAdvances, SyncInv, ClientInv, CursorKept
    <2>2. cursor[d] \in Nat \cup {NoSince}
      BY DEF ClientTypeOK
    <2>3. Larger(cursor[d], Head(queue[d])) \in Nat \cup {NoSince}
      BY <2>1, <2>2, <1>b DEF Larger
    <2> QED BY <1>10, <2>1, <2>3, <1>b DEF ApplyAdvances, Advanced, ClientTypeOK
  <1>11. CASE AppRestarts(d)
    BY <1>11, <1>a DEF AppRestarts, TornDown, ClientTypeOK
  <1> QED BY <1>1, <1>2, <1>3, <1>4, <1>5, <1>6, <1>7, <1>8, <1>9, <1>10, <1>11
          DEF SocketStep, ApplierStep

\* The server's half keeps its invariant in the composition: every step is one
\* of the server's own, or leaves it alone.
LEMMA ServerKept ==
    ASSUME SyncInv, [Next]_vars
    PROVE  DeliveryInv'
  <1>0. DeliveryInv /\ ClientTypeOK /\ DeliveryTypeOK
    BY DEF SyncInv, DeliveryInv
  <1>1. CASE ServerAlone
    BY <1>1, <1>0, DispatcherKeepsInv, CommitKeepsInv, FirstReadKeepsInv,
       BroadcastKeepsInv, HandshakeKeepsInv,
       ReplayKeepsInv, ForwardKeepsInv DEF ServerAlone, ServerWorks
  <1>2. CASE ServerRestarts
    <2>1. faults' \in Nat
      BY <1>2, <1>0 DEF ServerRestarts, Restart, DeliveryTypeOK
    <2> QED BY <1>2, <2>1, <1>0, GoneKeepsInv DEF ServerRestarts, Restart
  <1>3. ASSUME NEW d \in Device, SocketStep(d) PROVE DeliveryInv'
    <2>1. CASE Open(d) \/ ServerReplies(d)
      BY <2>1, <1>0, HandshakeKeepsInv DEF Open, ServerReplies
    <2>2. CASE GreetSends(d)
      <3>1. \E n \in {NoSince} \cup Nat : Register(d, n)
        BY <2>2, <1>0 DEF GreetSends, ClientTypeOK
      <3> QED BY <3>1, <1>0, HandshakeKeepsInv
    <2>3. CASE ReplyArrives(d) \/ FrameArrives(d)
      BY <2>3, <1>0, TakeKeepsInv DEF ReplyArrives, FrameArrives
    <2>4. CASE Dropped(d)
      <3>1. /\ {d} \in SUBSET Device /\ Gone({d}) /\ UNCHANGED <<head, silent>>
            /\ UNCHANGED <<owed, dispatcher>> /\ faults' \in Nat
        BY <2>4, <1>0 DEF Dropped, Disconnect, CloseSlow, journal, DeliveryTypeOK
      <3> QED BY <3>1, <1>0, GoneKeepsInv
    <2>5. CASE GreetReads(d) \/ GreetChecks(d) \/ GreetResumes(d) \/ GreetAdopts(d)
      <3>1. UNCHANGED deliveryVars
        BY <2>5 DEF GreetReads, GreetChecks, GreetResumes, GreetAdopts
      <3> QED BY <3>1, <1>0, DeliveryInductive
    <2> QED BY <1>3, <2>1, <2>2, <2>3, <2>4, <2>5 DEF SocketStep
  <1>4. ASSUME NEW d \in Device, ApplierStep(d) PROVE DeliveryInv'
    <2>1. UNCHANGED deliveryVars
      BY <1>4 DEF ApplierStep, ApplySkips, ApplyDrops, ApplyStores, ApplyAdvances, ApplyFails
    <2> QED BY <2>1, <1>0, DeliveryInductive
  <1>5. ASSUME NEW d \in Device, AppRestarts(d) PROVE DeliveryInv'
    <2>1. /\ {d} \in SUBSET Device /\ Gone({d}) /\ UNCHANGED <<head, silent>>
          /\ UNCHANGED <<owed, dispatcher>> /\ faults' \in Nat
      BY <1>5, <1>0 DEF AppRestarts, journal, DeliveryTypeOK
    <2> QED BY <2>1, <1>0, GoneKeepsInv
  <1>6. CASE UNCHANGED vars
    BY <1>6, <1>0, DeliveryInductive DEF vars
  <1> QED BY <1>1, <1>2, <1>3, <1>4, <1>5, <1>6 DEF Next

\* The wire side of the invariant survives every step that leaves the queue alone
\* and neither lowers what is settled nor moves the connection forward.
LEMMA WireStays ==
    ASSUME NEW d \in Device, DeliveryTypeOK, ClientTypeOK, ClientTypeOK', WireChain(d),
           cursor[d] <= cursor'[d], base[d] <= base'[d], skipped[d] \subseteq skipped'[d],
           silent[d] \subseteq silent'[d], queue'[d] = queue[d], top'[d] \in {top[d], -1}, since'[d] \in {since[d], -1},
           asked'[d] = asked[d]
    PROVE  WireChain(d)'
  <1>1. Settled(d) \subseteq Settled(d)'
    <2>1. /\ cursor[d] \in Int /\ cursor'[d] \in Int
          /\ base[d] \in Int /\ base'[d] \in Int
      BY DEF ClientTypeOK, NoSince
    <2> QED BY <2>1, SettledStays
  <1>2. QueueChain(Settled(d)', queue[d])
    BY <1>1, ChainStays DEF WireChain
  <1>3. NoHoles(Settled(d)', queue[d], top'[d], Len(queue[d]))
    <2>1. CASE top'[d] = top[d]
      BY <2>1, <1>1, ChainStays DEF WireChain
    <2>2. CASE top'[d] = -1
      BY <2>2 DEF NoHoles
    <2> QED BY <2>1, <2>2
  <1>4. 1 .. since'[d] \subseteq Settled(d)' /\ 1 .. asked'[d] \subseteq Settled(d)'
    <2>1. 1 .. asked'[d] \subseteq Settled(d)'
      BY <1>1 DEF WireChain
    <2>2. CASE since'[d] = since[d]
      BY <2>2, <1>1 DEF WireChain
    <2>3. CASE since'[d] = -1
      BY <2>1, <2>3
    <2> QED BY <2>1, <2>2, <2>3
  <1> QED BY <1>2, <1>3, <1>4 DEF WireChain

\* A connection that ends takes nothing settled with it; the queue of the applier
\* stays, or goes with the app.
LEMMA EndKeepsClient ==
    ASSUME SyncInv, ClientTypeOK', NEW D \in SUBSET Device, NEW d \in D, Gone(D),
           TornDown(D), UNCHANGED <<store, skipped>>, UNCHANGED <<head, silent>>,
           \/ queue'[d] = queue[d] /\ (d \in stored') = (d \in stored)
           \/ queue'[d] = <<>> /\ d \notin stored'
    PROVE  ClientInv(d)'
  <1>0. DeliveryTypeOK /\ ClientTypeOK /\ d \in Device /\ ClientInv(d)
    BY DEF SyncInv, DeliveryInv
  <1>1. /\ cursor'[d] = cursor[d] /\ base'[d] = base[d] /\ skipped'[d] = skipped[d]
        /\ applied'[d] = applied[d] /\ asked'[d] = asked[d]
        /\ top'[d] = -1 /\ since'[d] = -1 /\ rend'[d] = 0 /\ out'[d] = <<>>
        /\ reply'[d] = NoReply /\ greet'[d] = "idle" /\ stage'[d] = "none" /\ d \notin first'
    BY <1>0 DEF Gone, TornDown, store, NotJoined, NoSince
  <1>2. WireChain(d)'
    <2>1. CASE queue'[d] = queue[d]
      <3>1. cursor[d] <= cursor'[d] /\ base[d] <= base'[d]
        BY <1>0, <1>1, DeviceTypes
      <3> QED BY <2>1, <3>1, <1>0, <1>1, WireStays DEF ClientInv
    <2>2. CASE queue'[d] = <<>>
      <3>1. Settled(d)' = Settled(d)
        BY <1>1 DEF Settled
      <3> QED BY <2>2, <3>1, <1>0, <1>1 DEF ClientInv, WireChain, QueueChain, NoHoles
    <2> QED BY <2>1, <2>2
  <1>3. FromJournal(d)'
    <2>1. head \in Nat
      BY <1>0 DEF DeliveryTypeOK
    <2> QED BY <2>1, <1>0, <1>1 DEF ClientInv, FromJournal
  <1>4. CursorKept(d)'
    BY <1>0, <1>1 DEF ClientInv, CursorKept
  <1>5. GreetInv(d)'
    BY <1>1 DEF GreetInv
  <1> QED BY <1>2, <1>3, <1>4, <1>5 DEF ClientInv

\* What is below a bound stays below it when an element below it joins.
LEMMA AppendBound ==
    ASSUME NEW s \in Seq(Nat), NEW e \in Nat, NEW h \in Nat, e <= h,
           \A i \in 1 .. Len(s) : s[i] <= h
    PROVE  \A i \in 1 .. Len(Append(s, e)) : Append(s, e)[i] <= h
  <1> DEFINE p == Append(s, e)
  <1>1. /\ Len(p) = Len(s) + 1 /\ Len(s) \in Nat /\ p[Len(s) + 1] = e
        /\ \A i \in 1 .. Len(s) : p[i] = s[i]
    BY AppendFacts
  <1> HIDE DEF p
  <1>2. ASSUME NEW i \in 1 .. Len(p) PROVE p[i] <= h
    <2>1. i \in 1 .. Len(s) \/ i = Len(s) + 1
      BY <1>1
    <2> QED BY <2>1, <1>1
  <1> QED BY <1>2 DEF p

\* The server works on its own: whatever it puts on the wire is in the journal.
LEMMA ServerKeepsClient ==
    ASSUME SyncInv, ClientTypeOK', ServerAlone, NEW d \in Device
    PROVE  ClientInv(d)'
  <1>0. /\ DeliveryTypeOK /\ ClientTypeOK /\ ClientInv(d) /\ LinkInv(d)
        /\ last \in Nat /\ head \in Nat /\ last <= head
    BY DEF SyncInv, DeliveryInv, DispatcherInv, DeliveryTypeOK
  <1>1. UNCHANGED clientVars
    BY DEF ServerAlone
  <1>2. CASE Commit \/ Kick \/ FirstRead \/ TakeKick \/ ReadBatch \/ BackToSelect \/ ReadFails
    <2>0. silent[d] \subseteq silent'[d]
      BY <1>2, <1>0 DEF Commit, Kick, FirstRead, TakeKick, ReadBatch, BackToSelect,
         ReadFails, journal, DeliveryTypeOK
    <2>1. SameFor(d) /\ head' \in Int /\ head <= head'
      BY <1>0, <1>1, <1>2, <2>0 DEF Commit, Kick, FirstRead, TakeKick, ReadBatch, BackToSelect,
         ReadFails, clientVars, store, applier, socket, journal, link, SameFor
    <2> QED BY <2>1, <1>0, ClientUntouched
  <1>3. CASE Broadcast
    <2>1. SameFor(d) /\ head' = head
      BY <1>0, <1>1, <1>3 DEF Broadcast, clientVars, store, applier, socket, journal, SameFor
    <2> QED BY <2>1, <1>0, ClientUntouched
  <1>4. ASSUME NEW c \in Device, ServerWorks(c) PROVE ClientInv(d)'
    <2>0. /\ head' = head /\ reply'[d] = reply[d] /\ since'[d] = since[d]
          /\ top'[d] = top[d] /\ silent' = silent
      BY <1>4 DEF ServerWorks, ReadReplay, SendReplay, StartForward, Forward, journal
    <2>1. CASE c # d
      <3>1. SameFor(d)
        BY <1>0, <1>1, <1>4, <2>0, <2>1 DEF ServerWorks, ReadReplay, SendReplay,
           StartForward, Forward, clientVars, store, applier, socket, SameFor, DeliveryTypeOK
      <3> QED BY <3>1, <2>0, <1>0, ClientUntouched
    <2>2. CASE c = d
      <3>1. WireChain(d)' /\ CursorKept(d)'
        <4>1. /\ cursor'[d] = cursor[d] /\ base'[d] = base[d] /\ skipped'[d] = skipped[d]
              /\ queue'[d] = queue[d] /\ asked'[d] = asked[d] /\ applied'[d] = applied[d]
              /\ stored' = stored
          BY <1>1 DEF clientVars, store, applier, socket
        <4>2. cursor[d] <= cursor'[d] /\ base[d] <= base'[d]
          BY <4>1, <1>0, DeviceTypes
        <4>3. WireChain(d)'
          BY <4>1, <4>2, <2>0, <1>0, WireStays DEF ClientInv
        <4>4. CursorKept(d)'
          BY <4>1, <2>0, <1>0 DEF ClientInv, CursorKept
        <4> QED BY <4>3, <4>4
      <3>2. rend'[d] <= head /\ \A i \in 1 .. Len(out'[d]) : out'[d][i] <= head
        <4>0. /\ rend[d] <= head /\ rend[d] \in Nat /\ out[d] \in Seq(Nat)
              /\ sub[d] \in Seq(Nat) /\ rnext[d] \in Nat
              /\ \A i \in 1 .. Len(out[d]) : out[d][i] <= head
          BY <1>0 DEF DeliveryTypeOK, ClientInv, FromJournal
        <4>1. ASSUME NEW e \in Nat, e <= head
              PROVE  \A i \in 1 .. Len(Append(out[d], e)) : Append(out[d], e)[i] <= head
          BY <4>0, <4>1, <1>0, AppendBound
        <4>2. CASE ReadReplay(d)
          BY <4>0, <4>2, <1>0 DEF ReadReplay, DeliveryTypeOK
        <4>3. CASE SendReplay(d)
          <5>1. rend' = rend /\ out'[d] = Append(out[d], rnext[d]) /\ rnext[d] <= head
            BY <4>0, <4>3, <1>0 DEF SendReplay, DeliveryTypeOK
          <5> QED BY <5>1, <4>0, <4>1
        <4>4. CASE StartForward(d)
          BY <4>0, <4>4 DEF StartForward
        <4>5. CASE Forward(d)
          <5>1. Head(sub[d]) \in Nat /\ Head(sub[d]) <= head
            <6>1. sub[d] # <<>> /\ Head(sub[d]) = sub[d][1] /\ sub[d][1] \in Nat
                  /\ Len(sub[d]) \in Nat \ {0}
              BY <4>0, <4>5, TailFacts DEF Forward
            <6>2. sub[d][1] <= last
              BY <6>1, <1>0 DEF LinkInv, SubChain
            <6> QED BY <6>1, <6>2, <1>0
          <5>2. rend' = rend /\ out'[d] \in {out[d], Append(out[d], Head(sub[d]))}
            BY <4>5, <1>0 DEF Forward, DeliveryTypeOK
          <5> QED BY <5>1, <5>2, <4>0, <4>1
        <4> QED BY <1>4, <2>2, <4>2, <4>3, <4>4, <4>5 DEF ServerWorks
      <3>3. FromJournal(d)'
        BY <3>2, <2>0, <1>0, <1>1 DEF ClientInv, FromJournal, clientVars, store, applier
      <3>4. GreetInv(d)'
        <4>1. /\ stage[d] \in {"replied", "replay", "live"}
              /\ stage'[d] \in {"replay", "live", "ended"}
          <5>1. CASE ReadReplay(d)
            BY <5>1, <1>0 DEF ReadReplay, DeliveryTypeOK
          <5>2. CASE SendReplay(d) \/ StartForward(d)
            BY <5>2, <1>0 DEF SendReplay, StartForward, DeliveryTypeOK
          <5>3. CASE Forward(d)
            BY <5>3, <1>0 DEF Forward, DeliveryTypeOK
          <5> QED BY <1>4, <2>2, <5>1, <5>2, <5>3 DEF ServerWorks
        <4>2. /\ greet'[d] = greet[d] /\ (d \in first') = (d \in first)
              /\ hello'[d] = hello[d] /\ base'[d] = base[d]
          BY <1>1 DEF clientVars, socket, store
        <4> QED BY <4>1, <4>2, <2>0, <1>0 DEF ClientInv, GreetInv
      <3> QED BY <3>1, <3>3, <3>4 DEF ClientInv
    <2> QED BY <2>1, <2>2
  <1> QED BY <1>2, <1>3, <1>4 DEF ServerAlone

\* A greeting up to the hello it sends: the cursor it states is settled, because
\* the stored cursor it was read from never goes back.
LEMMA GreetingKeepsClient ==
    ASSUME SyncInv, ClientTypeOK', NEW d \in Device,
           Open(d) \/ GreetReads(d) \/ GreetChecks(d) \/ GreetSends(d)
    PROVE  ClientInv(d)'
  <1>0. DeliveryTypeOK /\ ClientTypeOK /\ ClientInv(d) /\ LinkInv(d)
    BY DEF SyncInv, DeliveryInv
  <1>1. /\ UNCHANGED <<store, applier>>
        /\ UNCHANGED <<head, silent, top, rend, out, reply, hello>>
    BY DEF Open, GreetReads, GreetChecks, GreetSends, Accept, Register, deliveryVars,
       journal, link
  <1>2. FromJournal(d)' /\ CursorKept(d)'
    BY <1>0, <1>1 DEF ClientInv, FromJournal, CursorKept, store, applier
  <1>3. WireChain(d)'
    <2>1. Settled(d)' = Settled(d) /\ queue' = queue
      BY <1>1 DEF Settled, store, applier
    <2>2. 1 .. asked'[d] \subseteq Settled(d)
      <3>1. CASE GreetReads(d)
        <4>1. asked'[d] = Since(d) /\ cursor[d] \in Nat \cup {NoSince}
          BY <3>1, <1>0 DEF GreetReads, ClientTypeOK
        <4> QED BY <4>1 DEF Since, Settled, NoSince
      <3>2. CASE ~GreetReads(d)
        BY <3>2, <1>0 DEF ClientInv, WireChain, Open, GreetChecks, GreetSends
      <3> QED BY <3>1, <3>2
    <2>3. 1 .. since'[d] \subseteq Settled(d)
      <3>1. CASE GreetSends(d)
        <4>1. since'[d] \in {-1, asked[d]}
          BY <3>1, <1>0 DEF GreetSends, Register, DeliveryTypeOK, NoSince
        <4> QED BY <4>1, <1>0 DEF ClientInv, WireChain
      <3>2. CASE ~GreetSends(d)
        <4>1. since' = since
          BY <3>2 DEF Open, GreetReads, GreetChecks, Accept, deliveryVars, link
        <4> QED BY <4>1, <1>0 DEF ClientInv, WireChain
      <3> QED BY <3>1, <3>2
    <2> QED BY <2>1, <2>2, <2>3, <1>0, <1>1 DEF ClientInv, WireChain
  <1>4. GreetInv(d)'
    <2>0. /\ base' = base /\ reply' = reply /\ hello' = hello
          /\ GreetInv(d) /\ StageInv(d)
      BY <1>0, <1>1 DEF store, ClientInv, LinkInv
    <2>1. CASE Open(d)
      <3>1. /\ stage[d] = "none" /\ stage'[d] = "open" /\ since' = since
            /\ greet' = greet /\ first' = first
        BY <2>1, <1>0 DEF Open, Accept, DeliveryTypeOK
      <3> QED BY <3>1, <2>0 DEF GreetInv
    <2>2. CASE GreetReads(d)
      <3>1. /\ stage[d] = "open" /\ greet[d] = "idle" /\ greet'[d] = "read"
            /\ stage' = stage /\ since' = since /\ first' = first
        BY <2>2, <1>0 DEF GreetReads, ClientTypeOK, deliveryVars, link
      <3> QED BY <3>1, <2>0 DEF GreetInv
    <2>3. CASE GreetChecks(d)
      <3>1. /\ greet[d] = "read" /\ greet'[d] = "checked"
            /\ stage' = stage /\ since' = since
        BY <2>3, <1>0 DEF GreetChecks, ClientTypeOK, deliveryVars, link
      <3>2. stage[d] = "open" /\ reply[d] = NoReply
        BY <3>1, <2>0 DEF GreetInv, StageInv
      <3> QED BY <3>1, <3>2, <2>0 DEF GreetInv
    <2>4. CASE GreetSends(d)
      <3>1. /\ greet[d] = "checked" /\ greet'[d] = "sent" /\ first' = first
            /\ stage[d] = "open" /\ stage'[d] = "registered"
            /\ since'[d] = IF d \in first THEN NoSince ELSE asked[d]
            /\ asked[d] \in Nat
        BY <2>4, <1>0 DEF GreetSends, Register, DeliveryTypeOK, ClientTypeOK
      <3>2. reply[d] = NoReply /\ (since'[d] = NoSince <=> d \in first)
        BY <3>1, <2>0 DEF StageInv, NoSince
      <3> QED BY <3>1, <3>2, <2>0 DEF GreetInv
    <2> QED BY <2>1, <2>2, <2>3, <2>4
  <1> QED BY <1>2, <1>3, <1>4 DEF ClientInv

\* The reply and what the greeting makes of it.  A device without a cursor takes
\* everything up to the cursor of the reply from list reads, so adopting that
\* cursor passes over nothing.
LEMMA ReplyKeepsClient ==
    ASSUME SyncInv, ClientTypeOK', NEW d \in Device,
           ServerReplies(d) \/ ReplyArrives(d) \/ GreetResumes(d) \/ GreetAdopts(d)
    PROVE  ClientInv(d)'
  <1>0. DeliveryTypeOK /\ ClientTypeOK /\ ClientInv(d) /\ LinkInv(d)
    BY DEF SyncInv, DeliveryInv
  <1>t. /\ cursor[d] \in Int /\ base[d] \in Nat /\ head \in Nat /\ since[d] \in Int
        /\ hello[d] \in Nat /\ top[d] \in Int /\ cursor'[d] \in Int /\ base'[d] \in Nat
        /\ queue[d] \in Seq(Nat)
    <2>1. cursor'[d] \in Int /\ base'[d] \in Nat
      BY DEF ClientTypeOK, NoSince
    <2> QED BY <1>0, <2>1, DeviceTypes
  <1>i. base[d] <= head /\ cursor[d] <= head /\ GreetInv(d) /\ StageInv(d)
    BY <1>0 DEF ClientInv, FromJournal, LinkInv
  <1>1. CASE ServerReplies(d)
    <2>1. /\ stage[d] = "registered" /\ stage'[d] = "replied" /\ reply'[d] = head
          /\ top'[d] = (IF since[d] = NoSince THEN head ELSE since[d])
          /\ base'[d] = (IF since[d] = NoSince THEN head ELSE base[d])
          /\ UNCHANGED <<head, silent, since, out, rend>>
          /\ UNCHANGED <<cursor, applied, applier, socket>>
      BY <1>1, <1>0 DEF ServerReplies, Reply, journal, DeliveryTypeOK, ClientTypeOK
    <2>2. Settled(d) \subseteq Settled(d)'
      BY <2>1, <1>t, <1>i DEF Settled, applier
    <2>3. 1 .. top'[d] \subseteq Settled(d)'
      <3>1. CASE since[d] = NoSince
        BY <3>1, <2>1, <1>t DEF Settled
      <3>2. CASE since[d] # NoSince
        <4>1. 1 .. since[d] \subseteq Settled(d)
          BY <1>0 DEF ClientInv, WireChain
        <4> QED BY <4>1, <3>2, <2>1, <2>2
      <3> QED BY <3>1, <3>2
    <2>4. WireChain(d)'
      <3>1. QueueChain(Settled(d)', queue[d])
        BY <2>2, <1>0, ChainStays DEF ClientInv, WireChain
      <3>2. NoHoles(Settled(d)', queue[d], top'[d], Len(queue[d]))
        BY <2>3 DEF NoHoles
      <3>3. 1 .. since[d] \subseteq Settled(d)' /\ 1 .. asked[d] \subseteq Settled(d)'
        BY <2>2, <1>0 DEF ClientInv, WireChain
      <3> QED BY <3>1, <3>2, <3>3, <2>1 DEF WireChain, applier, socket
    <2>5. FromJournal(d)'
      BY <2>1, <1>0, <1>t DEF ClientInv, FromJournal, applier
    <2>6. CursorKept(d)'
      <3>1. base[d] <= base'[d]
        BY <2>1, <1>t, <1>i
      <3> QED BY <3>1, <2>1, <1>0, <1>t DEF ClientInv, CursorKept, applier
    <2>7. GreetInv(d)'
      <3>1. greet' = greet /\ first' = first /\ hello' = hello
        BY <2>1 DEF socket
      <3>2. greet[d] \notin {"idle", "read", "checked"}
        BY <2>1, <1>i DEF GreetInv
      <3>3. CASE since[d] = NoSince
        BY <3>1, <3>2, <3>3, <2>1, <1>t, <1>i DEF GreetInv
      <3>4. CASE since[d] # NoSince
        BY <3>1, <3>2, <3>4, <2>1, <1>i DEF GreetInv
      <3> QED BY <3>3, <3>4
    <2> QED BY <2>4, <2>5, <2>6, <2>7 DEF ClientInv
  <1>2. CASE ReplyArrives(d)
    <2>1. /\ reply[d] # NoReply /\ reply'[d] = NoReply /\ hello'[d] = reply[d]
          /\ greet'[d] = "answered"
          /\ UNCHANGED <<head, silent, stage, since, rend, out, top>>
          /\ UNCHANGED <<store, applier, asked, first>>
      BY <1>2, <1>0 DEF ReplyArrives, TakeReply, journal, DeliveryTypeOK, ClientTypeOK
    <2>2. stage[d] \notin {"none", "open", "registered"}
      BY <2>1, <1>i DEF StageInv
    <2>3. WireChain(d)'
      <3>1. Settled(d)' = Settled(d)
        BY <2>1 DEF Settled, store, applier
      <3> QED BY <3>1, <2>1, <1>0 DEF ClientInv, WireChain, applier
    <2>4. FromJournal(d)' /\ CursorKept(d)'
      BY <2>1, <1>0 DEF ClientInv, FromJournal, CursorKept, store, applier
    <2>5. GreetInv(d)'
      BY <2>1, <2>2, <1>i DEF GreetInv, store
    <2> QED BY <2>3, <2>4, <2>5 DEF ClientInv
  <1>3. CASE GreetResumes(d)
    <2>1. /\ greet[d] = "answered"
          /\ greet'[d] = (IF d \in first THEN "adopting" ELSE "done")
          /\ UNCHANGED <<head, silent, stage, since, rend, out, top, reply>>
          /\ UNCHANGED <<store, queue, stored, skipped, asked, first, hello>>
      BY <1>3, <1>0 DEF GreetResumes, deliveryVars, journal, link, ClientTypeOK
    <2>2. WireChain(d)'
      <3>1. Settled(d)' = Settled(d)
        BY <2>1 DEF Settled, store
      <3> QED BY <3>1, <2>1, <1>0 DEF ClientInv, WireChain
    <2>3. FromJournal(d)' /\ CursorKept(d)'
      BY <2>1, <1>0 DEF ClientInv, FromJournal, CursorKept, store
    <2>4. GreetInv(d)'
      BY <2>1, <1>i DEF GreetInv, store
    <2> QED BY <2>2, <2>3, <2>4 DEF ClientInv
  <1>4. CASE GreetAdopts(d)
    <2>1. /\ greet[d] = "adopting" /\ greet'[d] = "done"
          /\ cursor'[d] = Larger(cursor[d], hello[d])
          /\ UNCHANGED <<head, silent, stage, since, rend, out, top, reply>>
          /\ UNCHANGED <<applied, base, applier, asked, first, hello>>
      BY <1>4, <1>0 DEF GreetAdopts, Advanced, deliveryVars, journal, link, ClientTypeOK
    <2>2. hello[d] <= base[d] /\ cursor[d] <= cursor'[d] /\ cursor'[d] <= head
      BY <2>1, <1>t, <1>i DEF GreetInv, Larger
    <2>3. WireChain(d)'
      <3>1. base[d] <= base'[d] /\ skipped' = skipped /\ queue' = queue
        BY <2>1, <1>t DEF applier
      <3> QED BY <3>1, <2>1, <2>2, <1>0, WireStays DEF ClientInv
    <2>4. FromJournal(d)'
      BY <2>1, <2>2, <1>0 DEF ClientInv, FromJournal, applier
    <2>5. CursorKept(d)'
      <3>1. ASSUME NEW n \in base[d] + 1 .. cursor'[d] PROVE n \in base[d] + 1 .. cursor[d]
        BY <3>1, <2>1, <2>2, <1>t DEF Larger
      <3> QED BY <3>1, <2>1, <1>0 DEF ClientInv, CursorKept, applier
    <2>6. GreetInv(d)'
      BY <2>1, <1>i DEF GreetInv
    <2> QED BY <2>3, <2>4, <2>5, <2>6 DEF ClientInv
  <1> QED BY <1>1, <1>2, <1>3, <1>4

\* A frame off the wire is at most one past the last one, so nothing is missing
\* in front of it when it joins the queue.
LEMMA FrameKeepsClient ==
    ASSUME SyncInv, ClientTypeOK', NEW d \in Device, FrameArrives(d)
    PROVE  ClientInv(d)'
  <1>0. DeliveryTypeOK /\ ClientTypeOK /\ ClientInv(d) /\ LinkInv(d)
    BY DEF SyncInv, DeliveryInv
  <1>t. /\ head \in Nat /\ top[d] \in Int /\ queue[d] \in Seq(Nat) /\ out[d] \in Seq(Nat)
        /\ \A i \in 1 .. Len(out[d]) : out[d][i] \in Nat
    BY <1>0, DeviceTypes
  <1> DEFINE e == Head(out[d])
  <1>1. /\ out[d] # <<>> /\ out'[d] = Tail(out[d]) /\ top'[d] = e
        /\ queue'[d] = Append(queue[d], e)
        /\ UNCHANGED <<head, silent, stage, since, rend, reply>>
        /\ UNCHANGED <<store, stored, skipped, greet, asked, first, hello>>
    BY <1>0 DEF FrameArrives, TakeFrame, journal, DeliveryTypeOK, ClientTypeOK
  <1>2. /\ Len(out[d]) \in Nat \ {0} /\ e = out[d][1] /\ e \in Nat
        /\ Len(Tail(out[d])) = Len(out[d]) - 1
        /\ \A i \in 1 .. Len(out[d]) - 1 : Tail(out[d])[i] = out[d][i + 1]
    BY <1>1, <1>t, TailFacts
  <1> HIDE DEF e
  <1>3. Follows(silent[d], top[d], e) /\ e <= head
    <2>1. 1 \in 1 .. Len(out[d])
      BY <1>2
    <2>2. Follows(silent[d], top[d], out[d][1])
      BY <2>1, <1>0 DEF LinkInv, OutChain
    <2>3. out[d][1] <= head
      BY <2>1, <1>0 DEF ClientInv, FromJournal
    <2> QED BY <2>2, <2>3, <1>2
  <1>4. Len(Append(queue[d], e)) = Len(queue[d]) + 1 /\ Append(queue[d], e) # <<>>
    BY <1>2, <1>t, AppendFacts, ZenonT(30)
  <1>5. WireChain(d)'
    <2>1. Settled(d)' = Settled(d)
      BY <1>1 DEF Settled, store
    <2>2. /\ QueueChain(Settled(d), Append(queue[d], e))
          /\ NoHoles(Settled(d), Append(queue[d], e), e, Len(queue[d]) + 1)
      <3>1. Follows(Settled(d), top[d], e) \/ top[d] = -1
        <4>1. top[d] \in Nat \cup {-1}
          BY <1>0 DEF DeliveryTypeOK, NotJoined
        <4> QED BY <4>1, <1>3, <1>2 DEF Follows, Settled
      <3>2. CASE Follows(Settled(d), top[d], e)
        BY <3>2, <1>0, <1>2, <1>3, <1>t, ChainAppend DEF ClientInv, WireChain
      <3>3. CASE top[d] = -1
        <4>1. NoHoles(Settled(d), queue[d], 0, Len(queue[d])) /\ Follows(Settled(d), 0, e)
          BY <3>3, <1>3, <1>2 DEF NoHoles, Follows, Settled
        <4> QED BY <4>1, <1>0, <1>2, <1>t, ChainAppend DEF ClientInv, WireChain
      <3> QED BY <3>1, <3>2, <3>3
    <2> QED BY <2>1, <2>2, <1>0, <1>1, <1>4 DEF ClientInv, WireChain
  <1>6. FromJournal(d)'
    <2>1. \A i \in 1 .. Len(Append(queue[d], e)) : Append(queue[d], e)[i] <= head
      BY <1>0, <1>2, <1>3, <1>t, AppendBound DEF ClientInv, FromJournal
    <2>2. \A i \in 1 .. Len(Tail(out[d])) : Tail(out[d])[i] <= head
      <3>1. ASSUME NEW i \in 1 .. Len(Tail(out[d])) PROVE Tail(out[d])[i] <= head
        <4>1. i + 1 \in 1 .. Len(out[d]) /\ Tail(out[d])[i] = out[d][i + 1]
          BY <1>2
        <4> QED BY <4>1, <1>0 DEF ClientInv, FromJournal
      <3> QED BY <3>1
    <2> QED BY <2>1, <2>2, <1>0, <1>1 DEF ClientInv, FromJournal, store
  <1>7. CursorKept(d)'
    <2>1. queue[d] # <<>> => Append(queue[d], e)[1] = queue[d][1]
      <3>1. /\ \A i \in 1 .. Len(queue[d]) : Append(queue[d], e)[i] = queue[d][i]
            /\ Len(queue[d]) \in Nat /\ queue[d] = <<>> <=> Len(queue[d]) = 0
        BY <1>2, <1>t, AppendFacts
      <3> QED BY <3>1
    <2>2. \A n \in base[d] + 1 .. cursor[d] :
            n \in applied[d] \/ n \in skipped[d] \/ n \in silent[d]
      BY <1>0 DEF ClientInv, CursorKept
    <2> QED BY <2>1, <2>2, <1>0, <1>1, <1>4 DEF ClientInv, CursorKept, store
  <1>8. GreetInv(d)'
    BY <1>0, <1>1 DEF ClientInv, GreetInv, store
  <1> QED BY <1>5, <1>6, <1>7, <1>8 DEF ClientInv

\* The applier takes the head of its queue away, settled by then, or writes it to
\* the stores.  The cursor may jump to it, but only over what is settled.
LEMMA ApplierKeepsClient ==
    ASSUME SyncInv, ClientTypeOK', NEW d \in Device, ApplierStep(d)
    PROVE  ClientInv(d)'
  <1>0. DeliveryTypeOK /\ ClientTypeOK /\ ClientInv(d)
    BY DEF SyncInv, DeliveryInv
  <1>t. /\ cursor[d] \in Int /\ base[d] \in Nat /\ head \in Nat /\ queue[d] \in Seq(Nat)
        /\ cursor'[d] \in Int /\ Since(d) \in Nat /\ cursor[d] \in Nat \cup {NoSince}
    <2>1. cursor[d] \in Nat \cup {NoSince} /\ cursor'[d] \in Nat \cup {NoSince}
      BY <1>0 DEF ClientTypeOK
    <2> QED BY <2>1, <1>0, DeviceTypes DEF NoSince, Since
  <1>1. /\ UNCHANGED <<head, silent, stage, since, rend, out, top, reply>>
        /\ UNCHANGED <<base, greet, asked, first, hello>>
    BY DEF ApplierStep, ApplySkips, ApplyDrops, ApplyStores, ApplyAdvances, ApplyFails,
       deliveryVars, journal, link, store, socket
  <1>2. queue[d] # <<>>
    BY <1>0 DEF ApplierStep, ApplySkips, ApplyDrops, ApplyStores, ApplyAdvances, ApplyFails,
       Queued, ClientInv, CursorKept
  <1> DEFINE e == Head(queue[d])
  <1>3. /\ Len(queue[d]) \in Nat \ {0} /\ e = queue[d][1] /\ e \in Nat
        /\ Len(Tail(queue[d])) = Len(queue[d]) - 1
        /\ \A i \in 1 .. Len(queue[d]) - 1 : Tail(queue[d])[i] = queue[d][i + 1]
    BY <1>2, <1>t, TailFacts
  <1> HIDE DEF e
  <1>4. e <= head /\ cursor[d] <= head
    BY <1>0, <1>3 DEF ClientInv, FromJournal
  <1>g. GreetInv(d)'
    BY <1>0, <1>1 DEF ClientInv, GreetInv
  \* Once the head has gone, settled, the rest of the invariant follows.
  <1>5. ASSUME queue'[d] = Tail(queue[d]), e \in Settled(d)', d \notin stored',
               applied'[d] = applied[d], skipped[d] \subseteq skipped'[d],
               cursor'[d] = cursor[d] \/ (cursor'[d] = Larger(cursor[d], e) /\ d \in stored)
        PROVE  ClientInv(d)'
    <2>1. cursor[d] <= cursor'[d] /\ base[d] <= base'[d] /\ cursor'[d] <= head
      BY <1>1, <1>3, <1>4, <1>5, <1>t DEF Larger
    <2>2. Settled(d) \subseteq Settled(d)'
      BY <2>1, <1>1, <1>5, <1>t, SettledStays
    <2>3. WireChain(d)'
      <3>1. QueueChain(Settled(d)', Tail(queue[d]))
        BY <2>2, <1>0, <1>2, <1>5, <1>t, ChainTail DEF ClientInv, WireChain, e
      <3>2. NoHoles(Settled(d)', Tail(queue[d]), top[d], Len(queue[d]) - 1)
        <4>1. /\ NoHoles(Settled(d), queue[d], top[d], Len(queue[d]))
              /\ Len(queue[d]) \in 1 .. Len(queue[d])
          BY <1>0, <1>3 DEF ClientInv, WireChain
        <4> QED BY <4>1, <2>2, <1>2, <1>5, <1>t, HeadLeaves DEF e
      <3>3. 1 .. since[d] \subseteq Settled(d)' /\ 1 .. asked[d] \subseteq Settled(d)'
        BY <2>2, <1>0 DEF ClientInv, WireChain
      <3> QED BY <3>1, <3>2, <3>3, <1>1, <1>3, <1>5 DEF WireChain
    <2>4. FromJournal(d)'
      <3>1. \A i \in 1 .. Len(Tail(queue[d])) : Tail(queue[d])[i] <= head
        <4>1. ASSUME NEW i \in 1 .. Len(Tail(queue[d])) PROVE Tail(queue[d])[i] <= head
          <5>1. i + 1 \in 1 .. Len(queue[d]) /\ Tail(queue[d])[i] = queue[d][i + 1]
            BY <1>3
          <5> QED BY <5>1, <1>0 DEF ClientInv, FromJournal
        <4> QED BY <4>1
      <3> QED BY <3>1, <2>1, <1>0, <1>1, <1>5 DEF ClientInv, FromJournal
    <2>5. CursorKept(d)'
      <3>1. ASSUME NEW n \in base[d] + 1 .. cursor'[d]
            PROVE  n \in applied[d] \/ n \in skipped[d] \/ n \in silent[d]
        <4>1. CASE n <= cursor[d]
          BY <4>1, <1>0, <1>t DEF ClientInv, CursorKept
        <4>2. CASE ~(n <= cursor[d])
          <5>1. n \in 1 .. e /\ n > base[d] /\ d \in stored
            BY <4>2, <1>3, <1>5, <1>t, SMTT(30) DEF Larger
          <5>2. CASE n = e
            BY <5>1, <5>2, <1>0, <1>3 DEF ClientInv, CursorKept
          <5>3. CASE n # e
            <6>1. NoHoles(Settled(d), queue[d], e - 1, 0)
              BY <1>0, <1>3 DEF ClientInv, WireChain, QueueChain
            <6>2. n \in Settled(d)
              BY <6>1, <5>1, <5>3, <1>3 DEF NoHoles
            <6> QED BY <6>2, <5>1, <4>2, <1>t DEF Settled
          <5> QED BY <5>2, <5>3
        <4> QED BY <4>1, <4>2
      <3> QED BY <3>1, <1>1, <1>5 DEF CursorKept
    <2> QED BY <2>3, <2>4, <2>5, <1>g DEF ClientInv
  <1>6. CASE ApplySkips(d)
    <2>1. /\ queue'[d] = Tail(queue[d]) /\ skipped'[d] = skipped[d] \cup {e}
          /\ d \notin stored' /\ UNCHANGED store
      BY <1>6, <1>0 DEF ApplySkips, Queued, ClientTypeOK, e
    <2> QED BY <2>1, <1>3, <1>5 DEF Settled, store
  <1>7. CASE ApplyDrops(d)
    <2>1. /\ queue'[d] = Tail(queue[d]) /\ skipped' = skipped /\ e <= Since(d)
          /\ d \notin stored' /\ UNCHANGED store
      BY <1>7, <1>0 DEF ApplyDrops, Queued, ClientTypeOK, e
    <2>2. e <= cursor[d] \/ e <= base[d]
      BY <2>1, <1>3, <1>t DEF Since
    <2> QED BY <2>1, <2>2, <1>3, <1>5 DEF Settled, store
  <1>8. CASE ApplyFails(d)
    <2>1. /\ queue'[d] = Tail(queue[d]) /\ skipped'[d] = skipped[d] \cup {e}
          /\ d \notin stored' /\ UNCHANGED store
      BY <1>8, <1>0 DEF ApplyFails, ClientTypeOK, e
    <2> QED BY <2>1, <1>3, <1>5 DEF Settled, store
  <1>9. CASE ApplyAdvances(d)
    <2>1. /\ queue'[d] = Tail(queue[d]) /\ skipped' = skipped /\ applied' = applied
          /\ d \notin stored' /\ d \in stored /\ cursor'[d] = Larger(cursor[d], e)
      BY <1>9, <1>0 DEF ApplyAdvances, Advanced, ClientTypeOK, e
    <2>2. e \in Settled(d)'
      BY <2>1, <1>3, <1>t DEF Settled, Larger
    <2> QED BY <2>1, <2>2, <1>5
  <1>10. CASE ApplyStores(d)
    <2>1. /\ applied'[d] = applied[d] \cup {e} /\ d \in stored'
          /\ UNCHANGED <<cursor, queue, skipped>>
      BY <1>10, <1>0 DEF ApplyStores, ClientTypeOK, e
    <2>2. WireChain(d)'
      <3>1. Settled(d)' = Settled(d)
        BY <2>1, <1>1 DEF Settled
      <3> QED BY <3>1, <2>1, <1>0, <1>1 DEF ClientInv, WireChain
    <2>3. FromJournal(d)'
      BY <2>1, <1>0, <1>1 DEF ClientInv, FromJournal
    <2>4. CursorKept(d)'
      BY <2>1, <1>0, <1>1, <1>2, <1>3 DEF ClientInv, CursorKept
    <2> QED BY <2>2, <2>3, <2>4, <1>g DEF ClientInv
  <1> QED BY <1>6, <1>7, <1>8, <1>9, <1>10 DEF ApplierStep

(***************************************************************************)
(* The induction                                                           *)
(***************************************************************************)

\* The invariant holds when everything starts.
LEMMA SyncInitially == Init => SyncInv
  <1> SUFFICES ASSUME Init PROVE SyncInv
    OBVIOUS
  <1>1. DeliveryInv
    BY DeliveryInitially DEF Init
  <1>2. ClientTypeOK
    <2>1. <<>> \in Seq(Nat)
      OBVIOUS
    <2> QED BY <2>1 DEF Init, ClientTypeOK
  <1>3. ASSUME NEW d \in Device PROVE ClientInv(d)
    <2>1. /\ cursor[d] = -1 /\ base[d] = 0 /\ skipped[d] = {} /\ applied[d] = {}
          /\ queue[d] = <<>> /\ stored = {} /\ asked[d] = 0 /\ first = {}
          /\ top[d] = -1 /\ since[d] = -1 /\ rend[d] = 0 /\ out[d] = <<>> /\ head = 0
          /\ greet[d] = "idle" /\ stage[d] = "none" /\ reply[d] = NoReply
      BY <1>3 DEF Init, DeliveryInit, NoSince, NotJoined
    <2>2. WireChain(d)
      BY <2>1 DEF WireChain, QueueChain, NoHoles
    <2>3. FromJournal(d) /\ CursorKept(d)
      BY <2>1 DEF FromJournal, CursorKept
    <2>4. GreetInv(d)
      BY <2>1 DEF GreetInv
    <2> QED BY <2>2, <2>3, <2>4 DEF ClientInv
  <1> QED BY <1>1, <1>2, <1>3 DEF SyncInv, Init

\* Without a failing apply nobody halts and nothing is given up.
LEMMA NobodyHalts ==
    ASSUME SyncInv, MaxFails = 0, [Next]_vars
    PROVE  halted' = {} /\ \A d \in Device : skipped'[d] = {}
  <1>0. halted = {} /\ fails \in Nat /\ \A d \in Device : skipped[d] = {}
    BY DEF SyncInv, ClientTypeOK
  <1>1. CASE UNCHANGED <<halted, skipped>>
    BY <1>0, <1>1
  <1>2. ASSUME NEW d \in Device, ApplySkips(d) \/ ApplyFails(d) PROVE FALSE
    BY <1>0, <1>2 DEF ApplySkips, ApplyFails
  <1>3. ASSUME NEW d \in Device, GreetResumes(d) \/ AppRestarts(d)
        PROVE  halted' = {} /\ skipped' = skipped
    BY <1>0, <1>3 DEF GreetResumes, AppRestarts
  <1>4. ASSUME NEW d \in Device, SocketStep(d), ~GreetResumes(d)
        PROVE  UNCHANGED <<halted, skipped>>
    BY <1>4 DEF SocketStep, Open, GreetReads, GreetChecks, GreetSends, ServerReplies,
       ReplyArrives, GreetAdopts, FrameArrives, Dropped, applier
  <1>5. ASSUME NEW d \in Device, ApplyDrops(d) \/ ApplyStores(d) \/ ApplyAdvances(d)
        PROVE  UNCHANGED <<halted, skipped>>
    BY <1>5 DEF ApplyDrops, ApplyStores, ApplyAdvances
  <1>6. CASE ServerAlone \/ ServerRestarts \/ UNCHANGED vars
    BY <1>6, <1>1 DEF ServerAlone, ServerRestarts, vars, clientVars, applier
  <1> QED BY <1>0, <1>1, <1>2, <1>3, <1>4, <1>5, <1>6 DEF Next, ApplierStep

\* Every step keeps the invariant.
THEOREM SyncInductive == SyncInv /\ [Next]_vars => SyncInv'
  <1> SUFFICES ASSUME SyncInv, [Next]_vars PROVE SyncInv'
    OBVIOUS
  <1>0. /\ DeliveryTypeOK /\ ClientTypeOK /\ head \in Nat
        /\ \A d \in Device : ClientInv(d)
    BY DEF SyncInv, DeliveryInv, DeliveryTypeOK
  <1>1. DeliveryInv'
    BY ServerKept
  <1>2. ASSUME ClientTypeOK', \A d \in Device : ClientInv(d)' PROVE SyncInv'
    BY <1>1, <1>2, NobodyHalts DEF SyncInv
  <1>3. CASE ServerAlone
    <2>1. ClientTypeOK'
      BY <1>0, <1>3 DEF ServerAlone, clientVars, store, applier, socket, ClientTypeOK
    <2> QED BY <2>1, <1>2, <1>3, ServerKeepsClient
  <1>4. CASE ServerRestarts
    <2>1. ClientTypeOK'
      BY <1>0, <1>4 DEF ServerRestarts, TornDown, store, applier, ClientTypeOK
    <2>2. ASSUME NEW d \in Device PROVE ClientInv(d)'
      BY <2>1, <1>4, EndKeepsClient DEF ServerRestarts, Restart, applier
    <2> QED BY <2>1, <2>2, <1>2
  <1>5. ASSUME NEW c \in Device, SocketStep(c) \/ ApplierStep(c) \/ AppRestarts(c)
        PROVE  SyncInv'
    <2>1. ClientTypeOK'
      BY <1>5, ClientTyped
    <2>2. ASSUME NEW d \in Device, d # c PROVE ClientInv(d)'
      BY <2>2, <1>0, <1>5, OtherDevices, ClientUntouched
    <2>3. ClientInv(c)'
      <3>1. CASE Open(c) \/ GreetReads(c) \/ GreetChecks(c) \/ GreetSends(c)
        BY <3>1, <2>1, GreetingKeepsClient
      <3>2. CASE ServerReplies(c) \/ ReplyArrives(c) \/ GreetResumes(c) \/ GreetAdopts(c)
        BY <3>2, <2>1, ReplyKeepsClient
      <3>3. CASE FrameArrives(c)
        BY <3>3, <2>1, FrameKeepsClient
      <3>4. CASE Dropped(c)
        <4>1. /\ Gone({c}) /\ TornDown({c}) /\ UNCHANGED <<store, skipped>>
              /\ UNCHANGED <<head, silent>> /\ queue'[c] = queue[c] /\ stored' = stored
              /\ {c} \in SUBSET Device /\ c \in {c}
          BY <3>4 DEF Dropped, Disconnect, CloseSlow, journal, applier
        <4> QED BY <4>1, <2>1, EndKeepsClient
      <3>5. CASE ApplierStep(c)
        BY <3>5, <2>1, ApplierKeepsClient
      <3>6. CASE AppRestarts(c)
        <4>1. /\ Gone({c}) /\ TornDown({c}) /\ UNCHANGED <<store, skipped>>
              /\ UNCHANGED <<head, silent>> /\ queue'[c] = <<>> /\ c \notin stored'
              /\ {c} \in SUBSET Device /\ c \in {c}
          BY <3>6, <1>0 DEF AppRestarts, journal, ClientTypeOK
        <4> QED BY <4>1, <2>1, EndKeepsClient
      <3> QED BY <1>5, <3>1, <3>2, <3>3, <3>4, <3>5, <3>6 DEF SocketStep
    <2> QED BY <2>1, <2>2, <2>3, <1>2
  <1>6. CASE UNCHANGED vars
    <2>1. ClientTypeOK'
      BY <1>0, <1>6 DEF vars, clientVars, store, applier, socket, ClientTypeOK
    <2>2. ASSUME NEW d \in Device PROVE ClientInv(d)'
      <3>1. SameFor(d) /\ head' = head
        BY <1>6 DEF vars, deliveryVars, clientVars, journal, link, store, applier, socket, SameFor
      <3> QED BY <3>1, <1>0, ClientUntouched
    <2> QED BY <2>1, <2>2, <1>2
  <1> QED BY <1>3, <1>4, <1>5, <1>6 DEF Next

\* The cursor's promise of sync_dao.dart, for every behaviour of client and server
\* together: past the bootstrap, whatever is at or below the stored cursor is in
\* the stores, was given up by an apply that failed or went unsaid by a server
\* whose dispatcher was starting - across greetings that overlap the applier,
\* replays of what is queued already, and crashes between the two writes of an
\* apply.
THEOREM CursorMeansAppliedAlways == Spec => []CursorMeansApplied
  <1>1. SyncInv => CursorMeansApplied
    BY DEF SyncInv, ClientInv, CursorKept, CursorMeansApplied
  <1> QED BY <1>1, SyncInitially, SyncInductive, PTL DEF Spec

\* What SyncService states of a failed apply, where none fails: the cursor never
\* stands past an event that the server sent and that is not in the stores.
THEOREM NoGapWithoutFailure ==
    ASSUME MaxFails = 0
    PROVE  Spec => []NoGapAfterFailure
  <1>1. SyncInv => NoGapAfterFailure
    BY DEF SyncInv, ClientInv, CursorKept, NoGapAfterFailure
  <1> QED BY <1>1, SyncInitially, SyncInductive, PTL DEF Spec

(***************************************************************************)
(* The refinement                                                          *)
(***************************************************************************)

\* The device's place in the feed, and who is on the way to a first one.
Place == [d \in Device |-> IF cursor[d] = NoSince THEN NoSince
                           ELSE Larger(cursor[d], base[d])]
OnTheWay == {d \in first : greet[d] \in {"checked", "sent", "answered", "adopting"}}
Awake == disp # "starting"

\* Where none of it changes, a step that does not publish is a stutter.
LEMMA FeedStutters ==
    ASSUME head' = head, silent' = silent, Place' = Place, OnTheWay' = OnTheWay,
           Awake' = Awake
    PROVE  [Feed!FeedNext]_(Feed!feedVars)
  BY DEF Feed!feedVars, Place, OnTheWay, Awake

\* No device's own step wakes or stops the dispatcher or publishes.
LEMMA DeviceLeavesServer ==
    ASSUME NEW c \in Device, SocketStep(c) \/ ApplierStep(c) \/ AppRestarts(c)
    PROVE  head' = head /\ silent' = silent /\ Awake' = Awake
  <1>1. UNCHANGED <<journal, dispatcher>>
    BY DEF SocketStep, Open, Accept, GreetReads, GreetChecks, GreetSends, Register,
       ServerReplies, Reply, ReplyArrives, TakeReply, GreetResumes, GreetAdopts,
       FrameArrives, TakeFrame, Dropped, Disconnect, CloseSlow, ApplierStep, ApplySkips,
       ApplyDrops, ApplyStores, ApplyAdvances, ApplyFails, AppRestarts, deliveryVars
  <1> QED BY <1>1 DEF journal, dispatcher, Awake

\* A step at one device that moves only its place.
LEMMA PlaceMoves ==
    ASSUME ClientTypeOK, ClientTypeOK', NEW c \in Device,
           \A d \in Device \ {c} : cursor'[d] = cursor[d] /\ base'[d] = base[d]
    PROVE  Place' = [Place EXCEPT ![c] = IF cursor'[c] = NoSince THEN NoSince
                                         ELSE Larger(cursor'[c], base'[c])]
  BY DEF Place

\* With nothing given up, what is settled past the place went unsaid.
LEMMA SettledEnds ==
    ASSUME NEW d \in Device, DeliveryTypeOK, ClientTypeOK, skipped[d] = {}, NEW e \in Nat,
           NoHoles(Settled(d), queue[d], e - 1, 0)
    PROVE  Larger(cursor[d], base[d]) + 1 .. e - 1 \subseteq silent[d]
  <1>1. cursor[d] \in Int /\ base[d] \in Nat
    BY DeviceTypes
  <1> SUFFICES ASSUME NEW k \in Larger(cursor[d], base[d]) + 1 .. e - 1
               PROVE  k \in silent[d]
    OBVIOUS
  <1>2. k \in 1 .. e - 1 /\ k > cursor[d] /\ k > base[d]
    BY <1>1 DEF Larger
  <1>3. k \in Settled(d)
    BY <1>2 DEF NoHoles
  <1> QED BY <1>1, <1>2, <1>3 DEF Settled

\* A greeting of device c is a step of the feed: setting out, settling, or nothing.
LEMMA GreetingRefines ==
    ASSUME SyncInv, SyncInv', NEW c \in Device, SocketStep(c)
    PROVE  [Feed!FeedNext]_(Feed!feedVars)
  <1>s. head' = head /\ silent' = silent /\ Awake' = Awake
    BY DeviceLeavesServer
  <1>0. /\ DeliveryTypeOK /\ ClientTypeOK /\ ClientInv(c) /\ StageInv(c) /\ GreetInv(c)
        /\ ClientTypeOK' /\ base[c] <= head /\ cursor[c] <= head
    BY DEF SyncInv, DeliveryInv, LinkInv, ClientInv, FromJournal
  <1>t. /\ cursor[c] \in Nat \cup {NoSince} /\ base[c] \in Nat /\ head \in Nat
        /\ hello[c] \in Nat
    BY <1>0 DEF ClientTypeOK, DeliveryTypeOK
  <1>1. CASE Open(c) \/ FrameArrives(c)
    <2>1. head' = head /\ UNCHANGED <<cursor, base, greet, first>>
      BY <1>1 DEF Open, Accept, FrameArrives, TakeFrame, journal, store
    <2> QED BY <2>1, FeedStutters, <1>s DEF Place, OnTheWay
  <1>2. CASE GreetReads(c) \/ GreetSends(c) \/ ReplyArrives(c) \/ GreetResumes(c)
    <2>1. head' = head /\ UNCHANGED <<cursor, base, first>>
      BY <1>2 DEF GreetReads, GreetSends, ReplyArrives, GreetResumes, Register, TakeReply,
         deliveryVars, journal, store
    <2>2. /\ \A d \in Device \ {c} : greet'[d] = greet[d]
          /\ c \in first => greet[c] \in {"checked", "sent", "answered"}
          /\ c \in first => greet'[c] \in {"sent", "answered", "adopting"}
      <3>1. CASE GreetReads(c)
        BY <3>1, <1>0 DEF GreetReads, ClientTypeOK, GreetInv
      <3>2. CASE GreetSends(c)
        BY <3>2, <1>0 DEF GreetSends, ClientTypeOK
      <3>3. CASE ReplyArrives(c)
        BY <3>3, <1>0 DEF ReplyArrives, TakeReply, ClientTypeOK, GreetInv
      <3>4. CASE GreetResumes(c)
        BY <3>4, <1>0 DEF GreetResumes, ClientTypeOK
      <3> QED BY <1>2, <3>1, <3>2, <3>3, <3>4
    <2>3. first \subseteq Device
      BY <1>0 DEF ClientTypeOK
    <2>4. OnTheWay' = OnTheWay
      BY <2>1, <2>2, <2>3 DEF OnTheWay
    <2> QED BY <2>1, <2>4, FeedStutters, <1>s DEF Place
  <1>3. CASE GreetChecks(c)
    <2>1. /\ head' = head /\ UNCHANGED <<cursor, base>>
          /\ greet[c] = "read" /\ greet'[c] = "checked" /\ c \notin first
          /\ first' = IF cursor[c] = NoSince THEN first \cup {c} ELSE first
          /\ \A d \in Device \ {c} : greet'[d] = greet[d]
          /\ first \subseteq Device
      BY <1>3, <1>0 DEF GreetChecks, deliveryVars, journal, store, ClientTypeOK, GreetInv
    <2>2. CASE cursor[c] = NoSince
      <3>1. OnTheWay' = OnTheWay \cup {c}
        BY <2>1, <2>2 DEF OnTheWay
      <3>2. Place' = Place /\ Place[c] = NoSince
        BY <2>1, <2>2 DEF Place
      <3>3. Feed!SetOut(c)
        BY <3>1, <3>2, <2>1, <1>s DEF Awake, Feed!SetOut, Feed!Nowhere, NoSince, Place, OnTheWay
      <3> QED BY <3>3 DEF Feed!FeedNext
    <2>3. CASE cursor[c] # NoSince
      <3>1. OnTheWay' = OnTheWay /\ Place' = Place
        BY <2>1, <2>3 DEF OnTheWay, Place
      <3> QED BY <3>1, <2>1, FeedStutters, <1>s
    <2> QED BY <2>2, <2>3
  <1>4. CASE ServerReplies(c)
    <2>1. /\ head' = head /\ UNCHANGED <<cursor, greet, first>> /\ stage[c] = "registered"
          /\ base' = [base EXCEPT ![c] = IF since[c] = NoSince THEN head ELSE base[c]]
          /\ OnTheWay' = OnTheWay
      BY <1>4 DEF ServerReplies, Reply, journal, socket, OnTheWay
    <2>2. /\ base'[c] = IF since[c] = NoSince THEN head ELSE base[c]
          /\ \A d \in Device \ {c} : cursor'[d] = cursor[d] /\ base'[d] = base[d]
      BY <2>1, <1>0 DEF ClientTypeOK
    <2>3. CASE since[c] # NoSince
      <3>1. Place' = Place
        BY <2>1, <2>2, <2>3 DEF Place
      <3> QED BY <3>1, <2>1, FeedStutters, <1>s
    <2>4. CASE cursor[c] = NoSince
      <3>1. Place' = Place
        BY <2>1, <2>2, <2>4 DEF Place
      <3> QED BY <3>1, <2>1, FeedStutters, <1>s
    <2>5. CASE since[c] = NoSince /\ cursor[c] # NoSince
      <3>1. c \in OnTheWay
        BY <2>1, <2>5, <1>0 DEF GreetInv, OnTheWay
      <3>2. Larger(cursor'[c], base'[c]) = head
        BY <2>1, <2>2, <2>5, <1>0, <1>t DEF Larger
      <3>3. Place' = [Place EXCEPT ![c] = head]
        BY <2>1, <2>2, <2>5, <3>2, <1>0, PlaceMoves
      <3>4. Place[c] <= head
        BY <2>5, <1>0, <1>t DEF Place, Larger
      <3>5. Feed!Settle(c)
        <4>1. head \in 0 .. head
          BY <1>t
        <4> QED BY <4>1, <3>1, <3>3, <3>4, <2>1, <1>s DEF Awake, Feed!Settle, Place, OnTheWay
      <3> QED BY <3>5 DEF Feed!FeedNext
    <2> QED BY <2>3, <2>4, <2>5
  <1>5. CASE GreetAdopts(c)
    <2>1. /\ head' = head /\ UNCHANGED <<base, first>>
          /\ greet[c] = "adopting" /\ greet'[c] = "done" /\ first \subseteq Device
          /\ cursor'[c] = Larger(cursor[c], hello[c])
          /\ \A d \in Device \ {c} : greet'[d] = greet[d] /\ cursor'[d] = cursor[d]
      BY <1>5, <1>0 DEF GreetAdopts, Advanced, deliveryVars, journal, ClientTypeOK
    <2>2. c \in OnTheWay /\ OnTheWay' = OnTheWay \ {c}
      BY <2>1, <1>0 DEF OnTheWay, GreetInv
    <2>3. hello[c] <= base[c]
      BY <2>1, <1>0 DEF GreetInv
    <2> DEFINE p == Larger(cursor'[c], base[c])
    <2>4. p \in 0 .. head /\ p >= Place[c] /\ cursor'[c] # NoSince
      BY <2>1, <2>3, <1>0, <1>t DEF Larger, Place, NoSince
    <2>5. Place' = [Place EXCEPT ![c] = p]
      BY <2>1, <2>4, <1>0, PlaceMoves
    <2> HIDE DEF p
    <2>6. Feed!Settle(c)
      BY <2>1, <2>2, <2>4, <2>5, <1>s DEF Awake, Feed!Settle, Place, OnTheWay
    <2> QED BY <2>6 DEF Feed!FeedNext
  <1>6. CASE Dropped(c)
    <2>1. head' = head /\ UNCHANGED <<cursor, base>> /\ TornDown({c})
      BY <1>6 DEF Dropped, Disconnect, CloseSlow, journal, store
    <2>2. Place' = Place /\ OnTheWay' = OnTheWay \ (OnTheWay \cap {c})
      BY <2>1, <1>0 DEF Place, OnTheWay, TornDown, ClientTypeOK
    <2>3. Feed!GiveUp
      BY <2>1, <2>2, <1>s DEF Awake, Feed!GiveUp, Place, OnTheWay
    <2> QED BY <2>3 DEF Feed!FeedNext
  <1> QED BY <1>1, <1>2, <1>3, <1>4, <1>5, <1>6 DEF SocketStep

\* The place after an event is the one before, or the event.
LEMMA OneOn ==
    ASSUME NEW a \in Nat, NEW b \in Nat, NEW e \in Nat, NEW h \in Nat,
           a <= h, b <= h, e <= h
    PROVE  /\ Larger(Larger(a, e), b) \in 0 .. h
           /\ Larger(Larger(a, e), b) >= Larger(a, b) /\ Larger(a, b) \in Int
           /\ Larger(Larger(a, e), b) # Larger(a, b)
                => Larger(Larger(a, e), b) = e /\ e \in Larger(a, b) + 1 .. h
  <1>1. CASE a > b
    BY <1>1 DEF Larger
  <1>2. CASE a <= b
    BY <1>2 DEF Larger
  <1> QED BY <1>1, <1>2

\* An apply moves its device to its event, or nowhere: whatever is between the
\* place and the event went unsaid.
LEMMA ApplierRefines ==
    ASSUME SyncInv, SyncInv', MaxFails = 0, NEW c \in Device, ApplierStep(c)
    PROVE  [Feed!FeedNext]_(Feed!feedVars)
  <1>s. head' = head /\ silent' = silent /\ Awake' = Awake
    BY DeviceLeavesServer
  <1>0. /\ DeliveryTypeOK /\ ClientTypeOK /\ ClientInv(c) /\ ClientTypeOK'
        /\ base[c] <= head /\ cursor[c] <= head /\ skipped[c] = {}
    BY DEF SyncInv, DeliveryInv, ClientInv, FromJournal
  <1>t. /\ cursor[c] \in Nat \cup {NoSince} /\ base[c] \in Nat /\ head \in Nat
        /\ queue[c] \in Seq(Nat)
    BY <1>0 DEF ClientTypeOK, DeliveryTypeOK
  <1>1. head' = head /\ UNCHANGED <<base, greet, first>> /\ OnTheWay' = OnTheWay
    BY DEF ApplierStep, ApplySkips, ApplyDrops, ApplyStores, ApplyAdvances, ApplyFails,
       deliveryVars, journal, store, socket, OnTheWay
  <1>2. CASE ~ApplyAdvances(c)
    <2>1. cursor' = cursor
      BY <1>2 DEF ApplierStep, ApplySkips, ApplyDrops, ApplyStores, ApplyFails, store
    <2>2. Place' = Place
      BY <2>1, <1>1 DEF Place
    <2> QED BY <2>2, <1>1, FeedStutters, <1>s
  <1>3. CASE ApplyAdvances(c)
    <2> DEFINE e == Head(queue[c])
    <2>1. /\ cursor'[c] = Larger(cursor[c], e) /\ c \in stored
          /\ \A d \in Device \ {c} : cursor'[d] = cursor[d] /\ base'[d] = base[d]
      BY <1>1, <1>3, <1>0 DEF ApplyAdvances, Advanced, ClientTypeOK
    <2>2. /\ e = queue[c][1] /\ e \in Nat /\ Len(queue[c]) \in Nat \ {0}
      BY <2>1, <1>0, <1>t, TailFacts DEF ClientInv, CursorKept
    <2> HIDE DEF e
    <2>3. e <= head /\ Larger(cursor[c], base[c]) + 1 .. e - 1 \subseteq silent[c]
      <3>1. 1 \in 1 .. Len(queue[c])
        BY <2>2
      <3>2. e <= head
        BY <3>1, <2>2, <1>0 DEF ClientInv, FromJournal
      <3>3. NoHoles(Settled(c), queue[c], e - 1, 0)
        BY <3>1, <2>2, <1>0 DEF ClientInv, WireChain, QueueChain
      <3> QED BY <3>2, <3>3, <2>2, <1>0, SettledEnds
    <2> DEFINE p == Larger(Larger(cursor[c], e), base[c])
    <2>4. /\ p \in 0 .. head /\ p >= Place[c] /\ cursor'[c] # NoSince
          /\ cursor[c] # NoSince /\ p # Place[c]
               => p \in Place[c] + 1 .. head /\ Place[c] + 1 .. p - 1 \subseteq silent[c]
          /\ Place[c] \in Int
      <3>1. Place[c] = IF cursor[c] = NoSince THEN NoSince ELSE Larger(cursor[c], base[c])
        BY DEF Place
      <3>2. CASE cursor[c] = NoSince
        BY <3>1, <3>2, <2>1, <2>2, <2>3, <1>0, <1>t, SMTT(30) DEF Larger, NoSince
      <3>3. CASE cursor[c] \in Nat
        <4>1. Place[c] = Larger(cursor[c], base[c]) /\ cursor'[c] # NoSince
          BY <3>1, <3>3, <2>1, <2>2 DEF Larger, NoSince
        <4>2. /\ p \in 0 .. head /\ p >= Larger(cursor[c], base[c])
              /\ p # Larger(cursor[c], base[c])
                   => p = e /\ e \in Larger(cursor[c], base[c]) + 1 .. head
              /\ Larger(cursor[c], base[c]) \in Int
          <5>1. /\ cursor[c] \in Nat /\ base[c] \in Nat /\ e \in Nat /\ head \in Nat
                /\ cursor[c] <= head /\ base[c] <= head /\ e <= head
            BY <3>3, <2>2, <2>3, <1>0, <1>t
          <5> QED BY ONLY <5>1, OneOn DEF p
        <4> HIDE DEF p
        <4> QED BY <4>1, <4>2, <2>3
      <3> QED BY <3>2, <3>3, <1>t
    <2>5. Place' = [Place EXCEPT ![c] = p]
      BY <2>1, <2>4, <1>0, <1>1, PlaceMoves
    <2> HIDE DEF p
    <2>6. CASE cursor[c] = NoSince
      <3>1. Place[c] = NoSince
        BY <2>6 DEF Place
      <3>2. Feed!Settle(c)
        BY <3>1, <2>4, <2>5, <1>1, <1>s DEF Awake, Feed!Settle, Feed!Nowhere, NoSince, Place, OnTheWay
      <3> QED BY <3>2 DEF Feed!FeedNext
    <2>7. CASE cursor[c] # NoSince /\ p = Place[c]
      <3>1. Place' = Place
        BY <2>5, <2>7 DEF Place
      <3> QED BY <3>1, <1>1, FeedStutters, <1>s
    <2>8. CASE cursor[c] # NoSince /\ p # Place[c]
      <3>1. Place[c] # NoSince
        BY <2>8, <1>t DEF Place, Larger, NoSince
      <3>2. Feed!WorkThrough(c)
        BY <3>1, <2>4, <2>5, <2>8, <1>1, <1>s
           DEF Feed!WorkThrough, Feed!Nowhere, NoSince, Place, OnTheWay, Awake
      <3> QED BY <3>2 DEF Feed!FeedNext
    <2> QED BY <2>4, <2>6, <2>7, <2>8
  <1> QED BY <1>2, <1>3

\* Every step of client and server is a step of the feed or changes none of it.
THEOREM SyncStepRefines ==
    ASSUME MaxFails = 0, SyncInv, SyncInv', [Next]_vars
    PROVE  [Feed!FeedNext]_(Feed!feedVars)
  <1>1. CASE ServerAlone /\ Commit
    <2>1. Place' = Place /\ OnTheWay' = OnTheWay
      BY <1>1 DEF ServerAlone, clientVars, store, socket, Place, OnTheWay
    <2> DEFINE D == {d \in Device : Unheard(d)}
    <2>2. /\ head < MaxSeq /\ head' = head + 1 /\ Awake' = Awake
          /\ D \in SUBSET Device /\ (Awake => D = {})
          /\ silent' = [d \in Device |-> IF d \in D THEN silent[d] \cup {head + 1}
                                        ELSE silent[d]]
      BY <1>1 DEF Commit, dispatcher, Awake, Unheard
    <2> HIDE DEF D
    <2>3. Feed!Publish
      BY <2>1, <2>2 DEF Feed!Publish, Place, OnTheWay, Awake
    <2> QED BY <2>3 DEF Feed!FeedNext
  <1>6. CASE ServerAlone /\ FirstRead
    <2>1. Place' = Place /\ OnTheWay' = OnTheWay
      BY <1>6 DEF ServerAlone, clientVars, store, socket, Place, OnTheWay
    <2>2. head' = head /\ silent' = silent /\ Awake'
      BY <1>6 DEF FirstRead, journal, Awake
    <2>3. Feed!WakeUp
      BY <2>1, <2>2 DEF Feed!WakeUp, Place, OnTheWay, Awake
    <2> QED BY <2>3 DEF Feed!FeedNext
  <1>2. CASE ServerAlone /\ ~Commit /\ ~FirstRead
    <2>1. Place' = Place /\ OnTheWay' = OnTheWay
      BY <1>2 DEF ServerAlone, clientVars, store, socket, Place, OnTheWay
    <2>2. head' = head /\ silent' = silent /\ Awake' = Awake
      BY <1>2 DEF ServerAlone, Kick, TakeKick, ReadBatch, BackToSelect, ReadFails, Broadcast,
         ServerWorks, ReadReplay, SendReplay, StartForward, Forward, journal, dispatcher,
         Awake, Waiting
    <2> QED BY <2>1, <2>2, FeedStutters
  <1>3. CASE ServerRestarts
    <2>1. /\ head' = head /\ silent' = silent /\ ~Awake'
          /\ UNCHANGED <<cursor, base>> /\ first' = first \ Device
      BY <1>3 DEF ServerRestarts, Restart, TornDown, store, Awake
    <2>2. Place' = Place /\ OnTheWay' = {}
      BY <2>1 DEF Place, OnTheWay, SyncInv, ClientTypeOK
    <2>3. Feed!FallAsleep
      BY <2>1, <2>2 DEF Awake, Feed!FallAsleep, Place, OnTheWay
    <2> QED BY <2>3 DEF Feed!FeedNext
  <1>4. ASSUME NEW c \in Device, AppRestarts(c)
        PROVE  [Feed!FeedNext]_(Feed!feedVars)
    <2>1. head' = head /\ UNCHANGED <<cursor, base>> /\ TornDown({c})
      BY <1>4 DEF AppRestarts, journal, store
    <2>2. Place' = Place /\ OnTheWay' = OnTheWay \ (OnTheWay \cap {c})
      BY <2>1 DEF Place, OnTheWay, TornDown, SyncInv, ClientTypeOK
    <2>3. Feed!GiveUp
      BY <1>4, <2>1, <2>2, DeviceLeavesServer DEF Awake, Feed!GiveUp, Place, OnTheWay
    <2> QED BY <2>3 DEF Feed!FeedNext
  <1>5. CASE UNCHANGED vars
    <2>1. /\ head' = head /\ silent' = silent /\ Awake' = Awake
          /\ Place' = Place /\ OnTheWay' = OnTheWay
      BY <1>5 DEF vars, deliveryVars, journal, dispatcher, clientVars, store, socket,
         Place, OnTheWay, Awake
    <2> QED BY <2>1, FeedStutters
  <1> QED BY <1>1, <1>2, <1>6, <1>3, <1>4, <1>5, GreetingRefines, ApplierRefines DEF Next

\* As long as no apply fails, journal, dispatcher, hub, greeting, replay and applier
\* implement the feed: every device works through the journal in order, event by
\* event, from the place it settled at, and is led past none but those that
\* committed before the dispatcher's first read.
THEOREM SyncRefinesFeed ==
    ASSUME MaxFails = 0
    PROVE  Spec => WorksThroughTheFeed
  <1>1. Init => Feed!FeedInit
    BY DEF Init, DeliveryInit, Feed!FeedInit, Feed!Nowhere, NoSince
  <1>2. SyncInv /\ SyncInv' /\ [Next]_vars => [Feed!FeedNext]_(Feed!feedVars)
    BY SyncStepRefines
  <1> QED BY <1>1, <1>2, SyncInitially, SyncInductive, PTL
          DEF Spec, WorksThroughTheFeed, Feed!FeedSpec
=============================================================================
