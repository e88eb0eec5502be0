--------------------------- MODULE DeliveryProofs ---------------------------
(***************************************************************************)
(* WireNeverSkips and NoLostKick for every set of devices, every buffer    *)
(* size and every length of the journal.                                   *)
(*                                                                         *)
(* WireNeverSkips is about the front of a connection's outbound queue, and *)
(* what makes it true lies behind: the frames follow one another without a *)
(* jump from the last one taken to the end of the queue, from there to the *)
(* replay rows still to be sent, from the last replay row to the head of   *)
(* the subscriber's buffer, and from its end to the next event the         *)
(* dispatcher will broadcast.  DeliveryInv states that chain link by link. *)
(* A dispatcher that has not made its first read will start behind the     *)
(* journal's end, wherever that is by then; the events that commit until   *)
(* then are the only ones a link may be missing, and `silent' holds them.  *)
(***************************************************************************)
EXTENDS Delivery, SequenceTheorems, TLAPS

\* The last frame ahead of whatever is queued next on d's connection.
LastOut(d) == IF out[d] = <<>> THEN top[d] ELSE out[d][Len(out[d])]

\* Behind n, e leaves out nothing but what went unsaid, the set s.
Follows(s, n, e) == \A k \in n + 1 .. e - 1 : k \in s

\* What has been broadcast, or will never be.
Begun == IF disp = "starting" THEN head ELSE last

\* What the subscriber of d still holds, or will be given, continues from n.
Continues(d, n) ==
    /\ sub[d] # <<>> => Follows(silent[d], n, sub[d][1])
    /\ sub[d] = <<>> /\ d \in subs => Follows(silent[d], n, Begun + 1)

\* The dispatcher is never ahead of the journal.
DispatcherInv ==
    /\ last <= head
    /\ disp = "cast" => last < end /\ end <= head

\* Consecutive frames of the queue, from the last frame taken on.
OutChain(d) ==
    \A i \in 1 .. Len(out[d]) :
      Follows(silent[d], IF i = 1 THEN top[d] ELSE out[d][i - 1], out[d][i])

\* The buffer holds consecutive broadcasts, up to the last one while open.
SubChain(d) ==
    /\ disp = "starting" => sub[d] = <<>>
    /\ \A i \in 1 .. Len(sub[d]) :
         /\ sub[d][i] <= last
         /\ i > 1 => sub[d][i] <= sub[d][i - 1] + 1
    /\ d \in subs /\ sub[d] # <<>> => sub[d][Len(sub[d])] = last

\* Where a connection stands says what is behind its queue.
StageInv(d) ==
    /\ stage[d] \in {"none", "open"} => d \notin subs /\ sub[d] = <<>>
    /\ stage[d] \in {"none", "open", "registered"} => out[d] = <<>> /\ top[d] = NotJoined
    /\ stage[d] \in {"none", "open", "registered"} => reply[d] = NoReply
    /\ stage[d] = "replied" => /\ out[d] = <<>>
                               /\ since[d] # NoSince => top[d] = since[d]
                               /\ since[d] = NoSince => Continues(d, top[d])
    /\ stage[d] = "replay" /\ since[d] = NoSince
         => rnext[d] > rend[d] /\ Continues(d, LastOut(d))
    /\ stage[d] = "replay" /\ since[d] # NoSince
         => /\ Continues(d, rend[d])
            /\ rnext[d] <= LastOut(d) + 1
    /\ stage[d] = "live" => Continues(d, LastOut(d))

LinkInv(d) == OutChain(d) /\ SubChain(d) /\ StageInv(d)

DeliveryInv ==
    /\ DeliveryTypeOK
    /\ DispatcherInv
    /\ NoLostKick
    /\ \A d \in Device : LinkInv(d)

\* What Head and Tail do, element by element.
LEMMA TailFacts ==
    ASSUME NEW S, NEW s \in Seq(S), s # <<>>
    PROVE  /\ Len(s) \in Nat \ {0}
           /\ Head(s) = s[1] /\ s[1] \in S
           /\ Tail(s) \in Seq(S)
           /\ Len(Tail(s)) = Len(s) - 1
           /\ \A i \in 1 .. Len(s) - 1 : Tail(s)[i] = s[i + 1]
           /\ Tail(s) = <<>> <=> Len(s) = 1
  <1>1. Len(s) \in Nat \ {0}
    BY EmptySeq
  <1>2. Head(s) = s[1] /\ s[1] \in S
    BY <1>1, ElementOfSeq
  <1>3. /\ Tail(s) \in Seq(S)
        /\ Len(Tail(s)) = Len(s) - 1
        /\ \A i \in 1 .. Len(s) - 1 : Tail(s)[i] = s[i + 1]
    BY HeadTailProperties
  <1>4. Tail(s) = <<>> <=> Len(s) = 1
    BY <1>1, <1>3, EmptySeq, SMTT(30)
  <1> QED BY <1>1, <1>2, <1>3, <1>4

\* The same read the other way round.
LEMMA TailShift ==
    ASSUME NEW S, NEW s \in Seq(S), s # <<>>, NEW i \in 2 .. Len(s)
    PROVE  Tail(s)[i - 1] = s[i]
  <1>1. Len(s) \in Nat /\ \A k \in 1 .. Len(s) - 1 : Tail(s)[k] = s[k + 1]
    BY TailFacts
  <1>2. i - 1 \in 1 .. Len(s) - 1 /\ (i - 1) + 1 = i
    BY <1>1
  <1> QED BY <1>1, <1>2

\* What Append does, element by element.
LEMMA AppendFacts ==
    ASSUME NEW s \in Seq(Nat), NEW e \in Nat
    PROVE  /\ Append(s, e) \in Seq(Nat) /\ Append(s, e) # <<>>
           /\ Len(Append(s, e)) = Len(s) + 1 /\ Len(s) \in Nat
           /\ \A i \in 1 .. Len(s) : Append(s, e)[i] = s[i] /\ s[i] \in Nat
           /\ Append(s, e)[Len(s) + 1] = e
           /\ s = <<>> <=> Len(s) = 0
  BY AppendProperties, EmptySeq

\* The elements of a sequence, and what makes it empty.
LEMMA SeqFacts ==
    ASSUME NEW S, NEW s \in Seq(S)
    PROVE  /\ Len(s) \in Nat
           /\ s = <<>> <=> Len(s) = 0
           /\ \A i \in 1 .. Len(s) : s[i] \in S
  BY EmptySeq, LenProperties, ElementOfSeq

\* What is at most one past n follows it, and what went unsaid may be passed over.
LEMMA FollowsFacts ==
    ASSUME NEW n \in Int, NEW e \in Int, NEW s
    PROVE  /\ e <= n + 1 => Follows(s, n, e)
           /\ Follows(s, n, e) /\ e \in s => Follows(s, n, e + 1)
  BY DEF Follows

\* A connection no step touches keeps its invariant.
LEMMA LinkUntouched ==
    ASSUME NEW d \in Device, LinkInv(d), DeliveryTypeOK,
           last' = last, Begun' = Begun, silent'[d] = silent[d],
           disp' = "starting" => disp = "starting",
           stage'[d] = stage[d], since'[d] = since[d], (d \in subs') <=> (d \in subs),
           sub'[d] = sub[d], rnext'[d] = rnext[d], rend'[d] = rend[d],
           out'[d] = out[d], reply'[d] = reply[d], top'[d] = top[d]
    PROVE  LinkInv(d)'
  <1>1. OutChain(d)' /\ SubChain(d)'
    BY DEF LinkInv, OutChain, SubChain
  <1>2. ASSUME NEW n PROVE Continues(d, n) => Continues(d, n)'
    BY DEF Continues
  <1>3. LastOut(d)' = LastOut(d)
    BY DEF LastOut
  <1>4. StageInv(d)'
    BY <1>3 DEF LinkInv, StageInv, Continues
  <1> QED BY <1>1, <1>4 DEF LinkInv

\* The invariant holds when the server starts with no connection.
THEOREM DeliveryInitially == DeliveryInit => DeliveryInv
  <1> SUFFICES ASSUME DeliveryInit PROVE DeliveryInv
    OBVIOUS
  <1>1. DeliveryTypeOK
    <2>1. <<>> \in Seq(Nat) /\ Len(<<>>) = 0
      OBVIOUS
    <2> QED BY <2>1, DeliveryAssumption
        DEF DeliveryInit, DeliveryTypeOK, Stages, Waiting
  <1>2. DispatcherInv /\ NoLostKick
    BY DEF DeliveryInit, DispatcherInv, NoLostKick
  <1>3. ASSUME NEW d \in Device PROVE LinkInv(d)
    BY <1>3 DEF DeliveryInit, LinkInv, OutChain, SubChain, StageInv, Continues
  <1> QED BY <1>1, <1>2, <1>3 DEF DeliveryInv

\* Connections that end, by whatever cause, leave the invariant standing.
LEMMA GoneKeepsInv ==
    ASSUME DeliveryInv, NEW D \in SUBSET Device, Gone(D),
           UNCHANGED <<head, silent>>,
           \/ UNCHANGED <<owed, dispatcher>>
           \/ /\ D = Device /\ owed' = 0 /\ kick' = 0 /\ disp' = "starting"
              /\ last' = 0 /\ end' = 0,
           faults' \in Nat
    PROVE  DeliveryInv'
  <1> USE DEF DeliveryInv
  <1>1. DeliveryTypeOK'
    <2>1. <<>> \in Seq(Nat) /\ Len(<<>>) = 0
      OBVIOUS
    <2> QED BY <2>1, DeliveryAssumption, SMTT(30)
        DEF DeliveryTypeOK, Gone, Stages, Waiting, dispatcher
  <1>2. DispatcherInv' /\ NoLostKick'
    BY DEF DispatcherInv, NoLostKick, dispatcher, DeliveryTypeOK
  <1>3. ASSUME NEW d \in Device PROVE LinkInv(d)'
    <2>1. CASE d \in D
      BY <2>1 DEF Gone, LinkInv, OutChain, SubChain, StageInv, Continues
    <2>2. CASE d \notin D
      <3>1. UNCHANGED <<owed, dispatcher>>
        BY <2>2
      <3>2. /\ last' = last /\ Begun' = Begun /\ disp' = disp /\ silent' = silent
            /\ stage'[d] = stage[d] /\ since'[d] = since[d] /\ sub'[d] = sub[d]
            /\ rnext'[d] = rnext[d] /\ rend'[d] = rend[d] /\ out'[d] = out[d]
            /\ reply'[d] = reply[d] /\ top'[d] = top[d]
            /\ d \in subs' <=> d \in subs
        BY <2>2, <3>1 DEF Gone, dispatcher, Begun
      <3> QED BY <3>2, LinkUntouched
    <2> QED BY <2>1, <2>2
  <1> QED BY <1>1, <1>2, <1>3

\* A broadcast: each open buffer is extended by exactly the next event, or its
\* subscriber is gone.
LEMMA BroadcastKeepsInv == DeliveryInv /\ Broadcast => DeliveryInv'
  <1> SUFFICES ASSUME DeliveryInv, Broadcast PROVE DeliveryInv'
    OBVIOUS
  <1> USE DEF DeliveryInv
  <1>0. /\ last + 1 \in Nat /\ last \in Nat /\ end \in Nat /\ head \in Nat
        /\ sub \in [Device -> Seq(Nat)] /\ subs \subseteq Device
    BY DEF DeliveryTypeOK
  <1>1. ASSUME NEW d \in Device
        PROVE  /\ sub'[d] \in Seq(Nat) /\ Len(sub'[d]) <= SubCap
               /\ d \in subs' <=> d \in subs /\ HasRoom(d)
    <2>1. sub[d] \in Seq(Nat) /\ Len(sub[d]) \in Nat /\ Len(sub[d]) <= SubCap
      BY <1>0, <1>1, SeqFacts DEF DeliveryTypeOK
    <2>2. d \in subs' <=> d \in subs /\ HasRoom(d)
      BY DEF Broadcast, StaysSubscribed
    <2>3. CASE d \in subs /\ HasRoom(d)
      <3>1. sub'[d] = Append(sub[d], last + 1)
        BY <2>3 DEF Broadcast
      <3> QED BY <1>0, <2>1, <2>2, <2>3, <3>1, AppendFacts, DeliveryAssumption DEF HasRoom
    <2>4. CASE ~(d \in subs /\ HasRoom(d))
      BY <2>1, <2>2, <2>4 DEF Broadcast
    <2> QED BY <2>3, <2>4
  <1>2. DeliveryTypeOK'
    <2>1. sub' \in [Device -> Seq(Nat)]
      BY <1>1 DEF Broadcast
    <2> QED BY <1>0, <1>1, <2>1
        DEF DeliveryTypeOK, Broadcast, StaysSubscribed, journal, Waiting
  <1>3. DispatcherInv' /\ NoLostKick'
    BY <1>0 DEF Broadcast, DispatcherInv, NoLostKick, journal
  <1>b. Begun = last /\ Begun' = last + 1 /\ disp' # "starting" /\ silent' = silent
    BY DEF Broadcast, Begun, journal
  <1>4. ASSUME NEW d \in Device PROVE LinkInv(d)'
    <2> USE DEF LinkInv
    <2>0. /\ LinkInv(d) /\ sub[d] \in Seq(Nat) /\ SubCap \in Nat \ {0}
          /\ stage'[d] = stage[d] /\ since'[d] = since[d] /\ out'[d] = out[d]
          /\ rnext'[d] = rnext[d] /\ rend'[d] = rend[d] /\ top'[d] = top[d]
          /\ reply'[d] = reply[d] /\ head' = head /\ last' = last + 1
      BY <1>0, DeliveryAssumption DEF Broadcast, journal
    <2>1. OutChain(d)'
      BY <2>0, <1>b DEF OutChain
    <2>2. CASE d \in subs /\ HasRoom(d)
      <3>1. /\ sub'[d] = Append(sub[d], last + 1)
            /\ d \in subs'
        BY <2>2, <1>1 DEF Broadcast
      <3>2. /\ Len(sub'[d]) = Len(sub[d]) + 1 /\ Len(sub[d]) \in Nat
            /\ \A i \in 1 .. Len(sub[d]) : sub'[d][i] = sub[d][i] /\ sub[d][i] \in Nat
            /\ sub'[d][Len(sub[d]) + 1] = last + 1
            /\ sub'[d] # <<>>
            /\ sub[d] = <<>> <=> Len(sub[d]) = 0
        BY <3>1, <2>0, <1>0, AppendFacts, SMTT(30)
      <3>3. SubChain(d)'
        BY <3>1, <3>2, <2>0, <2>2, <1>0, <1>b DEF SubChain
      <3>4. ASSUME NEW n \in Int, Continues(d, n)
            PROVE  Continues(d, n)'
        <4>1. Follows(silent[d], n, sub'[d][1])
          BY <3>4, <3>1, <3>2, <2>0, <2>2, <1>0, <1>b DEF Continues
        <4> QED BY <4>1, <3>2, <1>b DEF Continues
      <3>5. StageInv(d)'
        <4>1. rend[d] \in Int /\ top[d] \in Int /\ LastOut(d) \in Int
          BY SeqFacts DEF DeliveryTypeOK, LastOut, NotJoined
        <4>2. stage[d] \notin {"none", "open"}
          BY <2>0, <2>2 DEF StageInv
        <4>3. LastOut(d)' = LastOut(d)
          BY <2>0 DEF LastOut
        <4> QED BY <4>1, <4>2, <4>3, <3>4, <2>0 DEF StageInv
      <3> QED BY <2>1, <3>3, <3>5
    <2>3. CASE ~(d \in subs /\ HasRoom(d))
      <3>1. sub'[d] = sub[d] /\ d \notin subs'
        BY <2>3, <1>1 DEF Broadcast
      <3>2. SubChain(d)'
        BY <3>1, <2>0, <1>0, <1>b, SeqFacts DEF SubChain
      <3>3. StageInv(d)'
        BY <3>1, <2>0, <1>b DEF StageInv, Continues, LastOut
      <3> QED BY <2>1, <3>2, <3>3
    <2> QED BY <2>2, <2>3
  <1> QED BY <1>2, <1>3, <1>4

\* The steps of the journal and of the dispatcher between its broadcasts.
LEMMA DispatcherKeepsInv ==
    ASSUME DeliveryInv, Kick \/ TakeKick \/ ReadBatch \/ BackToSelect \/ ReadFails
    PROVE  DeliveryInv'
  <1> USE DEF DeliveryInv
  <1>1. /\ UNCHANGED <<link, last, head, silent>>
        /\ disp # "starting" => disp' # "starting"
        /\ Begun' = Begun
    BY DEF Kick, TakeKick, ReadBatch, BackToSelect, ReadFails, Begun, Waiting,
           journal, dispatcher
  <1>2. DeliveryTypeOK'
    <2>1. /\ owed' \in Nat /\ kick' \in 0 .. 1 /\ end' \in Nat /\ faults' \in Nat
          /\ disp' \in Waiting \cup {"starting", "read", "empty", "cast"}
      BY DEF Kick, TakeKick, ReadBatch, BackToSelect, ReadFails,
             journal, dispatcher, DeliveryTypeOK, Waiting
    <2> QED BY <1>1, <2>1 DEF DeliveryTypeOK, link
  <1>3. DispatcherInv'
    BY <1>1 DEF Kick, TakeKick, ReadBatch, BackToSelect, ReadFails,
                journal, dispatcher, DeliveryTypeOK, DispatcherInv, Waiting
  <1>4. NoLostKick'
    BY <1>1 DEF Kick, TakeKick, ReadBatch, BackToSelect, ReadFails,
                journal, dispatcher, DeliveryTypeOK, DispatcherInv, NoLostKick, Waiting
  <1>5. ASSUME NEW d \in Device PROVE LinkInv(d)'
    BY <1>1, LinkUntouched DEF link
  <1> QED BY <1>2, <1>3, <1>4, <1>5

\* The dispatcher's first read: it starts behind everything committed by then.
LEMMA FirstReadKeepsInv == DeliveryInv /\ FirstRead => DeliveryInv'
  <1> SUFFICES ASSUME DeliveryInv, FirstRead PROVE DeliveryInv'
    OBVIOUS
  <1> USE DEF DeliveryInv
  <1>1. /\ UNCHANGED <<head, silent, owed, kick, end, link, faults>>
        /\ disp = "starting" /\ disp' = "idle" /\ last' = head /\ head \in Nat
        /\ Begun' = Begun
    BY DEF FirstRead, journal, Begun, DeliveryTypeOK
  <1>2. DeliveryTypeOK' /\ DispatcherInv' /\ NoLostKick'
    BY <1>1 DEF DeliveryTypeOK, DispatcherInv, NoLostKick, link, Waiting
  <1>3. ASSUME NEW d \in Device PROVE LinkInv(d)'
    <2>1. /\ stage' = stage /\ since' = since /\ subs' = subs /\ sub' = sub
          /\ rnext' = rnext /\ rend' = rend /\ out' = out /\ reply' = reply
          /\ top' = top /\ silent' = silent
      BY <1>1 DEF link
    <2>2. LinkInv(d) /\ sub[d] = <<>> /\ Len(<<>>) = 0
      BY <1>1 DEF LinkInv, SubChain
    <2>3. OutChain(d)' /\ SubChain(d)'
      BY <2>1, <2>2, <1>1 DEF LinkInv, OutChain, SubChain
    <2>4. StageInv(d)'
      BY <2>1, <2>2, <1>1 DEF LinkInv, StageInv, Continues, LastOut
    <2> QED BY <2>3, <2>4 DEF LinkInv
  <1> QED BY <1>2, <1>3

\* A commit: the dispatcher will broadcast it, or it is put down as unsaid to
\* every subscriber of a dispatcher that has not started.
LEMMA CommitKeepsInv == DeliveryInv /\ Commit => DeliveryInv'
  <1> SUFFICES ASSUME DeliveryInv, Commit PROVE DeliveryInv'
    OBVIOUS
  <1> USE DEF DeliveryInv
  <1>1. /\ UNCHANGED <<dispatcher, link, faults>> /\ UNCHANGED <<disp, last, kick, end>>
        /\ head \in Nat /\ head' = head + 1 /\ owed' = owed + 1 /\ owed \in Nat
        /\ last \in Nat /\ end \in Nat
        /\ silent \in [Device -> SUBSET Nat]
        /\ silent' = [d \in Device |-> IF Unheard(d) THEN silent[d] \cup {head + 1}
                                       ELSE silent[d]]
    BY DEF Commit, dispatcher, DeliveryTypeOK
  <1>2. DeliveryTypeOK'
    <2>1. silent' \in [Device -> SUBSET Nat]
      BY <1>1
    <2> QED BY <1>1, <2>1 DEF DeliveryTypeOK, link
  <1>3. DispatcherInv' /\ NoLostKick'
    BY <1>1 DEF DispatcherInv, NoLostKick
  <1>4. ASSUME NEW d \in Device PROVE LinkInv(d)'
    <2>1. /\ stage' = stage /\ since' = since /\ subs' = subs /\ sub' = sub
          /\ rnext' = rnext /\ rend' = rend /\ out' = out /\ reply' = reply
          /\ top' = top /\ LinkInv(d)
      BY <1>1 DEF link
    <2>2. CASE disp # "starting"
      <3>1. Begun' = Begun /\ silent'[d] = silent[d]
        BY <2>2, <1>1 DEF Begun, Unheard
      <3> QED BY <3>1, <2>1, <1>1, LinkUntouched
    <2>3. CASE disp = "starting"
      <3>1. /\ Begun = head /\ Begun' = head + 1 /\ sub[d] = <<>>
            /\ silent[d] \subseteq silent'[d]
            /\ d \in subs => head + 1 \in silent'[d]
        BY <2>1, <2>3, <1>1 DEF Begun, Unheard, LinkInv, SubChain
      <3>2. ASSUME NEW n \in Int, Continues(d, n) PROVE Continues(d, n)'
        <4>1. CASE d \in subs
          <5>1. Follows(silent[d], n, head + 1)
            BY <3>1, <3>2, <4>1 DEF Continues
          <5>2. Follows(silent'[d], n, head + 1)
            BY <5>1, <3>1 DEF Follows
          <5>3. Follows(silent'[d], n, (head + 1) + 1)
            BY <5>2, <3>1, <4>1, <1>1, FollowsFacts
          <5> QED BY <5>3, <3>1, <2>1 DEF Continues
        <4>2. CASE d \notin subs
          BY <4>2, <3>1, <2>1 DEF Continues
        <4> QED BY <4>1, <4>2
      <3>3. OutChain(d)'
        BY <3>1, <2>1 DEF LinkInv, OutChain, Follows
      <3>4. SubChain(d)'
        BY <2>1, <1>1 DEF LinkInv, SubChain
      <3>5. StageInv(d)'
        <4>1. rend[d] \in Int /\ top[d] \in Int /\ LastOut(d) \in Int
          BY SeqFacts DEF DeliveryTypeOK, LastOut, NotJoined
        <4>2. LastOut(d)' = LastOut(d)
          BY <2>1 DEF LastOut
        <4> QED BY <4>1, <4>2, <3>2, <2>1 DEF LinkInv, StageInv
      <3> QED BY <3>3, <3>4, <3>5 DEF LinkInv
    <2> QED BY <2>2, <2>3
  <1> QED BY <1>2, <1>3, <1>4

\* A step of one connection leaves the others alone.
LEMMA OthersUntouched ==
    ASSUME DeliveryInv, NEW c \in Device, NEW d \in Device, d # c,
           \/ Accept(c) \/ (\E n \in {NoSince} \cup Nat : Register(c, n))
           \/ Reply(c) \/ ReadReplay(c) \/ SendReplay(c) \/ StartForward(c)
           \/ Forward(c) \/ TakeReply(c) \/ TakeFrame(c)
    PROVE  LinkInv(d)'
  <1>1. /\ last' = last /\ head' = head /\ disp' = disp /\ silent' = silent
        /\ stage'[d] = stage[d] /\ since'[d] = since[d] /\ sub'[d] = sub[d]
        /\ rnext'[d] = rnext[d] /\ rend'[d] = rend[d] /\ out'[d] = out[d]
        /\ reply'[d] = reply[d] /\ top'[d] = top[d]
        /\ d \in subs' <=> d \in subs
    <2>0. head \in Nat /\ stage \in [Device -> Stages] /\ sub \in [Device -> Seq(Nat)]
      BY DEF DeliveryInv, DeliveryTypeOK
    <2>1. CASE Accept(c)
      BY <2>0, <2>1 DEF Accept, journal, dispatcher, DeliveryInv, DeliveryTypeOK
    <2>2. CASE Reply(c)
      BY <2>0, <2>2 DEF Reply, journal, dispatcher, DeliveryInv, DeliveryTypeOK
    <2>3. CASE ReadReplay(c)
      BY <2>0, <2>3 DEF ReadReplay, journal, dispatcher, DeliveryInv, DeliveryTypeOK
    <2>4. CASE SendReplay(c)
      BY <2>0, <2>4 DEF SendReplay, journal, dispatcher, DeliveryInv, DeliveryTypeOK
    <2>5. CASE StartForward(c)
      BY <2>0, <2>5 DEF StartForward, journal, dispatcher, DeliveryInv, DeliveryTypeOK
    <2>6. CASE Forward(c)
      BY <2>0, <2>6 DEF Forward, journal, dispatcher, DeliveryInv, DeliveryTypeOK
    <2>7. CASE TakeReply(c)
      BY <2>0, <2>7 DEF TakeReply, journal, dispatcher, DeliveryInv, DeliveryTypeOK
    <2>8. CASE TakeFrame(c)
      BY <2>0, <2>8 DEF TakeFrame, journal, dispatcher, DeliveryInv, DeliveryTypeOK
    <2>9. CASE \E n \in {NoSince} \cup Nat : Register(c, n)
      BY <2>0, <2>9 DEF Register, journal, dispatcher, DeliveryInv, DeliveryTypeOK
    <2> QED BY <2>1, <2>2, <2>3, <2>4, <2>5, <2>6, <2>7, <2>8, <2>9
  <1>2. Begun' = Begun
    BY <1>1 DEF Begun
  <1> QED BY <1>1, <1>2, LinkUntouched DEF DeliveryInv

\* A step that leaves the journal and the dispatcher alone.
LEMMA DispatcherUntouched ==
    ASSUME DeliveryInv, UNCHANGED <<journal, dispatcher>>
    PROVE  DispatcherInv' /\ NoLostKick'
  BY DEF DeliveryInv, DispatcherInv, NoLostKick, journal, dispatcher

\* The handshake up to the replay: who is subscribed before the cursor is read
\* continues from it.
LEMMA HandshakeKeepsInv ==
    ASSUME DeliveryInv, NEW d \in Device,
           \/ Accept(d) \/ (\E n \in {NoSince} \cup Nat : Register(d, n))
           \/ Reply(d) \/ ReadReplay(d)
    PROVE  DeliveryInv'
  <1> USE DEF DeliveryInv
  <1>1. DeliveryTypeOK'
    <2>1. CASE Accept(d)
      BY <2>1 DEF Accept, journal, dispatcher, DeliveryTypeOK, NoSince, Stages
    <2>2. CASE \E n \in {NoSince} \cup Nat : Register(d, n)
      BY <2>2 DEF Register, journal, dispatcher, DeliveryTypeOK, NoSince, Stages
    <2>3. CASE Reply(d)
      BY <2>3 DEF Reply, journal, dispatcher, DeliveryTypeOK, NoSince, Stages
    <2>4. CASE ReadReplay(d)
      BY <2>4, SMTT(30) DEF ReadReplay, journal, dispatcher, DeliveryTypeOK, NoSince, Stages
    <2> QED BY <2>1, <2>2, <2>3, <2>4
  <1>2. DispatcherInv' /\ NoLostKick'
    BY DispatcherUntouched DEF Accept, Register, Reply, ReadReplay
  <1>3. LinkInv(d)'
    <2>0. /\ LinkInv(d) /\ last <= head /\ sub[d] \in Seq(Nat) /\ out[d] \in Seq(Nat)
          /\ head \in Nat /\ last \in Nat /\ since[d] \in Nat \cup {NoSince}
      BY DEF DispatcherInv, DeliveryTypeOK
    <2>1. \A i \in 1 .. Len(sub[d]) : sub[d][i] <= last /\ sub[d][i] \in Nat
      BY <2>0, SeqFacts DEF LinkInv, SubChain
    <2>2. sub[d] # <<>> => sub[d][1] <= head /\ sub[d][1] \in Nat
      BY <2>0, <2>1, SeqFacts
    <2>b. /\ silent' = silent /\ disp' = disp /\ Begun' = Begun /\ head' = head
          /\ last' = last /\ Begun \in Nat /\ Begun <= head
      BY <2>0 DEF Accept, Register, Reply, ReadReplay, journal, dispatcher, Begun
    <2>c. Continues(d, head)
      <3>1. /\ sub[d] # <<>> => Follows(silent[d], head, sub[d][1])
            /\ Follows(silent[d], head, Begun + 1)
        BY <2>0, <2>2, <2>b DEF Follows
      <3> QED BY <3>1 DEF Continues
    <2>3. OutChain(d)' /\ SubChain(d)'
      <3>1. /\ out' = out /\ sub' = sub /\ last' = last
            /\ (top'[d] = top[d] \/ out[d] = <<>>)
        BY <2>0 DEF Accept, Register, Reply, ReadReplay, dispatcher, LinkInv, StageInv
      <3>2. OutChain(d)'
        BY <3>1, <2>0, <2>b, SeqFacts DEF OutChain, LinkInv
      <3>3. SubChain(d)'
        <4>1. CASE sub[d] = <<>>
          BY <4>1, <3>1, SeqFacts, <2>0, <2>b DEF SubChain
        <4>2. CASE sub[d] # <<>>
          <5>1. (d \in subs') <=> (d \in subs)
            BY <4>2, <2>0 DEF Accept, Register, Reply, ReadReplay, LinkInv, StageInv
          <5> QED BY <5>1, <3>1, <2>0, <2>b DEF SubChain, LinkInv
        <4> QED BY <4>1, <4>2
      <3> QED BY <3>2, <3>3
    <2>4. StageInv(d)'
      <3>1. CASE Accept(d)
        BY <3>1, <2>0 DEF Accept, StageInv, LinkInv, journal, dispatcher, DeliveryTypeOK
      <3>2. CASE \E n \in {NoSince} \cup Nat : Register(d, n)
        BY <3>2, <2>0 DEF Register, StageInv, LinkInv, journal, dispatcher,
                          DeliveryTypeOK, NoSince
      <3>3. CASE Reply(d)
        <4>1. /\ stage'[d] = "replied" /\ since' = since /\ subs' = subs /\ sub' = sub
              /\ out[d] = <<>> /\ out' = out /\ reply'[d] # NoReply
              /\ top'[d] = IF since[d] = NoSince THEN head ELSE since[d]
          BY <3>3, <2>0 DEF Reply, StageInv, LinkInv, DeliveryTypeOK, NoReply
        <4>2. Continues(d, head)'
          BY <4>1, <2>b, <2>c DEF Continues
        <4>3. since[d] = NoSince => Continues(d, top[d])'
          BY <4>1, <4>2, <2>b DEF Continues
        <4> QED BY <4>1, <4>3 DEF StageInv
      <3>4. CASE ReadReplay(d)
        <4>1. /\ stage[d] = "replied" /\ stage'[d] = "replay" /\ since' = since
              /\ subs' = subs /\ sub' = sub /\ out[d] = <<>> /\ out' = out /\ top' = top
              /\ rend'[d] = head
              /\ rnext'[d] = IF since[d] = NoSince THEN head + 1 ELSE since[d] + 1
          BY <3>4, <2>0 DEF ReadReplay, StageInv, LinkInv, DeliveryTypeOK
        <4>2. LastOut(d)' = top[d] /\ rnext'[d] \in Nat
          BY <4>1, <2>0 DEF LastOut, NoSince
        <4>3. CASE since[d] = NoSince
          <5>1. Continues(d, top[d])
            BY <4>1, <4>3, <2>0 DEF StageInv, LinkInv
          <5>2. Continues(d, LastOut(d))'
            BY <5>1, <4>1, <4>2, <2>b DEF Continues
          <5> QED BY <5>2, <4>1, <4>3, <2>0 DEF StageInv
        <4>4. CASE since[d] # NoSince
          <5>1. Continues(d, rend[d])'
            BY <4>1, <2>b, <2>c DEF Continues
          <5>2. top[d] = since[d] /\ since[d] \in Nat
            BY <4>1, <4>4, <2>0 DEF StageInv, LinkInv
          <5> QED BY <5>1, <5>2, <4>1, <4>2, <4>4 DEF StageInv
        <4> QED BY <4>3, <4>4
      <3> QED BY <3>1, <3>2, <3>3, <3>4
    <2> QED BY <2>3, <2>4 DEF LinkInv
  <1>4. ASSUME NEW e \in Device PROVE LinkInv(e)'
    BY <1>3, OthersUntouched
  <1> QED BY <1>1, <1>2, <1>4

\* A frame that follows the last one lengthens the chain.
LEMMA OutChainAppend ==
    ASSUME NEW d \in Device, NEW e \in Nat, out[d] \in Seq(Nat),
           top[d] \in Int, top'[d] = top[d], silent'[d] = silent[d], OutChain(d),
           Follows(silent[d], LastOut(d), e), out'[d] = Append(out[d], e)
    PROVE  OutChain(d)' /\ out'[d] # <<>> /\ out'[d][Len(out'[d])] = e
  <1>1. /\ Len(out'[d]) = Len(out[d]) + 1 /\ Len(out[d]) \in Nat
        /\ \A i \in 1 .. Len(out[d]) : out'[d][i] = out[d][i] /\ out[d][i] \in Nat
        /\ out'[d][Len(out[d]) + 1] = e /\ out'[d] # <<>>
        /\ out[d] = <<>> <=> Len(out[d]) = 0
    BY AppendFacts, SMTT(30)
  <1>2. ASSUME NEW i \in 1 .. Len(out'[d])
        PROVE  Follows(silent[d], IF i = 1 THEN top[d] ELSE out'[d][i - 1], out'[d][i])
    <2>1. CASE i = Len(out[d]) + 1
      <3>1. CASE Len(out[d]) = 0
        BY <3>1, <2>1, <1>1 DEF LastOut
      <3>2. CASE Len(out[d]) # 0
        <4>1. i - 1 = Len(out[d]) /\ i # 1 /\ Len(out[d]) \in 1 .. Len(out[d])
          BY <3>2, <2>1, <1>1
        <4>2. LastOut(d) = out[d][Len(out[d])]
          BY <3>2, <1>1 DEF LastOut
        <4>3. out'[d][i - 1] = LastOut(d) /\ out'[d][i] = e
          BY <4>1, <4>2, <2>1, <1>1
        <4> QED BY <4>1, <4>3
      <3> QED BY <3>1, <3>2
    <2>2. CASE i # Len(out[d]) + 1
      <3>1. i \in 1 .. Len(out[d]) /\ (i # 1 => i - 1 \in 1 .. Len(out[d]))
        BY <2>2, <1>1
      <3>2. out'[d][i] = out[d][i] /\ (i # 1 => out'[d][i - 1] = out[d][i - 1])
        BY <3>1, <1>1
      <3>3. Follows(silent[d], IF i = 1 THEN top[d] ELSE out[d][i - 1], out[d][i])
        BY <3>1 DEF OutChain
      <3> QED BY <3>2, <3>3
    <2> QED BY <2>1, <2>2
  <1>3. OutChain(d)'
    BY <1>2 DEF OutChain
  <1> QED BY <1>1, <1>3

\* What continues from a frame continues from every later one.
LEMMA ContinuesFromLater ==
    ASSUME NEW d \in Device, NEW m \in Int, NEW n \in Int, m <= n, Begun \in Nat,
           sub[d] # <<>> => sub[d][1] \in Nat, Continues(d, m)
    PROVE  Continues(d, n)
  <1>1. sub[d] # <<>> => Follows(silent[d], n, sub[d][1])
    BY DEF Continues, Follows
  <1>2. sub[d] = <<>> /\ d \in subs => Follows(silent[d], n, Begun + 1)
    BY DEF Continues, Follows
  <1> QED BY <1>1, <1>2 DEF Continues

\* Queueing the replay and handing over to the live stream.
LEMMA ReplayKeepsInv ==
    ASSUME DeliveryInv, NEW d \in Device, SendReplay(d) \/ StartForward(d)
    PROVE  DeliveryInv'
  <1> USE DEF DeliveryInv
  <1>0. /\ LinkInv(d) /\ sub[d] \in Seq(Nat) /\ out[d] \in Seq(Nat)
        /\ rnext[d] \in Nat /\ rend[d] \in Nat /\ top[d] \in Int /\ LastOut(d) \in Int
        /\ since[d] \in Int /\ head \in Nat /\ Len(out[d]) <= OutCap
    BY SeqFacts DEF DeliveryTypeOK, LastOut, NotJoined, NoSince
  <1>1. DeliveryTypeOK'
    <2>1. CASE SendReplay(d)
      <3>1. Append(out[d], rnext[d]) \in Seq(Nat) /\ Len(Append(out[d], rnext[d])) <= OutCap
        BY <1>0, <2>1, AppendFacts, DeliveryAssumption DEF SendReplay
      <3> QED BY <3>1, <1>0, <2>1, SMTT(30) DEF SendReplay, journal, dispatcher, DeliveryTypeOK
    <2>2. CASE StartForward(d)
      BY <2>2 DEF StartForward, journal, dispatcher, DeliveryTypeOK, Stages
    <2> QED BY <2>1, <2>2
  <1>2. DispatcherInv' /\ NoLostKick'
    BY DispatcherUntouched DEF SendReplay, StartForward
  <1>3. LinkInv(d)'
    <2>1. CASE SendReplay(d)
      <3>1. /\ out'[d] = Append(out[d], rnext[d]) /\ rnext'[d] = rnext[d] + 1
            /\ stage[d] = "replay" /\ stage' = stage /\ since' = since /\ subs' = subs
            /\ sub' = sub /\ rend' = rend /\ top' = top /\ last' = last /\ head' = head
            /\ rnext[d] <= rend[d] /\ silent' = silent /\ disp' = disp /\ Begun' = Begun
        BY <2>1 DEF SendReplay, journal, dispatcher, DeliveryTypeOK, Begun
      <3>2. since[d] # NoSince /\ rnext[d] <= LastOut(d) + 1 /\ Continues(d, rend[d])
        BY <3>1, <1>0 DEF LinkInv, StageInv
      <3>3. OutChain(d)' /\ out'[d] # <<>> /\ out'[d][Len(out'[d])] = rnext[d]
        <4>1. Follows(silent[d], LastOut(d), rnext[d])
          BY <3>2, <1>0, FollowsFacts
        <4> QED BY <4>1, <3>1, <1>0, OutChainAppend DEF LinkInv
      <3>4. SubChain(d)'
        BY <3>1, <1>0 DEF LinkInv, SubChain
      <3>5. LastOut(d)' = rnext[d]
        BY <3>3 DEF LastOut
      <3>6. Continues(d, rend[d])'
        BY <3>1, <3>2 DEF Continues
      <3>7. StageInv(d)'
        BY <3>1, <3>2, <3>5, <3>6, <1>0 DEF StageInv
      <3> QED BY <3>3, <3>4, <3>7 DEF LinkInv
    <2>2. CASE StartForward(d)
      <3>1. /\ out' = out /\ stage'[d] = "live" /\ since' = since /\ subs' = subs
            /\ sub' = sub /\ top' = top /\ last' = last /\ head' = head
            /\ stage[d] = "replay" /\ rnext[d] > rend[d]
            /\ silent' = silent /\ disp' = disp /\ Begun' = Begun
        BY <2>2 DEF StartForward, journal, dispatcher, DeliveryTypeOK, Begun
      <3>2. OutChain(d)' /\ SubChain(d)'
        BY <3>1, <1>0 DEF LinkInv, OutChain, SubChain
      <3>3. Continues(d, LastOut(d))
        <4>1. CASE since[d] = NoSince
          BY <4>1, <3>1, <1>0 DEF LinkInv, StageInv
        <4>2. CASE since[d] # NoSince
          <5>1. Continues(d, rend[d]) /\ rend[d] <= LastOut(d)
            BY <4>2, <3>1, <1>0 DEF LinkInv, StageInv
          <5>2. sub[d] # <<>> => sub[d][1] \in Nat
            BY <1>0, SeqFacts
          <5>3. Begun \in Nat
            BY DEF DeliveryTypeOK, Begun
          <5>4. rend[d] \in Int /\ LastOut(d) \in Int
            BY <1>0
          <5> QED BY <5>1, <5>2, <5>3, <5>4, ContinuesFromLater
        <4> QED BY <4>1, <4>2
      <3>4. StageInv(d)'
        BY <3>1, <3>3, <1>0 DEF LinkInv, StageInv, LastOut, Continues
      <3> QED BY <3>2, <3>4 DEF LinkInv
    <2> QED BY <2>1, <2>2
  <1>4. ASSUME NEW e \in Device PROVE LinkInv(e)'
    BY <1>3, OthersUntouched
  <1> QED BY <1>1, <1>2, <1>4

\* A live frame moves on, or is lost together with the forwarder.
LEMMA ForwardKeepsInv ==
    ASSUME DeliveryInv, NEW d \in Device, Forward(d)
    PROVE  DeliveryInv'
  <1> USE DEF DeliveryInv
  <1>0. /\ LinkInv(d) /\ sub[d] \in Seq(Nat) /\ out[d] \in Seq(Nat)
        /\ top[d] \in Int /\ LastOut(d) \in Int /\ last \in Nat
        /\ Len(out[d]) <= OutCap /\ Len(sub[d]) <= SubCap
    BY SeqFacts DEF DeliveryTypeOK, LastOut, NotJoined
  <1>1. /\ sub[d] # <<>> /\ stage[d] = "live"
        /\ sub' = [sub EXCEPT ![d] = Tail(sub[d])] /\ sub'[d] = Tail(sub[d])
        /\ since' = since /\ subs' = subs /\ rnext' = rnext /\ rend' = rend
        /\ reply' = reply /\ top' = top /\ head' = head /\ last' = last
        /\ silent' = silent /\ disp' = disp /\ Begun = last /\ Begun' = last
    BY <1>0 DEF Forward, journal, dispatcher, DeliveryTypeOK, LinkInv, SubChain, Begun
  <1>2. /\ Len(sub[d]) \in Nat \ {0} /\ Head(sub[d]) = sub[d][1] /\ sub[d][1] \in Nat
        /\ sub'[d] \in Seq(Nat) /\ Len(sub'[d]) = Len(sub[d]) - 1
        /\ \A i \in 1 .. Len(sub[d]) - 1 : sub'[d][i] = sub[d][i + 1]
        /\ sub'[d] = <<>> <=> Len(sub[d]) = 1
    BY <1>0, <1>1, TailFacts
  <1>3. \A i \in 1 .. Len(sub[d]) : sub[d][i] \in Nat
    BY <1>0, SeqFacts
  <1>4. DeliveryTypeOK'
    <2>0. /\ sub' \in [Device -> Seq(Nat)]
          /\ \A e \in Device : Len(sub'[e]) <= SubCap
      <3>1. sub' \in [Device -> Seq(Nat)]
        BY <1>1, <1>2 DEF DeliveryTypeOK
      <3>2. ASSUME NEW e \in Device PROVE Len(sub'[e]) <= SubCap
        <4>1. CASE e = d
          BY <4>1, <1>0, <1>2, DeliveryAssumption
        <4>2. CASE e # d
          BY <4>2, <1>1 DEF DeliveryTypeOK
        <4> QED BY <4>1, <4>2
      <3> QED BY <3>1, <3>2
    <2>1. /\ out' \in [Device -> Seq(Nat)]
          /\ \A e \in Device : Len(out'[e]) <= OutCap
      <3>1. CASE Len(out[d]) < OutCap
        <4>1. /\ Append(out[d], Head(sub[d])) \in Seq(Nat)
              /\ Len(Append(out[d], Head(sub[d]))) <= OutCap
          BY <1>0, <1>2, <3>1, AppendFacts, DeliveryAssumption
        <4>2. out' = [out EXCEPT ![d] = Append(out[d], Head(sub[d]))]
          BY <3>1 DEF Forward
        <4> QED BY <4>1, <4>2 DEF DeliveryTypeOK
      <3>2. CASE ~(Len(out[d]) < OutCap)
        BY <3>2 DEF Forward, DeliveryTypeOK
      <3> QED BY <3>1, <3>2
    <2>2. stage' \in [Device -> Stages] /\ doomed' \subseteq Device
      BY DEF Forward, DeliveryTypeOK, Stages
    <2> QED BY <1>1, <2>0, <2>1, <2>2 DEF Forward, journal, dispatcher, DeliveryTypeOK
  <1>5. DispatcherInv' /\ NoLostKick'
    BY DispatcherUntouched DEF Forward
  <1>6. SubChain(d)'
    <2>1. SubChain(d)
      BY <1>0 DEF LinkInv
    <2>2. ASSUME NEW i \in 1 .. Len(sub'[d])
          PROVE  /\ sub'[d][i] <= last'
                 /\ i > 1 => sub'[d][i] <= sub'[d][i - 1] + 1
      <3>1. /\ i \in 1 .. Len(sub[d]) - 1 /\ i + 1 \in 1 .. Len(sub[d])
            /\ i > 1 => i - 1 \in 1 .. Len(sub[d]) - 1
        BY <1>2
      <3>2. /\ sub'[d][i] = sub[d][i + 1]
            /\ i > 1 => sub'[d][i - 1] = sub[d][i]
        BY <1>0, <1>1, <1>2, <3>1, TailShift
      <3>3. sub[d][i + 1] <= last /\ sub[d][i + 1] <= sub[d][i] + 1
        BY <2>1, <3>1 DEF SubChain
      <3> QED BY <3>2, <3>3, <1>1
    <2>3. d \in subs' /\ sub'[d] # <<>> => sub'[d][Len(sub'[d])] = last'
      <3>1. sub'[d] # <<>> => sub'[d][Len(sub[d]) - 1] = sub[d][Len(sub[d])]
        <4>1. sub'[d] # <<>> => Len(sub[d]) \in 2 .. Len(sub[d])
          BY <1>2
        <4> QED BY <4>1, <1>0, <1>1, TailShift
      <3> QED BY <3>1, <2>1, <1>1, <1>2 DEF SubChain
    <2> QED BY <2>1, <2>2, <2>3, <1>1 DEF SubChain
  <1>7. CASE Len(out[d]) < OutCap
    <2>1. out'[d] = Append(out[d], sub[d][1]) /\ stage' = stage
      BY <1>0, <1>2, <1>7 DEF Forward, DeliveryTypeOK
    <2>2. Continues(d, LastOut(d))
      BY <1>0, <1>1 DEF LinkInv, StageInv
    <2>3. OutChain(d)' /\ out'[d] # <<>> /\ out'[d][Len(out'[d])] = sub[d][1]
      BY <2>1, <2>2, <1>0, <1>1, <1>2, OutChainAppend DEF LinkInv, Continues
    <2>4. Continues(d, LastOut(d))'
      <3>1. /\ sub'[d] # <<>> => sub'[d][1] \in Nat /\ sub'[d][1] <= sub[d][1] + 1
            /\ sub'[d] = <<>> /\ d \in subs' => last + 1 <= sub[d][1] + 1
        BY <1>0, <1>1, <1>2, <1>3 DEF LinkInv, SubChain
      <3>2. /\ sub'[d] # <<>> => Follows(silent[d], sub[d][1], sub'[d][1])
            /\ sub'[d] = <<>> /\ d \in subs' => Follows(silent[d], sub[d][1], last + 1)
        <4>1. sub[d][1] \in Int /\ last + 1 \in Int
          BY <1>0, <1>2
        <4>2. ASSUME NEW k \in Int, k <= sub[d][1] + 1
              PROVE  Follows(silent[d], sub[d][1], k)
          BY ONLY <4>1, <4>2 DEF Follows
        <4> QED BY <3>1, <4>1, <4>2
      <3>3. LastOut(d)' = sub[d][1]
        BY <2>3 DEF LastOut
      <3> QED BY <3>2, <3>3, <1>1 DEF Continues
    <2>5. StageInv(d)'
      BY <2>1, <2>4, <1>0, <1>1 DEF LinkInv, StageInv
    <2> QED BY <2>3, <2>5, <1>4, <1>5, <1>6, OthersUntouched DEF LinkInv
  <1>8. CASE ~(Len(out[d]) < OutCap)
    <2>1. out' = out /\ stage'[d] = "ended"
      BY <1>0, <1>8 DEF Forward, DeliveryTypeOK
    <2>2. OutChain(d)' /\ StageInv(d)'
      BY <2>1, <1>0, <1>1 DEF LinkInv, OutChain, StageInv
    <2> QED BY <2>2, <1>4, <1>5, <1>6, OthersUntouched DEF LinkInv
  <1> QED BY <1>7, <1>8

\* The peer takes a frame: the chain starts one frame later.
LEMMA TakeKeepsInv ==
    ASSUME DeliveryInv, NEW d \in Device, TakeReply(d) \/ TakeFrame(d)
    PROVE  DeliveryInv'
  <1> USE DEF DeliveryInv
  <1>0. /\ LinkInv(d) /\ sub[d] \in Seq(Nat) /\ out[d] \in Seq(Nat)
        /\ top[d] \in Int /\ Len(out[d]) <= OutCap
    BY DEF DeliveryTypeOK, NotJoined
  <1>1. DispatcherInv' /\ NoLostKick'
    BY DispatcherUntouched DEF TakeReply, TakeFrame
  <1>2. CASE TakeReply(d)
    <2>1. DeliveryTypeOK'
      BY <1>2 DEF TakeReply, journal, dispatcher, DeliveryTypeOK
    <2>2. LinkInv(d)'
      <3>1. /\ out' = out /\ stage' = stage /\ since' = since /\ subs' = subs
            /\ sub' = sub /\ top' = top /\ last' = last /\ head' = head
            /\ rnext' = rnext /\ rend' = rend /\ silent' = silent /\ disp' = disp
            /\ reply[d] # NoReply /\ reply'[d] = NoReply /\ Begun' = Begun
        BY <1>2 DEF TakeReply, journal, dispatcher, DeliveryTypeOK, Begun
      <3> QED BY <3>1, <1>0 DEF LinkInv, OutChain, SubChain, StageInv, Continues, LastOut
    <2> QED BY <1>1, <2>1, <2>2, <1>2, OthersUntouched
  <1>3. CASE TakeFrame(d)
    <2>1. /\ out[d] # <<>> /\ out' = [out EXCEPT ![d] = Tail(out[d])]
          /\ out'[d] = Tail(out[d]) /\ top'[d] = Head(out[d])
          /\ stage' = stage /\ since' = since /\ subs' = subs /\ reply' = reply
          /\ sub' = sub /\ last' = last /\ head' = head
          /\ rnext' = rnext /\ rend' = rend /\ silent' = silent /\ disp' = disp
          /\ Begun' = Begun
      BY <1>3 DEF TakeFrame, journal, dispatcher, DeliveryTypeOK, Begun
    <2>2. /\ Len(out[d]) \in Nat \ {0} /\ Head(out[d]) = out[d][1] /\ out[d][1] \in Nat
          /\ out'[d] \in Seq(Nat) /\ Len(out'[d]) = Len(out[d]) - 1
          /\ \A i \in 1 .. Len(out[d]) - 1 : out'[d][i] = out[d][i + 1]
          /\ out'[d] = <<>> <=> Len(out[d]) = 1
      BY <1>0, <2>1, TailFacts, ZenonT(30)
    <2>3. DeliveryTypeOK'
      <3>1. out' \in [Device -> Seq(Nat)] /\ top' \in [Device -> Nat \cup {NotJoined}]
        BY <1>3, <2>1, <2>2 DEF TakeFrame, DeliveryTypeOK
      <3>2. ASSUME NEW e \in Device PROVE Len(out'[e]) <= OutCap
        <4>1. CASE e = d
          BY <4>1, <1>0, <2>2, DeliveryAssumption
        <4>2. CASE e # d
          BY <4>2, <2>1 DEF DeliveryTypeOK
        <4> QED BY <4>1, <4>2
      <3> QED BY <1>3, <3>1, <3>2 DEF TakeFrame, journal, dispatcher, DeliveryTypeOK
    <2>4. OutChain(d)'
      <3>1. OutChain(d)
        BY <1>0 DEF LinkInv
      <3>2. ASSUME NEW i \in 1 .. Len(out'[d])
            PROVE  Follows(silent[d], IF i = 1 THEN top'[d] ELSE out'[d][i - 1], out'[d][i])
        <4>1. /\ i \in 1 .. Len(out[d]) - 1 /\ i + 1 \in 1 .. Len(out[d])
              /\ i > 1 => i - 1 \in 1 .. Len(out[d]) - 1
          BY <2>2
        <4>2. /\ out'[d][i] = out[d][i + 1]
              /\ i > 1 => out'[d][i - 1] = out[d][i]
          BY <1>0, <2>1, <2>2, <4>1, TailShift
        <4>3. Follows(silent[d], out[d][i], out[d][i + 1])
          BY <3>1, <4>1 DEF OutChain
        <4> QED BY <4>1, <4>2, <4>3, <2>1, <2>2, SMTT(30)
      <3> QED BY <3>2, <2>1 DEF OutChain
    <2>5. SubChain(d)'
      BY <1>0, <2>1 DEF LinkInv, SubChain
    <2>6. LastOut(d)' = LastOut(d)
      BY <2>1, <2>2 DEF LastOut
    <2>7. StageInv(d)'
      BY <2>1, <2>6, <1>0 DEF LinkInv, StageInv, Continues
    <2> QED BY <1>1, <1>3, <2>3, <2>4, <2>5, <2>7, OthersUntouched DEF LinkInv
  <1> QED BY <1>2, <1>3

\* Every step keeps the invariant.
THEOREM DeliveryInductive ==
    DeliveryInv /\ [DeliveryNext]_deliveryVars => DeliveryInv'
  <1> SUFFICES ASSUME DeliveryInv, [DeliveryNext]_deliveryVars PROVE DeliveryInv'
    OBVIOUS
  <1>1. CASE Kick \/ TakeKick \/ ReadBatch \/ BackToSelect \/ ReadFails
    BY <1>1, DispatcherKeepsInv
  <1>10. CASE Commit \/ FirstRead
    BY <1>10, CommitKeepsInv, FirstReadKeepsInv
  <1>2. CASE Broadcast
    BY <1>2, BroadcastKeepsInv
  <1>3. CASE \E d \in Device :
               \/ Accept(d) \/ (\E n \in {NoSince} \cup 0 .. MaxSeq : Register(d, n))
               \/ Reply(d) \/ ReadReplay(d)
    BY <1>3, HandshakeKeepsInv, DeliveryAssumption
  <1>4. CASE \E d \in Device : SendReplay(d) \/ StartForward(d)
    BY <1>4, ReplayKeepsInv
  <1>5. CASE \E d \in Device : Forward(d)
    BY <1>5, ForwardKeepsInv
  <1>6. CASE \E d \in Device : TakeReply(d) \/ TakeFrame(d)
    BY <1>6, TakeKeepsInv
  <1>7. CASE \E d \in Device : CloseSlow(d) \/ Disconnect(d)
    <2> PICK d \in Device : CloseSlow(d) \/ Disconnect(d)
      BY <1>7
    <2>1. faults' \in Nat
      BY DEF CloseSlow, Disconnect, DeliveryInv, DeliveryTypeOK
    <2>2. Gone({d}) /\ UNCHANGED <<journal, dispatcher>>
      BY DEF CloseSlow, Disconnect
    <2> QED BY <2>1, <2>2, GoneKeepsInv DEF journal
  <1>8. CASE Restart
    <2>1. faults' \in Nat
      BY <1>8 DEF Restart, DeliveryInv, DeliveryTypeOK
    <2> QED BY <1>8, <2>1, GoneKeepsInv DEF Restart
  <1>9. CASE UNCHANGED deliveryVars
    <2>1. UNCHANGED <<head, owed, silent, kick, disp, last, end, stage, since, subs, sub,
                      rnext, rend, out, doomed, reply, top, faults>>
      BY <1>9 DEF deliveryVars, journal, dispatcher, link
    <2>2. DeliveryTypeOK' /\ DispatcherInv' /\ NoLostKick'
      BY <2>1 DEF DeliveryInv, DeliveryTypeOK, DispatcherInv, NoLostKick
    <2>3. ASSUME NEW d \in Device PROVE LinkInv(d)'
      BY <2>1, LinkUntouched DEF DeliveryInv, Begun
    <2> QED BY <2>2, <2>3 DEF DeliveryInv
  <1> QED
    BY <1>1, <1>2, <1>3, <1>4, <1>5, <1>6, <1>7, <1>8, <1>9, <1>10
    DEF DeliveryNext, ServerStep

\* Every type and every queue bound of the delivery path, in every reachable
\* state: the hub's buffers and the outbound queues never outgrow their
\* capacities.
THEOREM DeliveryTypeCorrect == DeliverySpec => []DeliveryTypeOK
  <1>1. DeliveryInv => DeliveryTypeOK
    BY DEF DeliveryInv
  <1> QED BY <1>1, DeliveryInitially, DeliveryInductive, PTL DEF DeliverySpec

\* No peer is ever handed a frame past a gap, but for what committed before the
\* first read of a dispatcher still starting: the order subscribe, cursor,
\* reply, replay, live of handleSessionHello, and dropping a slow consumer
\* instead of a frame, are enough for any number of devices and any buffers.
THEOREM WireNeverSkipsAlways == DeliverySpec => []WireNeverSkips
  <1>1. DeliveryInv => WireNeverSkips
    <2> SUFFICES ASSUME DeliveryInv, NEW d \in Device, out[d] # <<>>
                 PROVE  top[d] + 1 .. Head(out[d]) - 1 \subseteq silent[d]
      BY DEF WireNeverSkips
    <2>1. out[d] \in Seq(Nat) /\ OutChain(d)
      BY DEF DeliveryInv, DeliveryTypeOK, LinkInv
    <2>2. Len(out[d]) \in Nat \ {0} /\ Head(out[d]) = out[d][1]
      BY <2>1, TailFacts
    <2> QED BY <2>1, <2>2 DEF OutChain, Follows
  <1> QED BY <1>1, DeliveryInitially, DeliveryInductive, PTL DEF DeliverySpec

\* The coalescing kick channel never loses the wakeup of a committed event.
THEOREM NoLostKickAlways == DeliverySpec => []NoLostKick
  <1>1. DeliveryInv => NoLostKick
    BY DEF DeliveryInv
  <1> QED BY <1>1, DeliveryInitially, DeliveryInductive, PTL DEF DeliverySpec
=============================================================================
