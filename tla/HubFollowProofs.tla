-------------------------- MODULE HubFollowProofs --------------------------
(***************************************************************************)
(* Machine-checked proofs that the hub follows the link and the tracks,    *)
(* for any number of phones, any length of the queue and any behaviour of  *)
(* the phone: what the queue tells completes the hub's view, each start is *)
(* announced once, track changes keep being registered for, only a lost    *)
(* connection is called back, and pausing Wi-Fi does not cost the          *)
(* configured power-save mode.                                             *)
(***************************************************************************)
EXTENDS HubHistory, HubSessionProofs, FiniteSetTheorems

-----------------------------------------------------------------------------
(* Replay is defined by recursion over the queue: what it computes needs    *)
(* induction, and that it is defined at all does too.                      *)

\* Induction over a set of numbers.  An interval 0 .. n is a finite set and has
\* 0 .. n - 1 as a strict subset, and that order is well founded.
LEMMA NatSetInduction ==
  ASSUME NEW T, 0 \in T, \A n \in Nat : n \in T => n + 1 \in T
  PROVE  Nat \subseteq T
<1> DEFINE Below == {0 .. n : n \in Nat \ T}
<1>1. SUFFICES ASSUME Nat \ T # {} PROVE FALSE
  OBVIOUS
<1>2. PICK x \in Below :
        \A y \in Below : <<y, x>> \notin StrictSubsetOrdering(Nat)
  <2>1. \A n \in Nat : 0 .. n \in FiniteSubsetsOf(Nat)
    <3>1. \A n \in Nat : 0 .. n \subseteq Nat
      OBVIOUS
    <3>2. \A n \in Nat : IsFiniteSet(0 .. n)
      BY FS_Interval
    <3>3. QED
      BY <3>1, <3>2 DEF FiniteSubsetsOf
  <2>2. Below \subseteq FiniteSubsetsOf(Nat) /\ Below # {}
    BY <1>1, <2>1
  <2> HIDE DEF Below
  <2>3. QED
    BY <2>2, FS_StrictSubsetOrderingWellFounded, WFMin
<1>3. PICK n \in Nat \ T : x = 0 .. n
  BY <1>2
<1>4. n # 0 /\ n - 1 \in Nat \ T
  BY <1>3
<1>5. /\ 0 .. n - 1 \in Below /\ x \subseteq Nat /\ 0 .. n - 1 \subseteq Nat
      /\ 0 .. n - 1 \subseteq x /\ n \in x /\ n \notin 0 .. n - 1
  BY <1>3, <1>4
<1>6. <<0 .. n - 1, x>> \in StrictSubsetOrdering(Nat)
  BY <1>5 DEF StrictSubsetOrdering
<1>7. QED
  BY <1>2, <1>5, <1>6

\* g gives the views after the first 0, 1, ... n records of the queue.
IsReplay(g, view, queue, n) ==
  /\ g[0] = view
  /\ \A i \in 0 .. n - 1 : g[i + 1] = Follow(g[i], queue[i + 1])

LEMMA ReplayUnique ==
  ASSUME NEW view, NEW queue, NEW m \in Nat, NEW n \in Nat, m <= n,
         NEW g, NEW h, IsReplay(g, view, queue, m), IsReplay(h, view, queue, n)
  PROVE  \A i \in 0 .. m : g[i] = h[i]
<1> DEFINE Agree == {i \in Nat : i <= m => g[i] = h[i]}
<1>1. 0 \in Agree
  BY DEF IsReplay
<1>2. ASSUME NEW i \in Nat, i \in Agree PROVE i + 1 \in Agree
  <2>1. SUFFICES ASSUME i + 1 <= m PROVE g[i + 1] = h[i + 1]
    OBVIOUS
  <2>2. i \in 0 .. m - 1 /\ i \in 0 .. n - 1 /\ g[i] = h[i]
    BY <1>2, <2>1
  <2>3. g[i + 1] = Follow(g[i], queue[i + 1])
    BY <2>2 DEF IsReplay
  <2>4. h[i + 1] = Follow(h[i], queue[i + 1])
    BY <2>2 DEF IsReplay
  <2>5. QED
    BY <2>2, <2>3, <2>4
<1>3. Nat \subseteq Agree
  <2> HIDE DEF Agree
  <2>1. QED
    BY <1>1, <1>2, NatSetInduction
<1>4. QED
  BY <1>3

LEMMA ReplayExists ==
  ASSUME NEW view, NEW queue, NEW n \in Nat
  PROVE  \E g : IsReplay(g, view, queue, n)
<1> DEFINE Reached == {i \in Nat : \E g : IsReplay(g, view, queue, i)}
<1>1. 0 \in Reached
  <2>1. IsReplay([i \in Nat |-> view], view, queue, 0)
    BY DEF IsReplay
  <2>2. QED
    BY <2>1
<1>2. ASSUME NEW i \in Nat, i \in Reached PROVE i + 1 \in Reached
  <2>1. PICK g : IsReplay(g, view, queue, i)
    BY <1>2
  <2> DEFINE h == [j \in Nat |-> IF j = i + 1 THEN Follow(g[i], queue[i + 1])
                                              ELSE g[j]]
  <2>2. h[0] = view
    BY <2>1 DEF IsReplay
  <2>3. ASSUME NEW j \in 0 .. i PROVE h[j + 1] = Follow(h[j], queue[j + 1])
    <3>1. h[j] = g[j]
      OBVIOUS
    <3>2. CASE j = i
      BY <3>1, <3>2
    <3>3. CASE j \in 0 .. i - 1
      <4>1. g[j + 1] = Follow(g[j], queue[j + 1])
        BY <2>1, <3>3 DEF IsReplay
      <4>2. h[j + 1] = g[j + 1]
        BY <3>3
      <4> HIDE DEF h
      <4>3. QED
        BY <3>1, <4>1, <4>2
    <3>4. QED
      BY <3>2, <3>3
  <2> HIDE DEF h
  <2>4. 0 .. (i + 1) - 1 = 0 .. i
    OBVIOUS
  <2>5. IsReplay(h, view, queue, i + 1)
    BY <2>2, <2>3, <2>4 DEF IsReplay
  <2>6. QED
    BY <2>5
<1>3. Nat \subseteq Reached
  <2> HIDE DEF Reached
  <2>1. QED
    BY <1>1, <1>2, NatSetInduction
<1>4. QED
  BY <1>3

\* Replay is well defined: it starts with the view and follows every record.
LEMMA ReplayDefined ==
  ASSUME NEW view, NEW queue
  PROVE  /\ Replay(view, queue)[0] = view
         /\ \A i \in Nat : Replay(view, queue)[i + 1]
                             = Follow(Replay(view, queue)[i], queue[i + 1])
<1> DEFINE Upto(n) == CHOOSE g : IsReplay(g, view, queue, n)
           f == [i \in Nat |-> Upto(i)[i]]
<1>1. \A n \in Nat : IsReplay(Upto(n), view, queue, n)
  BY ReplayExists
<1>2. f[0] = view
  BY <1>1 DEF IsReplay
<1>3. ASSUME NEW n \in Nat PROVE f[n + 1] = Follow(f[n], queue[n + 1])
  <2>1. IsReplay(Upto(n), view, queue, n) /\ IsReplay(Upto(n + 1), view, queue, n + 1)
    BY <1>1
  <2>2. f[n] = Upto(n)[n] /\ f[n + 1] = Upto(n + 1)[n + 1]
    OBVIOUS
  <2> HIDE DEF Upto, f
  <2>3. Upto(n)[n] = Upto(n + 1)[n]
    BY <2>1, ReplayUnique
  <2>4. Upto(n + 1)[n + 1] = Follow(Upto(n + 1)[n], queue[n + 1])
    BY <2>1 DEF IsReplay
  <2>5. QED
    BY <2>2, <2>3, <2>4
<1>4. f = [i \in Nat |-> IF i = 0 THEN view ELSE Follow(f[i - 1], queue[i])]
  <2> DEFINE e == [i \in Nat |-> IF i = 0 THEN view ELSE Follow(f[i - 1], queue[i])]
  <2>1. ASSUME NEW i \in Nat PROVE f[i] = e[i]
    <3>1. CASE i # 0
      <4>1. i - 1 \in Nat /\ (i - 1) + 1 = i
        BY <3>1
      <4>2. e[i] = Follow(f[i - 1], queue[i])
        BY <3>1
      <4> HIDE DEF f, e
      <4>3. QED
        BY <1>3, <4>1, <4>2
    <3>2. CASE i = 0
      BY <1>2, <3>2
    <3>3. QED
      BY <3>1, <3>2
  <2>2. f = [i \in Nat |-> f[i]] /\ e = [i \in Nat |-> e[i]]
    OBVIOUS
  <2>3. f = e
    <3> HIDE DEF f, e
    <3>1. QED
      BY <2>1, <2>2
  <2>4. QED
    BY <2>3
<1>5. Replay(view, queue)
        = [i \in Nat |-> IF i = 0 THEN view
                         ELSE Follow(Replay(view, queue)[i - 1], queue[i])]
  <2> HIDE DEF f
  <2>1. QED
    BY <1>4 DEF Replay
<1>6. \A i \in Nat : Replay(view, queue)[i] = IF i = 0 THEN view
                       ELSE Follow(Replay(view, queue)[i - 1], queue[i])
  BY <1>5
<1>7. \A i \in Nat : i + 1 \in Nat /\ i + 1 # 0 /\ (i + 1) - 1 = i
  OBVIOUS
<1>8. QED
  BY <1>6, <1>7

LEMMA ReplayFollows ==
  ASSUME NEW view, NEW queue, NEW n \in Nat
  PROVE  IsReplay(Replay(view, queue), view, queue, n)
  BY ReplayDefined DEF IsReplay

LEMMA ReplayAppend ==
  ASSUME NEW view, NEW S, NEW queue \in Seq(S), NEW ev \in S
  PROVE  /\ \A i \in 0 .. Len(queue) :
              Replay(view, Append(queue, ev))[i] = Replay(view, queue)[i]
         /\ Replay(view, Append(queue, ev))[Len(queue) + 1]
              = Follow(Replay(view, queue)[Len(queue)], ev)
<1> DEFINE longer == Append(queue, ev)
           n == Len(queue)
<1>1. /\ n \in Nat
      /\ \A i \in 0 .. n - 1 : longer[i + 1] = queue[i + 1]
      /\ longer[n + 1] = ev
  OBVIOUS
<1> HIDE DEF longer, n
<1>2. IsReplay(Replay(view, queue), view, queue, n)
  BY <1>1, ReplayFollows
<1>3. IsReplay(Replay(view, longer), view, queue, n)
  <2>1. IsReplay(Replay(view, longer), view, longer, n)
    BY <1>1, ReplayFollows
  <2>2. QED
    BY <1>1, <2>1 DEF IsReplay
<1>4. \A i \in 0 .. n : Replay(view, longer)[i] = Replay(view, queue)[i]
  BY <1>1, <1>2, <1>3, ReplayUnique
<1>5. Replay(view, longer)[n + 1] = Follow(Replay(view, longer)[n], ev)
  <2>1. \A i \in Nat : Replay(view, longer)[i + 1]
                        = Follow(Replay(view, longer)[i], longer[i + 1])
    BY ReplayDefined
  <2>2. QED
    BY <1>1, <2>1
<1>6. Replay(view, longer)[n] = Replay(view, queue)[n]
  BY <1>1, <1>4
<1>7. QED
  BY <1>4, <1>5, <1>6 DEF longer, n

LEMMA ReplayTail ==
  ASSUME NEW view, NEW S, NEW queue \in Seq(S), queue # << >>
  PROVE  \A i \in 0 .. Len(queue) - 1 :
           Replay(Follow(view, Head(queue)), Tail(queue))[i]
             = Replay(view, queue)[i + 1]
<1> DEFINE n == Len(queue) - 1
           first == Follow(view, Head(queue))
           g == [i \in Nat |-> Replay(view, queue)[i + 1]]
<1>1. /\ n \in Nat /\ Head(queue) = queue[1]
      /\ \A i \in 0 .. n - 1 : Tail(queue)[i + 1] = queue[i + 2]
  OBVIOUS
<1>2. g[0] = first
  BY <1>1, ReplayDefined
<1>3. ASSUME NEW i \in 0 .. n - 1
      PROVE  g[i + 1] = Follow(g[i], Tail(queue)[i + 1])
  <2>1. i + 1 \in Nat /\ (i + 1) + 1 = i + 2
    BY <1>1
  <2>2. Replay(view, queue)[i + 2] = Follow(Replay(view, queue)[i + 1], queue[i + 2])
    BY <2>1, ReplayDefined
  <2>3. g[i + 1] = Replay(view, queue)[i + 2] /\ g[i] = Replay(view, queue)[i + 1]
    BY <1>1, <2>1
  <2>4. QED
    BY <1>1, <2>2, <2>3
<1> HIDE DEF n, first
<1>4. IsReplay(g, first, Tail(queue), n)
  <2> HIDE DEF g
  <2>1. QED
    BY <1>1, <1>2, <1>3 DEF IsReplay
<1>5. IsReplay(Replay(first, Tail(queue)), first, Tail(queue), n)
  BY <1>1, ReplayFollows
<1>6. \A i \in 0 .. n : Replay(first, Tail(queue))[i] = g[i]
  <2> HIDE DEF g
  <2>1. QED
    BY <1>1, <1>4, <1>5, ReplayUnique
<1>7. \A i \in 0 .. n : g[i] = Replay(view, queue)[i + 1]
  BY <1>1
<1>8. QED
  BY <1>6, <1>7 DEF n, first

-----------------------------------------------------------------------------
(* What the queue tells, when it loses nothing and neither disconnect() nor*)
(* disable() takes the hub or the stack past it.                           *)

FollowsLink == ~Overflow /\ {"disable", "disconnect"} \cap Commands = {}

\* The queue leads to the stack's view, and no record of it tells of a start
\* when audio streams already.
QueueTells ==
  /\ QueueCompletes
  /\ \A i \in 1 .. Len(event_queue) :
       event_queue[i].type = "AUDIO_STARTED"
         => ~Replay(HubView, event_queue)[i - 1].audio

LEMMA SameTells ==
  ASSUME QueueTells, event_queue' = event_queue,
         HubView' = HubView, StackView' = StackView
  PROVE  QueueTells'
  BY DEF QueueTells, QueueCompletes

\* A record may be posted when it tells what happened to the link.
LEMMA AppendTells ==
  ASSUME event_queue \in Seq(A2DPEventRecord), NEW ev \in A2DPEventRecord,
         QueueTells, event_queue' = Append(event_queue, ev),
         HubView' = HubView, StackView' = Follow(StackView, ev),
         ev.type = "AUDIO_STARTED" => ~StackView.audio
  PROVE  QueueTells'
<1> DEFINE n == Len(event_queue)
           before == Replay(HubView, event_queue)
           after == Replay(HubView, Append(event_queue, ev))
<1>1. /\ n \in Nat /\ Len(event_queue') = n + 1
      /\ event_queue'[n + 1] = ev
      /\ \A i \in 1 .. n : event_queue'[i] = event_queue[i]
  OBVIOUS
<1>2. /\ \A i \in 0 .. n : after[i] = before[i]
      /\ after[n + 1] = Follow(before[n], ev)
  BY ReplayAppend
<1>3. Replay(HubView, event_queue)' = after
  OBVIOUS
<1>4. before[n] = StackView
  BY DEF QueueTells, QueueCompletes
<1>5. \A i \in 1 .. n : event_queue[i].type = "AUDIO_STARTED" => ~before[i - 1].audio
  BY DEF QueueTells
<1> HIDE DEF n, before, after
<1>6. QueueCompletes'
  <2>1. Len(event_queue)' = n + 1
    BY <1>1
  <2>2. QED
    BY <1>2, <1>3, <1>4, <2>1 DEF QueueCompletes
<1>7. ASSUME NEW i \in 1 .. n + 1, event_queue'[i].type = "AUDIO_STARTED"
      PROVE  ~after[i - 1].audio
  <2>1. CASE i = n + 1
    <3>1. i - 1 = n /\ n \in 0 .. n
      BY <1>1, <2>1
    <3>2. after[i - 1] = StackView
      BY <1>2, <1>4, <3>1
    <3>3. QED
      BY <1>1, <1>7, <2>1, <3>2
  <2>2. CASE i \in 1 .. n
    <3>1. i - 1 \in 0 .. n
      BY <1>1, <2>2
    <3>2. QED
      BY <1>1, <1>2, <1>5, <1>7, <2>2, <3>1
  <2>3. QED
    BY <1>1, <2>1, <2>2
<1>8. QED
  BY <1>1, <1>3, <1>6, <1>7 DEF QueueTells

\* The first record may be taken by a hub whose view follows it.
LEMMA TakeTells ==
  ASSUME event_queue \in Seq(A2DPEventRecord), event_queue # << >>,
         QueueTells, event_queue' = Tail(event_queue),
         HubView' = Follow(HubView, Head(event_queue)), StackView' = StackView
  PROVE  QueueTells'
<1> DEFINE n == Len(event_queue) - 1
           before == Replay(HubView, event_queue)
           after == Replay(Follow(HubView, Head(event_queue)), Tail(event_queue))
<1>1. /\ n \in Nat /\ Len(event_queue') = n /\ Len(event_queue) = n + 1
      /\ \A i \in 1 .. n : event_queue'[i] = event_queue[i + 1]
  OBVIOUS
<1>2. \A i \in 0 .. n : after[i] = before[i + 1]
  BY ReplayTail
<1>3. Replay(HubView, event_queue)' = after
  OBVIOUS
<1>4. before[n + 1] = StackView
  BY <1>1 DEF QueueTells, QueueCompletes
<1>5. \A i \in 1 .. n + 1 : event_queue[i].type = "AUDIO_STARTED" => ~before[i - 1].audio
  BY <1>1 DEF QueueTells
<1> HIDE DEF n, before, after
<1>6. QueueCompletes'
  <2>1. Len(event_queue)' = n
    BY <1>1
  <2>2. QED
    BY <1>1, <1>2, <1>3, <1>4, <2>1 DEF QueueCompletes
<1>7. ASSUME NEW i \in 1 .. n, event_queue'[i].type = "AUDIO_STARTED"
      PROVE  ~after[i - 1].audio
  <2>1. i - 1 \in 0 .. n /\ (i - 1) + 1 = i /\ i + 1 \in 1 .. n + 1 /\ (i + 1) - 1 = i
    BY <1>1
  <2>2. after[i - 1] = before[i]
    BY <1>2, <2>1
  <2>3. ~before[(i + 1) - 1].audio
    BY <1>1, <1>5, <1>7, <2>1
  <2>4. QED
    BY <2>1, <2>2, <2>3
<1>8. QED
  BY <1>1, <1>3, <1>6, <1>7 DEF QueueTells


\* With it: the link as it is without those calls, with a phone at its other
\* end, and that phone's address in every record that tells of it.
FollowInv ==
  /\ ~pending_deinit /\ link # "closing"
  /\ link # "down" => link_peer # NoPeer
  /\ link # "up" => ~stream
  /\ connected => last_peer # NoPeer
  /\ main_pc = "off" => ~connected
  /\ \A i \in 1 .. Len(event_queue) :
       event_queue[i].type = "CONNECTED" => event_queue[i].remote_bda # NoPeer
  /\ QueueTells

\* A step that neither posts nor takes a record, and moves no live link.
LEMMA QuietFollow ==
  ASSUME FollowInv,
         UNCHANGED <<event_queue, connected, audio_streaming, stream>>,
         ~pending_deinit',
         connected => last_peer' = last_peer,
         main_pc' = "off" => main_pc = "off",
         \/ UNCHANGED <<link, link_peer>>
         \/ link = "down" /\ link' = "connecting" /\ link_peer' # NoPeer
  PROVE  FollowInv'
<1>1. HubView' = HubView
  BY DEF HubView
<1>2. StackView' = StackView
  BY DEF StackView, LiveLink, FollowInv
<1>3. QueueTells'
  BY <1>1, <1>2, SameTells DEF FollowInv
<1>4. QED
  BY <1>3 DEF FollowInv

\* A reset.
LEMMA EmptyFollow ==
  ASSUME event_queue' = << >>, link' = "down", ~stream', stream' \in BOOLEAN,
         ~connected', ~audio_streaming', audio_streaming' \in BOOLEAN,
         ~pending_deinit'
  PROVE  FollowInv'
<1>1. Replay(HubView, event_queue)'[0] = HubView'
  BY ReplayDefined
<1>2. HubView' = StackView'
  <2>1. stream' = FALSE /\ audio_streaming' = FALSE
    OBVIOUS
  <2>2. QED
    BY <2>1 DEF HubView, StackView, LiveLink
<1>3. QueueTells'
  BY <1>1, <1>2 DEF QueueTells, QueueCompletes
<1>4. QED
  BY <1>3 DEF FollowInv

LEMMA PostFollow ==
  ASSUME FollowsLink, TypeOK, FollowInv, BtStep, UNCHANGED hubVars
  PROVE  FollowInv'
<1>0. /\ event_queue \in Seq(A2DPEventRecord) /\ ~Overflow
      /\ stream \in BOOLEAN /\ link_peer \in Peers \cup {NoPeer}
  BY DEF TypeOK, BtTypeOK, FollowsLink
<1>1. /\ HubView' = HubView
      /\ UNCHANGED <<pending_deinit, connected, last_peer, main_pc>>
  BY DEF hubVars, sessionVars, peerVars, HubView
<1>2. ASSUME NEW ev \in A2DPEventRecord, Post(ev),
             ev.type = "CONNECTED" => ev.remote_bda # NoPeer,
             ev.type = "AUDIO_STARTED" => ~stream,
             StackView' = Follow(StackView, ev),
             link' # "closing",
             link' # "down" => link_peer' # NoPeer,
             link' # "up" => ~stream'
      PROVE  FollowInv'
  <2>1. event_queue' = Append(event_queue, ev)
    BY <1>0, <1>2, PostedRecord
  <2>2. ~StackView.audio <=> ~stream
    BY DEF StackView
  <2>3. QueueTells'
    BY <1>0, <1>1, <1>2, <2>1, <2>2, AppendTells DEF FollowInv
  <2>4. \A i \in 1 .. Len(event_queue') :
          event_queue'[i].type = "CONNECTED" => event_queue'[i].remote_bda # NoPeer
    BY <1>0, <1>2, <2>1 DEF FollowInv
  <2>5. QED
    BY <1>1, <1>2, <2>3, <2>4 DEF FollowInv
<1>3. \A type \in A2DPEvent :
        Event(type) \in A2DPEventRecord /\ Event(type).type = type
  BY DEF Event, A2DPEventRecord
<1>4. \A p \in Peers \cup {NoPeer} :
        LET ev == [Event("CONNECTED") EXCEPT !.remote_bda = p]
        IN  /\ ev \in A2DPEventRecord /\ ev.type = "CONNECTED"
            /\ ev.remote_bda = p
  BY DEF Event, A2DPEventRecord, A2DPEvent
<1>5. \A abnormal \in BOOLEAN :
        LET ev == [Event("DISCONNECTED") EXCEPT !.abnormal = abnormal]
        IN  ev \in A2DPEventRecord /\ ev.type = "DISCONNECTED"
  BY DEF Event, A2DPEventRecord, A2DPEvent
\* CONNECTED, of a phone that calls or of one that was called.
<1>6. ASSUME NEW p \in Peers, PostConnected(p), link # "up",
             link' = "up", link_peer' = p, stream' = stream
      PROVE  FollowInv'
  <2> DEFINE ev == [Event("CONNECTED") EXCEPT !.remote_bda = p]
  <2>1. ev \in A2DPEventRecord /\ ev.type = "CONNECTED" /\ ev.remote_bda = p
    BY <1>4
  <2>2. Post(ev) /\ p # NoPeer
    BY <1>6, NoPeerAssumption DEF PostConnected
  <2>3. StackView = [peer |-> NoPeer, audio |-> stream]
    BY <1>6 DEF StackView, LiveLink, FollowInv
  <2>4. StackView' = [peer |-> p, audio |-> stream]
    BY <1>6 DEF StackView, LiveLink
  <2> HIDE DEF ev
  <2>5. Follow(StackView, ev) = [peer |-> p, audio |-> stream]
    BY <2>1, <2>3 DEF Follow
  <2>6. QED
    BY <1>2, <1>6, <2>1, <2>2, <2>4, <2>5
<1>7. ASSUME NEW p \in Peers, PeerConnects(p) PROVE FollowInv'
  BY <1>6, <1>7 DEF PeerConnects
<1>8. CASE ConnectSucceeds
  <2>1. link_peer \in Peers
    BY <1>0, <1>8 DEF FollowInv, ConnectSucceeds
  <2>2. QED
    BY <1>6, <1>8, <2>1 DEF ConnectSucceeds
\* DISCONNECTED, of a link or of an attempt.
<1>9. ASSUME NEW abnormal \in BOOLEAN, PostDisconnected(abnormal),
             link' = "down", stream' = FALSE
      PROVE  FollowInv'
  <2> DEFINE ev == [Event("DISCONNECTED") EXCEPT !.abnormal = abnormal]
  <2>1. ev \in A2DPEventRecord /\ ev.type = "DISCONNECTED"
    BY <1>5
  <2>2. Post(ev)
    BY <1>9 DEF PostDisconnected
  <2>3. StackView' = [peer |-> NoPeer, audio |-> FALSE]
    BY <1>9 DEF StackView, LiveLink
  <2> HIDE DEF ev
  <2>4. Follow(StackView, ev) = [peer |-> NoPeer, audio |-> FALSE]
    BY <2>1 DEF Follow
  <2>5. QED
    BY <1>2, <1>9, <2>1, <2>2, <2>3, <2>4
<1>10. CASE ConnectFails
  <2>1. stream = FALSE
    BY <1>0, <1>10 DEF ConnectFails, FollowInv
  <2>2. QED
    BY <1>9, <1>10, <2>1 DEF ConnectFails
<1>11. ASSUME NEW abnormal \in BOOLEAN, LinkDrops(abnormal) PROVE FollowInv'
  BY <1>9, <1>11 DEF LinkDrops
\* Every other record leaves the link alone.
<1>12. ASSUME NEW type \in A2DPEvent \ {"CONNECTED", "DISCONNECTED"},
              Post(Event(type)), UNCHANGED <<link, link_peer>>,
              type = "AUDIO_STARTED" => link = "up" /\ ~stream /\ stream' = TRUE,
              type = "AUDIO_STOPPED" => stream' = FALSE,
              type \notin {"AUDIO_STARTED", "AUDIO_STOPPED"} => stream' = stream
       PROVE  FollowInv'
  <2> DEFINE ev == Event(type)
             peer == IF LiveLink THEN link_peer ELSE NoPeer
  <2>1. ev \in A2DPEventRecord /\ ev.type = type
    BY <1>3
  <2>2. /\ StackView = [peer |-> peer, audio |-> stream]
        /\ StackView' = [peer |-> peer, audio |-> stream']
    BY <1>12 DEF StackView, LiveLink
  <2> HIDE DEF ev, peer
  <2>3. Follow(StackView, ev) = StackView'
    BY <1>12, <2>1, <2>2 DEF Follow
  <2>4. link # "up" => ~stream'
    BY <1>12 DEF FollowInv
  <2>5. link # "closing" /\ (link # "down" => link_peer # NoPeer)
    BY DEF FollowInv
  <2>6. Post(ev)
    BY <1>12 DEF ev
  <2>7. QED
    BY <1>2, <1>12, <2>1, <2>3, <2>4, <2>5, <2>6
<1>13. CASE AudioStarts
  BY <1>12, <1>13 DEF AudioStarts, PostAudioState, A2DPEvent
<1>14. CASE AudioStops
  BY <1>12, <1>14 DEF AudioStops, PostAudioState, A2DPEvent
<1>15. CASE CtConnects
  BY <1>12, <1>15 DEF CtConnects, PostCtState, linkVars, A2DPEvent
<1>16. CASE CtDisconnects
  BY <1>12, <1>16 DEF CtDisconnects, PostCtState, linkVars, A2DPEvent
<1>17. CASE TrackChanges
  BY <1>12, <1>17 DEF TrackChanges, PostTrackChange, linkVars, A2DPEvent
<1>18. CASE Chat
  BY <1>12, <1>18 DEF Chat, linkVars, A2DPEvent
<1>19. QED
  BY <1>7, <1>8, <1>10, <1>11, <1>13, <1>14, <1>15, <1>16, <1>17, <1>18
  DEF BtStep

LEMMA TakeFollow ==
  ASSUME TypeOK, FollowInv, StreamingOnlyConnected, Handle
  PROVE  FollowInv'
<1> DEFINE ev == Head(event_queue)
<1>0. /\ event_queue \in Seq(A2DPEventRecord)
      /\ connected \in BOOLEAN /\ audio_streaming \in BOOLEAN
      /\ main_pc = "drain"
  BY DEF TypeOK, BtTypeOK, HubTypeOK, Handle, HandleConnected,
         HandleDisconnectedPending, HandleDisconnected, HandleAudioStarted,
         HandleAudioStopped, HandleCtConnected, HandleCtDisconnected,
         HandleTrackChanged, HandleNothingNew, Dequeue
<1>1. ASSUME event_queue # << >>, event_queue' = Tail(event_queue),
             HubView' = Follow(HubView, ev),
             UNCHANGED <<link, link_peer, stream, pending_deinit, main_pc>>,
             connected' => last_peer' # NoPeer
      PROVE  FollowInv'
  <2>1. StackView' = StackView
    BY <1>1 DEF StackView, LiveLink
  <2>2. QueueTells'
    BY <1>0, <1>1, <2>1, TakeTells DEF FollowInv
  <2>3. \A i \in 1 .. Len(event_queue') :
          event_queue'[i].type = "CONNECTED" => event_queue'[i].remote_bda # NoPeer
    BY <1>0, <1>1 DEF FollowInv
  <2>4. QED
    BY <1>0, <1>1, <2>2, <2>3 DEF FollowInv
<1>2. event_queue # << >> /\ ev.type = "CONNECTED" => ev.remote_bda # NoPeer
  BY <1>0 DEF FollowInv
<1> HIDE DEF ev
<1> USE DEF linkVars, sessionVars, peerVars
<1>3. CASE HandleConnected
  <2>1. /\ event_queue # << >> /\ event_queue' = Tail(event_queue)
        /\ ev.type = "CONNECTED" /\ ~connected /\ connected' = TRUE
        /\ last_peer' = ev.remote_bda /\ UNCHANGED audio_streaming
        /\ UNCHANGED <<link, link_peer, stream, pending_deinit, main_pc>>
    BY <1>3 DEF HandleConnected, Dequeue, SavePeer, ev
  <2>2. HubView' = Follow(HubView, ev)
    BY <2>1 DEF HubView, Follow
  <2>3. QED
    BY <1>1, <1>2, <2>1, <2>2
<1>4. CASE HandleDisconnectedPending
  BY <1>4 DEF HandleDisconnectedPending, FollowInv
<1>5. CASE HandleDisconnected
  <2>1. /\ event_queue # << >> /\ event_queue' = Tail(event_queue)
        /\ ev.type = "DISCONNECTED"
        /\ connected' = FALSE /\ audio_streaming' = FALSE
        /\ UNCHANGED <<link, link_peer, stream, pending_deinit, main_pc>>
    BY <1>5 DEF HandleDisconnected, Dequeue, EndSession, ev
  <2>2. HubView' = Follow(HubView, ev)
    BY <2>1 DEF HubView, Follow
  <2>3. QED
    BY <1>1, <2>1, <2>2
<1>6. CASE HandleAudioStarted \/ HandleAudioStopped
  <2>1. /\ event_queue # << >> /\ event_queue' = Tail(event_queue)
        /\ ev.type \in {"AUDIO_STARTED", "AUDIO_STOPPED"}
        /\ audio_streaming' = (ev.type = "AUDIO_STARTED")
        /\ UNCHANGED <<connected, last_peer>>
        /\ UNCHANGED <<link, link_peer, stream, pending_deinit, main_pc>>
    BY <1>6 DEF HandleAudioStarted, HandleAudioStopped, Dequeue, ev
  <2>2. HubView' = Follow(HubView, ev)
    BY <2>1 DEF HubView, Follow
  <2>3. QED
    BY <1>1, <2>1, <2>2 DEF FollowInv
<1>7. CASE HandleCtConnected \/ HandleCtDisconnected \/ HandleTrackChanged
  <2>1. /\ event_queue # << >> /\ event_queue' = Tail(event_queue)
        /\ ev.type \in {"AVRCP_CT_CONNECTED", "AVRCP_CT_DISCONNECTED",
                        "AVRCP_TRACK_CHANGED"}
        /\ UNCHANGED <<connected, last_peer, audio_streaming>>
        /\ UNCHANGED <<link, link_peer, stream, pending_deinit, main_pc>>
    BY <1>7
    DEF HandleCtConnected, HandleCtDisconnected, HandleTrackChanged, Dequeue, ev
  <2>2. HubView' = Follow(HubView, ev)
    BY <2>1 DEF HubView, Follow
  <2>3. QED
    BY <1>1, <2>1, <2>2 DEF FollowInv
<1>8. CASE HandleNothingNew
  <2>1. /\ event_queue # << >> /\ event_queue' = Tail(event_queue)
        /\ \/ ev.type = "CONNECTED" /\ connected
           \/ ev.type = "DISCONNECTED" /\ ~connected
           \/ ev.type = "AUDIO_STARTED" /\ audio_streaming
           \/ ev.type = "AUDIO_STOPPED" /\ ~audio_streaming
           \/ ev.type = "INFO"
        /\ UNCHANGED <<connected, last_peer, audio_streaming>>
        /\ UNCHANGED <<link, link_peer, stream, pending_deinit, main_pc>>
    BY <1>8 DEF HandleNothingNew, Dequeue, ev
  <2>2. connected => last_peer # NoPeer
    BY DEF FollowInv
  <2>3. audio_streaming => connected
    BY DEF StreamingOnlyConnected
  <2>4. HubView' = Follow(HubView, ev)
    BY <1>0, <2>1, <2>2, <2>3 DEF HubView, Follow
  <2>5. QED
    BY <1>1, <2>1, <2>2, <2>4
<1>9. QED
  BY <1>3, <1>4, <1>5, <1>6, <1>7, <1>8 DEF Handle

LEMMA FollowPreserved ==
  ASSUME FollowsLink, TypeOK, StreamingOnlyConnected, ReconnectArmedSafely,
         FollowInv, [Next]_vars
  PROVE  FollowInv'
<1> USE DEF sessionVars, linkVars, peerVars
<1>0. /\ ~pending_deinit /\ (main_pc = "off" => ~connected)
      /\ "disable" \notin Commands /\ "disconnect" \notin Commands
  BY DEF FollowInv, FollowsLink
<1>1. CASE Setup \/ Enable \/ RestartDiscovery
  BY <1>0, <1>1, QuietFollow DEF Setup, Enable, RestartDiscovery, Calls
<1>2. CASE PanicReboot \/ PowerCut
  BY <1>2, EmptyFollow
  DEF PanicReboot, PowerCut, Reset, HubRamReset, EndSession, StackReset
<1>3. CASE DisableConnected \/ DisableUnconnected \/ Disconnect
  BY <1>0, <1>3
  DEF DisableConnected, DisableUnconnected, DisableCommon, Disconnect, Calls
<1>4. CASE RequestAudioSuspend \/ SendAvrcPassthrough \/ DrainDone
  BY <1>0, <1>4, QuietFollow
  DEF RequestAudioSuspend, SendAvrcPassthrough, DrainDone, Calls, btVars
<1>5. CASE LoopTop
  <2>1. /\ UNCHANGED <<event_queue, connected, audio_streaming, last_peer>>
        /\ main_pc' = "drain"
    BY <1>5 DEF LoopTop
  <2>2. ~pending_deinit'
    BY <1>0, <1>5 DEF LoopTop, CheckDeinitDeadline
  <2>3. /\ UNCHANGED stream
        /\ \/ UNCHANGED <<link, link_peer>>
           \/ link = "down" /\ link' = "connecting" /\ link_peer' # NoPeer
    BY <1>5
    DEF LoopTop, CheckReconnect, ReconnectToLastPeer, SinkConnect,
        SinkConnectStarts, ReconnectArmedSafely
  <2>4. QED
    BY <2>1, <2>2, <2>3, QuietFollow
<1>6. CASE Handle
  BY <1>6, TakeFollow
<1>7. CASE BtStep /\ UNCHANGED <<coexVars, hubVars>>
  BY <1>7, PostFollow
<1>8. CASE UNCHANGED <<btVars, hubVars>>
  BY <1>0, <1>8, QuietFollow DEF btVars, hubVars
<1>9. QED
  BY <1>1, <1>2, <1>3, <1>4, <1>5, <1>6, <1>7, <1>8
  DEF Next, Command, WifiStep, vars

LEMMA FollowAlways == FollowsLink /\ Spec => []FollowInv
<1>1. Init => FollowInv
  <2>1. SUFFICES ASSUME Init PROVE FollowInv
    OBVIOUS
  <2>2. Replay(HubView, event_queue)[0] = HubView
    BY ReplayDefined
  <2>3. event_queue = << >> /\ Len(event_queue) = 0
    BY <2>1 DEF Init, BtInit
  <2>4. HubView = StackView
    BY <2>1 DEF Init, HubRamInit, BtInit, HubView, StackView, LiveLink
  <2>5. QueueTells
    BY <2>2, <2>3, <2>4 DEF QueueTells, QueueCompletes
  <2>6. QED
    BY <2>1, <2>3, <2>5 DEF Init, HubRamInit, BtInit, FollowInv
<1>2. FollowsLink => QueueLeads
  BY DEF FollowsLink, QueueLeads
<1>3. /\ FollowsLink /\ TypeOK /\ StreamingOnlyConnected /\ ReconnectArmedSafely
      /\ FollowInv /\ [Next]_vars
      => FollowsLink' /\ FollowInv'
  BY FollowPreserved DEF FollowsLink
<1>4. QED
  BY <1>1, <1>2, <1>3, TypeCorrect, StreamingCorrect, ReconnectCorrect, PTL
  DEF Spec

\* However many records wait, and whatever retries, failed attempts and changes
\* of the phone they tell of: once they are handled, the hub has the link of the
\* stack, to the right phone and with the right audio state.
THEOREM QueueCompletesCorrect == FollowsLink /\ Spec => []QueueCompletes
<1>1. FollowInv => QueueCompletes
  BY DEF FollowInv, QueueTells
<1>2. QED
  BY <1>1, FollowAlways, PTL

\* Every AUDIO_STARTED finds the hub not streaming: on_audio_start runs for
\* each start of the stream, and never twice for one.
THEOREM StartsCorrect == FollowsLink /\ Spec => StartsAnnounced
<1>1. TypeOK /\ FollowInv
        => [Dequeue("AUDIO_STARTED") => ~audio_streaming]_vars
  <2>1. SUFFICES ASSUME TypeOK, FollowInv, Dequeue("AUDIO_STARTED")
                 PROVE  ~audio_streaming
    OBVIOUS
  <2>2. /\ 1 \in 1 .. Len(event_queue)
        /\ event_queue[1].type = "AUDIO_STARTED"
    BY <2>1 DEF TypeOK, BtTypeOK, Dequeue
  <2>3. ~Replay(HubView, event_queue)[1 - 1].audio
    BY <2>1, <2>2 DEF FollowInv, QueueTells
  <2>4. Replay(HubView, event_queue)[0] = HubView
    BY ReplayDefined
  <2>5. QED
    BY <2>3, <2>4 DEF HubView
<1>2. QED
  BY <1>1, FollowAlways, TypeCorrect, PTL DEF StartsAnnounced


-----------------------------------------------------------------------------
(* The tracks.  disable() over a connection stops following them on purpose,*)
(* and a queue that loses TRACK_CHANGED or the state of the control channel *)
(* loses them; disconnect() does no harm.                                  *)

FollowsTracks == ~Overflow /\ "disable" \notin Commands

Tells(i, types) == event_queue[i].type \in types

\* A record of one of these types waits.
Waiting(types) == \E i \in 1 .. Len(event_queue) : Tells(i, types)

\* While the control channel is up: each end of an earlier channel in the queue
\* is followed by the start of a later one, the hub has the channel or is going
\* to learn of it, and a hub that streams has registered, is about to, or is
\* told soon by a record that makes it.
TracksInv ==
  ct_link =>
    /\ Avrcp
    /\ \A i \in 1 .. Len(event_queue) : Tells(i, {"AVRCP_CT_DISCONNECTED"})
         => \E j \in i + 1 .. Len(event_queue) : Tells(j, {"AVRCP_CT_CONNECTED"})
    /\ avrcp_ct_connected \/ Waiting({"AVRCP_CT_CONNECTED"})
    /\ audio_streaming =>
         \/ ct_registered \/ metadata_refresh_at
         \/ Waiting({"AVRCP_CT_CONNECTED", "AVRCP_TRACK_CHANGED"})

\* The record that is taken is the first.
LEMMA TakeWaiting ==
  ASSUME event_queue \in Seq(A2DPEventRecord), event_queue # << >>,
         event_queue' = Tail(event_queue), NEW types
  PROVE  /\ Waiting(types) => Head(event_queue).type \in types \/ Waiting(types)'
         /\ \A j \in 2 .. Len(event_queue) : Tells(j, types) => Waiting(types)'
<1> DEFINE n == Len(event_queue) - 1
<1>1. /\ n \in Nat /\ Len(event_queue') = n /\ Len(event_queue) = n + 1
      /\ \A i \in 1 .. n : event_queue'[i] = event_queue[i + 1]
      /\ Head(event_queue) = event_queue[1]
  OBVIOUS
<1> HIDE DEF n
<1>2. ASSUME NEW j \in 2 .. n + 1, Tells(j, types) PROVE Waiting(types)'
  <2>1. j - 1 \in 1 .. n /\ (j - 1) + 1 = j
    BY <1>1
  <2>2. event_queue'[j - 1].type \in types
    BY <1>1, <1>2, <2>1 DEF Tells
  <2>3. QED
    BY <1>1, <2>1, <2>2 DEF Waiting, Tells
<1>3. Waiting(types) => Head(event_queue).type \in types \/ Waiting(types)'
  <2>1. SUFFICES ASSUME NEW j \in 1 .. n + 1, Tells(j, types),
                        Head(event_queue).type \notin types
                 PROVE  Waiting(types)'
    BY <1>1 DEF Waiting
  <2>2. j # 1
    BY <1>1, <2>1 DEF Tells
  <2>3. QED
    BY <1>1, <1>2, <2>1, <2>2
<1>4. QED
  BY <1>1, <1>2, <1>3

LEMMA AppendWaiting ==
  ASSUME event_queue \in Seq(A2DPEventRecord), NEW ev,
         event_queue' = Append(event_queue, ev), NEW types
  PROVE  /\ Waiting(types) => Waiting(types)'
         /\ ev.type \in types => Waiting(types)'
  BY DEF Waiting, Tells

\* A step that neither posts nor takes a record.
LEMMA QuietTracks ==
  ASSUME TracksInv, event_queue' = event_queue,
         ct_link' => ct_link, ct_link' /\ avrcp_ct_connected => avrcp_ct_connected',
         ct_link' /\ audio_streaming' => audio_streaming,
         ct_link' /\ audio_streaming'
           => \/ ct_registered' \/ metadata_refresh_at'
              \/ ~ct_registered /\ ~metadata_refresh_at
              \/ ~avrcp_ct_connected
  PROVE  TracksInv'
<1>1. \A types : Waiting(types)' <=> Waiting(types)
  BY DEF Waiting, Tells
<1>2. Waiting({"AVRCP_CT_CONNECTED"})
        => Waiting({"AVRCP_CT_CONNECTED", "AVRCP_TRACK_CHANGED"})
  BY DEF Waiting, Tells
<1>3. \A i, types : Tells(i, types)' <=> Tells(i, types)
  BY DEF Tells
<1>4. QED
  BY <1>1, <1>2, <1>3 DEF TracksInv

LEMMA PostTracks ==
  ASSUME FollowsTracks, TypeOK, TracksInv, BtStep, UNCHANGED hubVars
  PROVE  TracksInv'
<1>0. /\ event_queue \in Seq(A2DPEventRecord) /\ ~Overflow
      /\ Len(event_queue) \in Nat
  BY DEF TypeOK, BtTypeOK, FollowsTracks
<1>1. UNCHANGED <<audio_streaming, avrcp_ct_connected, metadata_refresh_at>>
  BY DEF hubVars, sessionVars, avrcpVars
<1>2. ASSUME NEW ev \in A2DPEventRecord, Post(ev),
             ev.type # "AVRCP_CT_DISCONNECTED" \/ ~ct_link',
             ct_link' => ct_link \/ (Avrcp /\ ev.type = "AVRCP_CT_CONNECTED"),
             \/ ct_registered => ct_registered'
             \/ ev.type = "AVRCP_TRACK_CHANGED"
             \/ ~ct_link'
      PROVE  TracksInv'
  <2> DEFINE n == Len(event_queue)
  <2>1. event_queue' = Append(event_queue, ev)
    BY <1>0, <1>2, PostedRecord
  <2>2. /\ Len(event_queue') = n + 1 /\ n \in Nat /\ event_queue'[n + 1] = ev
        /\ \A i \in 1 .. n : event_queue'[i] = event_queue[i]
    BY <1>0, <2>1
  <2>3. \A types : /\ Waiting(types) => Waiting(types)'
                   /\ ev.type \in types => Waiting(types)'
    BY <1>0, <2>1, AppendWaiting
  <2> HIDE DEF n
  <2>4. SUFFICES ASSUME ct_link' PROVE TracksInv'
    BY DEF TracksInv
  <2>5. ASSUME NEW i \in 1 .. n + 1,
               event_queue'[i].type = "AVRCP_CT_DISCONNECTED"
        PROVE  \E j \in i + 1 .. n + 1 :
                 event_queue'[j].type = "AVRCP_CT_CONNECTED"
    <3>1. i \in 1 .. n
      BY <1>2, <2>2, <2>4, <2>5
    <3>2. CASE ct_link
      <4>1. \E j \in i + 1 .. n : event_queue[j].type = "AVRCP_CT_CONNECTED"
        BY <2>2, <2>5, <3>1, <3>2 DEF TracksInv, Tells, n
      <4>2. QED
        BY <2>2, <3>1, <4>1
    <3>3. CASE ~ct_link
      BY <1>2, <2>2, <2>4, <3>1, <3>3
    <3>4. QED
      BY <3>2, <3>3
  <2>6. Avrcp /\ (avrcp_ct_connected' \/ Waiting({"AVRCP_CT_CONNECTED"})')
    BY <1>1, <1>2, <2>3, <2>4 DEF TracksInv
  <2>7. audio_streaming' =>
          \/ ct_registered' \/ metadata_refresh_at'
          \/ Waiting({"AVRCP_CT_CONNECTED", "AVRCP_TRACK_CHANGED"})'
    BY <1>1, <1>2, <2>3, <2>4 DEF TracksInv
  <2>8. QED
    BY <2>2, <2>5, <2>6, <2>7 DEF TracksInv, Tells
<1>3. \A type \in A2DPEvent :
         Event(type) \in A2DPEventRecord /\ Event(type).type = type
  BY DEF Event, A2DPEventRecord
<1>4. \A p \in Peers \cup {NoPeer} :
         LET ev == [Event("CONNECTED") EXCEPT !.remote_bda = p]
         IN  ev \in A2DPEventRecord /\ ev.type = "CONNECTED"
  BY DEF Event, A2DPEventRecord, A2DPEvent
<1>5. \A abnormal \in BOOLEAN :
         LET ev == [Event("DISCONNECTED") EXCEPT !.abnormal = abnormal]
         IN  ev \in A2DPEventRecord /\ ev.type = "DISCONNECTED"
  BY DEF Event, A2DPEventRecord, A2DPEvent
<1>6. link_peer \in Peers \cup {NoPeer}
  BY DEF TypeOK, BtTypeOK
<1> USE DEF ctVars, A2DPEvent
<1>7. CASE (\E p \in Peers : PeerConnects(p)) \/ ConnectSucceeds
  <2>1. PICK ev \in A2DPEventRecord : Post(ev) /\ ev.type = "CONNECTED"
    BY <1>7, <1>4, <1>6 DEF PeerConnects, ConnectSucceeds, PostConnected
  <2>2. UNCHANGED <<ct_link, ct_registered>>
    BY <1>7 DEF PeerConnects, ConnectSucceeds
  <2>3. QED
    BY <1>2, <2>1, <2>2
<1>8. CASE ConnectFails \/ (\E abnormal \in BOOLEAN : LinkDrops(abnormal))
  <2>1. PICK ev \in A2DPEventRecord : Post(ev) /\ ev.type = "DISCONNECTED"
    BY <1>8, <1>5 DEF ConnectFails, LinkDrops, PostDisconnected
  <2>2. UNCHANGED <<ct_link, ct_registered>>
    BY <1>8 DEF ConnectFails, LinkDrops
  <2>3. QED
    BY <1>2, <2>1, <2>2
<1>9. CASE AudioStarts \/ AudioStops \/ Chat
  <2>1. PICK ev \in A2DPEventRecord : Post(ev) /\ ev.type \in {"AUDIO_STARTED", "AUDIO_STOPPED", "INFO"}
    BY <1>9, <1>3 DEF AudioStarts, AudioStops, Chat, PostAudioState
  <2>2. UNCHANGED <<ct_link, ct_registered>>
    BY <1>9 DEF AudioStarts, AudioStops, Chat
  <2>3. QED
    BY <1>2, <2>1, <2>2
<1>10. CASE CtConnects
  <2>1. PICK ev \in A2DPEventRecord : Post(ev) /\ ev.type = "AVRCP_CT_CONNECTED"
    BY <1>10, <1>3 DEF CtConnects, PostCtState
  <2>2. QED
    BY <1>2, <1>10, <2>1 DEF CtConnects
<1>11. CASE CtDisconnects
  <2>1. PICK ev \in A2DPEventRecord : Post(ev)
    BY <1>11, <1>3 DEF CtDisconnects, PostCtState
  <2>2. QED
    BY <1>2, <1>11, <2>1 DEF CtDisconnects
<1>12. CASE TrackChanges
  <2>1. PICK ev \in A2DPEventRecord : Post(ev) /\ ev.type = "AVRCP_TRACK_CHANGED"
    BY <1>12, <1>3 DEF TrackChanges, PostTrackChange
  <2>2. QED
    BY <1>2, <1>12, <2>1 DEF TrackChanges
<1>13. QED
  BY <1>7, <1>8, <1>9, <1>10, <1>11, <1>12 DEF BtStep

LEMMA TakeTracks ==
  ASSUME TypeOK, TracksInv, Handle
  PROVE  TracksInv'
<1> DEFINE type == Head(event_queue).type
           n == Len(event_queue) - 1
<1>0. event_queue \in Seq(A2DPEventRecord)
  BY DEF TypeOK, BtTypeOK
<1>1. ASSUME event_queue # << >>, event_queue' = Tail(event_queue),
             ct_link' => ct_link,
             ct_link' => \/ avrcp_ct_connected => avrcp_ct_connected'
                         \/ type = "AVRCP_CT_DISCONNECTED",
             type = "AVRCP_CT_CONNECTED" => avrcp_ct_connected',
             audio_streaming' => \/ audio_streaming
                                 \/ Avrcp => metadata_refresh_at',
             type \in {"AVRCP_CT_CONNECTED", "AVRCP_TRACK_CHANGED"}
               => metadata_refresh_at',
             ct_link' /\ audio_streaming'
               => /\ ct_registered => ct_registered' \/ metadata_refresh_at'
                  /\ metadata_refresh_at => metadata_refresh_at'
      PROVE  TracksInv'
  <2>1. SUFFICES ASSUME ct_link' PROVE TracksInv'
    BY DEF TracksInv
  <2>2. ct_link /\ Avrcp
    BY <1>1, <2>1 DEF TracksInv
  <2>3. /\ n \in Nat /\ Len(event_queue') = n /\ Len(event_queue) = n + 1
        /\ \A i \in 1 .. n : event_queue'[i] = event_queue[i + 1]
        /\ Head(event_queue) = event_queue[1]
    BY <1>0, <1>1
  <2>4. \A types : /\ Waiting(types) => type \in types \/ Waiting(types)'
                   /\ \A j \in 2 .. n + 1 : Tells(j, types) => Waiting(types)'
    BY <1>0, <1>1, <2>3, TakeWaiting
  <2>5. \A i \in 1 .. n + 1 : event_queue[i].type = "AVRCP_CT_DISCONNECTED" =>
          \E j \in i + 1 .. n + 1 : event_queue[j].type = "AVRCP_CT_CONNECTED"
    BY <2>2, <2>3 DEF TracksInv, Tells
  <2> HIDE DEF n, type
  <2>6. ASSUME NEW i \in 1 .. n, event_queue'[i].type = "AVRCP_CT_DISCONNECTED"
        PROVE  \E j \in i + 1 .. n : event_queue'[j].type = "AVRCP_CT_CONNECTED"
    <3>1. i + 1 \in 1 .. n + 1
          /\ event_queue[i + 1].type = "AVRCP_CT_DISCONNECTED"
      BY <2>3, <2>6
    <3>2. PICK j \in (i + 1) + 1 .. n + 1 :
                 event_queue[j].type = "AVRCP_CT_CONNECTED"
      BY <2>5, <3>1
    <3>3. j - 1 \in i + 1 .. n /\ j - 1 \in 1 .. n /\ (j - 1) + 1 = j
      BY <2>3, <3>2
    <3>4. event_queue'[j - 1].type = "AVRCP_CT_CONNECTED"
      BY <2>3, <3>2, <3>3
    <3>5. QED
      BY <3>3, <3>4
  <2>7. avrcp_ct_connected' \/ Waiting({"AVRCP_CT_CONNECTED"})'
    <3>1. CASE type = "AVRCP_CT_DISCONNECTED"
      <4>1. 1 \in 1 .. n + 1 /\ event_queue[1].type = "AVRCP_CT_DISCONNECTED"
        BY <2>3, <3>1 DEF type
      <4>2. PICK j \in 1 + 1 .. n + 1 :
                   event_queue[j].type = "AVRCP_CT_CONNECTED"
        BY <2>5, <4>1
      <4>3. j \in 2 .. n + 1 /\ Tells(j, {"AVRCP_CT_CONNECTED"})
        BY <4>2 DEF Tells
      <4>4. QED
        BY <2>4, <4>3
    <3>2. CASE type # "AVRCP_CT_DISCONNECTED"
      BY <1>1, <2>1, <2>2, <2>4, <3>2 DEF TracksInv
    <3>3. QED
      BY <3>1, <3>2
  <2>8. audio_streaming' =>
          \/ ct_registered' \/ metadata_refresh_at'
          \/ Waiting({"AVRCP_CT_CONNECTED", "AVRCP_TRACK_CHANGED"})'
    BY <1>1, <2>1, <2>2, <2>4 DEF TracksInv
  <2>9. QED
    BY <2>2, <2>3, <2>6, <2>7, <2>8 DEF TracksInv, Tells
<1> USE DEF Dequeue, sessionVars, ctVars, avrcpVars
<1>2. CASE HandleConnected
  BY <1>1, <1>2 DEF HandleConnected
<1>3. CASE HandleDisconnectedPending
  BY <1>3
  DEF HandleDisconnectedPending, FinishDisable, DeinitBt, StackDisable, TracksInv
<1>4. CASE HandleDisconnected
  BY <1>1, <1>4 DEF HandleDisconnected, EndSession
<1>5. CASE HandleAudioStarted
  BY <1>1, <1>5 DEF HandleAudioStarted
<1>6. CASE HandleAudioStopped
  BY <1>1, <1>6 DEF HandleAudioStopped
<1>7. CASE HandleCtConnected
  BY <1>1, <1>7 DEF HandleCtConnected
<1>8. CASE HandleCtDisconnected
  BY <1>1, <1>8 DEF HandleCtDisconnected
<1>9. CASE HandleTrackChanged
  BY <1>1, <1>9 DEF HandleTrackChanged
<1>10. CASE HandleNothingNew
  BY <1>1, <1>10 DEF HandleNothingNew
<1>11. QED
  BY <1>2, <1>3, <1>4, <1>5, <1>6, <1>7, <1>8, <1>9, <1>10 DEF Handle

LEMMA TracksPreserved ==
  ASSUME FollowsTracks, TypeOK, TracksInv, [Next]_vars
  PROVE  TracksInv'
<1> USE DEF sessionVars, ctVars, avrcpVars
<1>1. CASE Setup \/ Enable \/ RestartDiscovery
  BY <1>1, QuietTracks DEF Setup, Enable, RestartDiscovery, Calls
<1>2. CASE PanicReboot \/ PowerCut
  BY <1>2 DEF PanicReboot, PowerCut, Reset, StackReset, TracksInv
<1>3. CASE DisableConnected \/ DisableUnconnected
  BY <1>3
  DEF DisableConnected, DisableUnconnected, DisableCommon, Calls, FollowsTracks
<1>4. CASE Disconnect
  BY <1>4, QuietTracks DEF Disconnect, Calls, EndSession
<1>5. CASE RequestAudioSuspend \/ SendAvrcPassthrough \/ DrainDone
  <2>1. /\ UNCHANGED <<ct_link, ct_registered, event_queue, audio_streaming,
                       avrcp_ct_connected>>
    BY <1>5
    DEF RequestAudioSuspend, SendAvrcPassthrough, DrainDone, Calls, btVars
  <2>2. metadata_refresh_at => metadata_refresh_at'
    BY <1>5, Zenon DEF RequestAudioSuspend, SendAvrcPassthrough, DrainDone
  <2>3. QED
    BY <2>1, <2>2, QuietTracks
<1>6. CASE LoopTop
  <2>1. /\ UNCHANGED <<ct_link, event_queue, audio_streaming, avrcp_ct_connected>>
        /\ CheckMetadataRefresh
    BY <1>6 DEF LoopTop
  <2>2. \/ UNCHANGED <<metadata_refresh_at, ct_registered>>
        \/ ~avrcp_ct_connected
        \/ ct_link => ct_registered'
    BY <2>1, Zenon
    DEF CheckMetadataRefresh, RequestTrackChangeNotification, RegisterTrackChange
  <2>3. QED
    BY <2>1, <2>2, QuietTracks
<1>7. CASE Handle
  BY <1>7, TakeTracks
<1>8. CASE BtStep /\ UNCHANGED <<coexVars, hubVars>>
  BY <1>8, PostTracks
<1>9. CASE UNCHANGED <<btVars, hubVars>>
  BY <1>9, QuietTracks DEF btVars, hubVars
<1>10. QED
  BY <1>1, <1>2, <1>3, <1>4, <1>5, <1>6, <1>7, <1>8, <1>9
  DEF Next, Command, WifiStep, vars

\* While audio streams over a control channel both sides have, no change of the
\* track goes unnoticed once the queue is empty, however changes, buttons, ends
\* of the channel and disconnect() interleave with the refresh.
THEOREM TracksCorrect == FollowsTracks /\ Spec => []TracksFollowed
<1>1. Init => TracksInv
  BY DEF Init, BtInit, TracksInv
<1>2. FollowsTracks /\ TypeOK /\ TracksInv /\ [Next]_vars
        => FollowsTracks' /\ TracksInv'
  BY TracksPreserved DEF FollowsTracks
<1>3. TracksInv => TracksFollowed
  BY DEF TracksInv, TracksFollowed, Waiting
<1>4. QED
  BY <1>1, <1>2, <1>3, TypeCorrect, PTL DEF Spec


-----------------------------------------------------------------------------
(* ReconnectOnlyAfterLoss.  disable() is excluded, and the property really  *)
(* fails with it: an enable() that comes while disable() still waits for    *)
(* DISCONNECTED arms the deadline over a live connection, whose graceful    *)
(* end then leaves it armed.                                                *)

\* A hub that is not enabled never was since the boot: nothing of a session is
\* left that enable() could start from.
Unused ==
  /\ event_queue = << >> /\ link = "down" /\ stack # "on"
  /\ ~stream /\ ~ct_link /\ ~connected /\ ~reconnect_at

UnusedInv ==
  /\ main_pc = "off" => ~enabled
  /\ ~enabled => Unused

\* An armed deadline belongs to the last drop and not to an earlier one.
LossInv ==
  /\ UnusedInv
  /\ ~enabled => last_drop = "none"
  /\ reconnect_at => ~connected /\ last_drop # "released"

LEMMA UnusedPreserved ==
  ASSUME NeverDisabled, UnusedInv, [Next]_vars
  PROVE  UnusedInv'
<1> USE DEF linkVars, ctVars, sessionVars, reconnectVars
<1>1. CASE Setup \/ Enable \/ RestartDiscovery
  <2>1. main_pc' # "off"
    BY <1>1 DEF Setup, Enable, RestartDiscovery, Calls
  <2>2. CASE enabled'
    BY <2>1, <2>2 DEF UnusedInv
  <2>3. CASE ~enabled'
    <3>1. ~enabled
      BY <1>1, <2>3
      DEF Setup, Enable, RestartDiscovery, EnableCall, EnableSucceeds,
          EnableFails
    <3>2. /\ stack' # "on" /\ reconnect_at' = reconnect_at
          /\ UNCHANGED <<event_queue, link, stream, ct_link, connected>>
      BY <1>1, <2>3, <3>1
      DEF Setup, Enable, RestartDiscovery, EnableCall, EnableSucceeds,
          EnableFails, Calls, UnusedInv, Unused
    <3>3. QED
      BY <2>1, <3>1, <3>2, Zenon DEF UnusedInv, Unused
  <2>4. QED
    BY <2>2, <2>3
<1>2. CASE PanicReboot \/ PowerCut
  BY <1>2
  DEF PanicReboot, PowerCut, Reset, StackReset, HubRamReset, EndSession,
      UnusedInv, Unused
<1>3. CASE DisableConnected \/ DisableUnconnected
  BY <1>3
  DEF DisableConnected, DisableUnconnected, DisableCommon, Calls, NeverDisabled
<1>4. CASE Disconnect \/ Handle
  <2>1. enabled /\ enabled' = enabled /\ main_pc # "off" /\ main_pc' = main_pc
    BY <1>4
    DEF Disconnect, Calls, Handle, HandleConnected, HandleDisconnectedPending,
        HandleDisconnected, HandleAudioStarted, HandleAudioStopped,
        HandleCtConnected, HandleCtDisconnected, HandleTrackChanged,
        HandleNothingNew, Dequeue, UnusedInv, Unused
  <2>2. QED
    BY <2>1, Zenon DEF UnusedInv
<1>5. CASE RequestAudioSuspend \/ SendAvrcPassthrough \/ DrainDone
  <2>1. /\ main_pc' # "off"
        /\ UNCHANGED <<enabled, event_queue, link, stack, stream, ct_link,
                       connected, reconnect_at>>
    BY <1>5
    DEF RequestAudioSuspend, SendAvrcPassthrough, DrainDone, Calls, btVars
  <2>2. QED
    BY <2>1, Zenon DEF UnusedInv, Unused
<1>6. CASE LoopTop
  <2>1. /\ main_pc' # "off" /\ CheckReconnect
        /\ UNCHANGED <<enabled, event_queue, stack, ct_link, connected>>
    BY <1>6 DEF LoopTop
  <2>2. CASE enabled
    BY <2>1, <2>2 DEF UnusedInv
  <2>3. CASE ~enabled
    <3>1. UNCHANGED <<link, stream, reconnect_at>>
      BY <2>1, <2>3 DEF CheckReconnect
    <3>2. QED
      BY <2>1, <3>1, Zenon DEF UnusedInv, Unused
  <2>4. QED
    BY <2>2, <2>3
<1>7. CASE BtStep /\ UNCHANGED <<coexVars, hubVars>>
  <2>1. UNCHANGED <<enabled, main_pc>>
    BY <1>7 DEF hubVars
  <2>2. stack = "on" \/ link # "down" \/ stream \/ ct_link
    BY <1>7
    DEF BtStep, PeerConnects, ConnectSucceeds, ConnectFails, AudioStarts,
        AudioStops, LinkDrops, CtConnects, CtDisconnects, TrackChanges, Chat
  <2>3. enabled
    BY <2>2 DEF UnusedInv, Unused
  <2>4. QED
    BY <2>1, <2>3 DEF UnusedInv
<1>8. CASE UNCHANGED <<btVars, hubVars>>
  BY <1>8, Zenon DEF btVars, hubVars, UnusedInv, Unused
<1>9. QED
  BY <1>1, <1>2, <1>3, <1>4, <1>5, <1>6, <1>7, <1>8
  DEF Next, Command, WifiStep, vars

\* The deadline is armed by enable(), over a hub that has no connection, and by
\* the loss of one; nothing else arms it, and every CONNECTED disarms it.
LEMMA ArmedByLoss ==
  ASSUME NeverDisabled, UnusedInv, reconnect_at => ~connected, Next, reconnect_at'
  PROVE  \/ reconnect_at /\ ~connected /\ ~connected'
         \/ ~enabled /\ enabled' /\ ~connected'
         \/ connected /\ ~connected' /\ ConnectionLost
<1> USE DEF sessionVars, reconnectVars
<1>1. CASE Setup \/ Enable \/ RestartDiscovery
  <2>1. /\ connected' = connected
        /\ \/ reconnect_at' = reconnect_at
           \/ ~enabled /\ enabled'
    BY <1>1
    DEF Setup, Enable, RestartDiscovery, Calls, EnableCall, EnableSucceeds,
        EnableFails, UnusedInv
  <2>2. QED
    BY <2>1, Zenon DEF UnusedInv, Unused
<1>2. CASE PanicReboot \/ PowerCut
  BY <1>2 DEF PanicReboot, PowerCut, Reset, HubRamReset
<1>3. CASE DisableConnected \/ DisableUnconnected \/ Disconnect
  BY <1>3
  DEF DisableConnected, DisableUnconnected, DisableCommon, Disconnect,
      DisarmReconnect
<1>4. CASE UNCHANGED <<reconnect_at, connected>>
  BY <1>4, Zenon
<1>5. CASE LoopTop
  <2>1. /\ connected' = connected
        /\ reconnect_at' = reconnect_at \/ reconnect_at
    BY <1>5 DEF LoopTop, CheckReconnect
  <2>2. QED
    BY <2>1, Zenon
<1>6. CASE HandleConnected
  BY <1>6 DEF HandleConnected, DisarmReconnect
<1>7. CASE HandleDisconnectedPending
  BY <1>7 DEF HandleDisconnectedPending, EndSession
<1>8. CASE HandleDisconnected
  <2>1. CASE ConnectionLost
    BY <1>8, <2>1 DEF HandleDisconnected, EndSession
  <2>2. CASE ~ConnectionLost
    BY <1>8, <2>2 DEF HandleDisconnected, ConnectionLost
  <2>3. QED
    BY <2>1, <2>2
<1>9. CASE \/ HandleAudioStarted \/ HandleAudioStopped \/ HandleCtConnected
           \/ HandleCtDisconnected \/ HandleTrackChanged \/ HandleNothingNew
  BY <1>4, <1>9
  DEF HandleAudioStarted, HandleAudioStopped, HandleCtConnected,
      HandleCtDisconnected, HandleTrackChanged, HandleNothingNew
<1>10. CASE RequestAudioSuspend \/ SendAvrcPassthrough \/ DrainDone
  BY <1>4, <1>10 DEF RequestAudioSuspend, SendAvrcPassthrough, DrainDone
<1>11. CASE UNCHANGED hubVars
  BY <1>4, <1>11 DEF hubVars
<1>12. QED
  BY <1>1, <1>2, <1>3, <1>5, <1>6, <1>7, <1>8, <1>9, <1>10, <1>11
  DEF Next, Command, Handle, WifiStep

\* Only a reset ends the hub's service.
LEMMA EndsWithReset ==
  ASSUME NeverDisabled, Next, enabled, ~enabled'
  PROVE  main_pc' = "off"
<1>1. CASE Setup \/ Enable \/ RestartDiscovery
  BY <1>1
  DEF Setup, Enable, RestartDiscovery, EnableCall, EnableSucceeds, EnableFails
<1>2. CASE PanicReboot \/ PowerCut
  BY <1>2 DEF PanicReboot, PowerCut, Reset
<1>3. CASE DisableConnected \/ DisableUnconnected
  BY <1>3
  DEF DisableConnected, DisableUnconnected, DisableCommon, Calls, NeverDisabled
<1>4. CASE Disconnect \/ RequestAudioSuspend \/ SendAvrcPassthrough
  BY <1>4 DEF Disconnect, RequestAudioSuspend, SendAvrcPassthrough
<1>5. CASE LoopTop \/ DrainDone
  BY <1>5 DEF LoopTop, DrainDone
<1>6. CASE Handle
  BY <1>6
  DEF Handle, HandleConnected, HandleDisconnectedPending, HandleDisconnected,
      HandleAudioStarted, HandleAudioStopped, HandleCtConnected,
      HandleCtDisconnected, HandleTrackChanged, HandleNothingNew
<1>7. CASE UNCHANGED hubVars
  BY <1>7 DEF hubVars
<1>8. QED
  BY <1>1, <1>2, <1>3, <1>4, <1>5, <1>6, <1>7 DEF Next, Command, WifiStep

LEMMA LossPreserved ==
  ASSUME NeverDisabled, LossInv, [HistoryNext]_hvars
  PROVE  LossInv'
<1>1. UnusedInv'
  BY UnusedPreserved DEF LossInv, HistoryNext, hvars
<1>2. CASE HistoryNext
  <2>1. Next /\ last_drop' = NextDrop
    BY <1>2 DEF HistoryNext
  <2>2. ASSUME ~enabled' PROVE last_drop' = "none"
    <3>1. CASE main_pc' = "off"
      BY <2>1, <3>1 DEF NextDrop
    <3>2. CASE enabled
      BY <2>1, <2>2, <3>1, <3>2, EndsWithReset
    <3>3. CASE ~enabled
      BY <2>1, <3>3 DEF NextDrop, LossInv, UnusedInv, Unused
    <3>4. QED
      BY <3>1, <3>2, <3>3
  <2>3. ASSUME reconnect_at' PROVE ~connected' /\ last_drop' # "released"
    <3>1. \/ reconnect_at /\ ~connected /\ ~connected'
          \/ ~enabled /\ enabled' /\ ~connected'
          \/ connected /\ ~connected' /\ ConnectionLost
      BY <2>1, <2>3, ArmedByLoss DEF LossInv
    <3>2. QED
      BY <2>1, <3>1 DEF NextDrop, LossInv
  <2>4. QED
    BY <1>1, <2>2, <2>3 DEF LossInv
<1>3. CASE UNCHANGED hvars
  BY <1>1, <1>3, Zenon DEF hvars, vars, hubVars, reconnectVars, sessionVars, LossInv
<1>4. QED
  BY <1>2, <1>3

\* esp_a2d_sink_connect is called for an armed deadline and for nothing else.
LEMMA CalledWhenArmed ==
  ASSUME Next, link = "down", link' = "connecting"
  PROVE  reconnect_at
<1> USE DEF linkVars
<1>1. CASE LoopTop
  BY <1>1 DEF LoopTop, CheckReconnect
<1>2. CASE Setup \/ Enable \/ RestartDiscovery
  BY <1>2 DEF Setup, Enable, RestartDiscovery
<1>3. CASE PanicReboot \/ PowerCut
  BY <1>3 DEF PanicReboot, PowerCut, Reset, StackReset
<1>4. CASE DisableConnected \/ DisableUnconnected \/ Disconnect
  BY <1>4
  DEF DisableConnected, DisableUnconnected, Disconnect, SinkDisconnect,
      FinishDisable, DeinitBt, StackDisable
<1>5. CASE RequestAudioSuspend \/ SendAvrcPassthrough \/ DrainDone
  BY <1>5 DEF RequestAudioSuspend, SendAvrcPassthrough, DrainDone, btVars
<1>6. CASE Handle
  BY <1>6
  DEF Handle, HandleConnected, HandleDisconnectedPending, HandleDisconnected,
      HandleAudioStarted, HandleAudioStopped, HandleCtConnected,
      HandleCtDisconnected, HandleTrackChanged, HandleNothingNew,
      FinishDisable, DeinitBt, StackDisable
<1>7. CASE BtStep
  BY <1>7
  DEF BtStep, PeerConnects, ConnectSucceeds, ConnectFails, AudioStarts,
      AudioStops, LinkDrops, CtConnects, CtDisconnects, TrackChanges, Chat
<1>8. CASE UNCHANGED btVars
  BY <1>8 DEF btVars
<1>9. QED
  BY <1>1, <1>2, <1>3, <1>4, <1>5, <1>6, <1>7, <1>8
  DEF Next, Command, WifiStep

\* Without disable() the hub calls back only a phone it has lost, whatever the
\* queue loses, whenever disconnect() or the power cut comes.
THEOREM LossCorrect == NeverDisabled /\ HistorySpec => ReconnectOnlyAfterLoss
<1>1. HistoryInit => LossInv
  BY DEF HistoryInit, Init, HubRamInit, BtInit, LossInv, UnusedInv, Unused
<1>2. NeverDisabled /\ LossInv /\ [HistoryNext]_hvars
        => NeverDisabled' /\ LossInv'
  BY LossPreserved DEF NeverDisabled
<1>3. LossInv /\ [HistoryNext]_hvars
        => [link = "down" /\ link' = "connecting" => last_drop # "released"]_hvars
  <2>1. CASE HistoryNext
    BY <2>1, CalledWhenArmed DEF HistoryNext, LossInv
  <2>2. CASE UNCHANGED hvars
    BY <2>2
  <2>3. QED
    BY <2>1, <2>2
<1>4. QED
  BY <1>1, <1>2, <1>3, PTL DEF HistorySpec, ReconnectOnlyAfterLoss

-----------------------------------------------------------------------------
(* LinkSettled.  Here disconnect() takes the hub past its queue and records *)
(* are lost, so only the connection is followed, and only while no loss has *)
(* spoiled it.  disable() is excluded: it ends the stack under records that *)
(* are still in the queue.                                                  *)

Views == [peer: Peers \cup {NoPeer}, audio: BOOLEAN]

\* The hub's view of the connection alone.
PeerView == [peer |-> IF connected THEN last_peer ELSE NoPeer, audio |-> FALSE]

LEMMA FollowPeer ==
  ASSUME NEW view \in Views, NEW ev \in A2DPEventRecord
  PROVE  /\ Follow(view, ev) \in Views
         /\ Follow(view, ev).peer =
              IF ev.type = "DISCONNECTED" THEN NoPeer
              ELSE IF ev.type = "CONNECTED" /\ view.peer = NoPeer
                THEN ev.remote_bda ELSE view.peer
<1>1. ev.remote_bda \in Peers \cup {NoPeer}
  BY DEF A2DPEventRecord
<1>2. CASE ev.type = "CONNECTED" /\ view.peer = NoPeer
  BY <1>1, <1>2 DEF Follow, Views
<1>3. CASE ev.type = "DISCONNECTED"
  BY <1>3 DEF Follow, Views
<1>4. CASE ev.type \in {"AUDIO_STARTED", "AUDIO_STOPPED"}
  BY <1>4 DEF Follow, Views
<1>5. CASE /\ ~(ev.type = "CONNECTED" /\ view.peer = NoPeer)
           /\ ev.type \notin {"DISCONNECTED", "AUDIO_STARTED", "AUDIO_STOPPED"}
  BY <1>5 DEF Follow, Views
<1>6. QED
  BY <1>2, <1>3, <1>4, <1>5

LEMMA ReplayTyped ==
  ASSUME NEW view \in Views, NEW queue \in Seq(A2DPEventRecord)
  PROVE  \A i \in 0 .. Len(queue) : Replay(view, queue)[i] \in Views
<1> DEFINE Good == {i \in Nat : i <= Len(queue) => Replay(view, queue)[i] \in Views}
<1>1. 0 \in Good
  BY ReplayDefined
<1>2. ASSUME NEW i \in Nat, i \in Good PROVE i + 1 \in Good
  <2>1. SUFFICES ASSUME i + 1 <= Len(queue)
                 PROVE  Replay(view, queue)[i + 1] \in Views
    OBVIOUS
  <2>2. Replay(view, queue)[i] \in Views /\ queue[i + 1] \in A2DPEventRecord
    BY <1>2, <2>1
  <2>3. Replay(view, queue)[i + 1] = Follow(Replay(view, queue)[i], queue[i + 1])
    BY ReplayDefined
  <2>4. QED
    BY <2>2, <2>3, FollowPeer
<1>3. Nat \subseteq Good
  <2> HIDE DEF Good
  <2>1. QED
    BY <1>1, <1>2, NatSetInduction
<1>4. QED
  BY <1>3

\* The records of a queue tell of one connection after the other.
OneByOne(view, queue) ==
  \A i \in 1 .. Len(queue) :
    queue[i].type = "CONNECTED" => Replay(view, queue)[i - 1].peer = NoPeer

\* A hub that has given its connection up follows such a queue as one that has
\* it does: until the next record of the link it knows less, from there the same.
LEMMA LessKnown ==
  ASSUME NEW queue \in Seq(A2DPEventRecord), NEW v \in Views, NEW w \in Views,
         w.peer \in {NoPeer, v.peer}, OneByOne(v, queue)
  PROVE  \A i \in 0 .. Len(queue) :
           \/ Replay(w, queue)[i].peer = Replay(v, queue)[i].peer
           \/ /\ Replay(v, queue)[i].peer = v.peer
              /\ Replay(w, queue)[i].peer = w.peer
<1> DEFINE Known(i) ==
      \/ Replay(w, queue)[i].peer = Replay(v, queue)[i].peer
      \/ /\ Replay(v, queue)[i].peer = v.peer
         /\ Replay(w, queue)[i].peer = w.peer
    T == {i \in Nat : i <= Len(queue) => Known(i)}
<1>1. 0 \in T
  BY ReplayDefined
<1>2. ASSUME NEW i \in Nat, i \in T PROVE i + 1 \in T
  <2>1. SUFFICES ASSUME i + 1 <= Len(queue) PROVE Known(i + 1)
    OBVIOUS
  <2>2. /\ Known(i) /\ i \in 0 .. Len(queue) /\ i + 1 \in 1 .. Len(queue)
        /\ (i + 1) - 1 = i /\ queue[i + 1] \in A2DPEventRecord
    BY <1>2, <2>1
  <2>3. Replay(v, queue)[i] \in Views /\ Replay(w, queue)[i] \in Views
    BY <2>2, ReplayTyped
  <2>4. /\ Replay(v, queue)[i + 1] = Follow(Replay(v, queue)[i], queue[i + 1])
        /\ Replay(w, queue)[i + 1] = Follow(Replay(w, queue)[i], queue[i + 1])
    BY ReplayDefined
  <2>5. queue[i + 1].type = "CONNECTED" => Replay(v, queue)[i].peer = NoPeer
    BY <2>2 DEF OneByOne
  <2>6. QED
    BY <2>2, <2>3, <2>4, <2>5, FollowPeer
<1>3. Nat \subseteq T
  <2> HIDE DEF T
  <2>1. QED
    BY <1>1, <1>2, NatSetInduction
<1>4. QED
  BY <1>3

LEMMA LessKnownOneByOne ==
  ASSUME NEW queue \in Seq(A2DPEventRecord), NEW v \in Views, NEW w \in Views,
         w.peer \in {NoPeer, v.peer}, OneByOne(v, queue)
  PROVE  OneByOne(w, queue)
<1>1. SUFFICES ASSUME NEW i \in 1 .. Len(queue), queue[i].type = "CONNECTED"
               PROVE  Replay(w, queue)[i - 1].peer = NoPeer
  BY DEF OneByOne
<1>2. i - 1 \in 0 .. Len(queue) /\ Replay(v, queue)[i - 1].peer = NoPeer
  BY <1>1 DEF OneByOne
<1>3. QED
  BY <1>2, LessKnown

LEMMA AppendOneByOne ==
  ASSUME NEW queue \in Seq(A2DPEventRecord), NEW ev \in A2DPEventRecord,
         NEW view \in Views, OneByOne(view, queue),
         ev.type = "CONNECTED" => Replay(view, queue)[Len(queue)].peer = NoPeer
  PROVE  /\ OneByOne(view, Append(queue, ev))
         /\ Replay(view, Append(queue, ev))[Len(Append(queue, ev))]
              = Follow(Replay(view, queue)[Len(queue)], ev)
<1> DEFINE longer == Append(queue, ev)
           n == Len(queue)
           before == Replay(view, queue)
           after == Replay(view, longer)
<1>1. /\ n \in Nat /\ Len(longer) = n + 1 /\ longer[n + 1] = ev
      /\ \A i \in 1 .. n : longer[i] = queue[i]
  OBVIOUS
<1>2. /\ \A i \in 0 .. n : after[i] = before[i]
      /\ after[n + 1] = Follow(before[n], ev)
  BY ReplayAppend
<1>3. /\ \A i \in 1 .. n : queue[i].type = "CONNECTED" => before[i - 1].peer = NoPeer
      /\ ev.type = "CONNECTED" => before[n].peer = NoPeer
  BY DEF OneByOne
<1> HIDE DEF n, longer, before, after
<1>4. ASSUME NEW i \in 1 .. n + 1, longer[i].type = "CONNECTED"
      PROVE  after[i - 1].peer = NoPeer
  <2>1. i - 1 \in 0 .. n
    BY <1>1
  <2>2. CASE i = n + 1
    <3>1. i - 1 = n
      BY <1>1, <2>2
    <3>2. QED
      BY <1>1, <1>2, <1>3, <1>4, <2>1, <2>2, <3>1
  <2>3. CASE i \in 1 .. n
    BY <1>1, <1>2, <1>3, <1>4, <2>1, <2>3
  <2>4. QED
    BY <1>1, <2>2, <2>3
<1>5. OneByOne(view, longer)
  BY <1>1, <1>4 DEF OneByOne, after
<1>6. after[Len(longer)] = Follow(before[n], ev)
  BY <1>1, <1>2
<1>7. QED
  BY <1>5, <1>6 DEF n, longer, before, after

LEMMA TailOneByOne ==
  ASSUME NEW queue \in Seq(A2DPEventRecord), queue # << >>,
         NEW view \in Views, OneByOne(view, queue)
  PROVE  /\ OneByOne(Follow(view, Head(queue)), Tail(queue))
         /\ Replay(Follow(view, Head(queue)), Tail(queue))[Len(Tail(queue))]
              = Replay(view, queue)[Len(queue)]
<1> DEFINE n == Len(queue) - 1
           rest == Tail(queue)
           before == Replay(view, queue)
           after == Replay(Follow(view, Head(queue)), rest)
<1>1. /\ n \in Nat /\ Len(rest) = n /\ Len(queue) = n + 1
      /\ \A i \in 1 .. n : rest[i] = queue[i + 1]
  OBVIOUS
<1>2. \A i \in 0 .. n : after[i] = before[i + 1]
  BY ReplayTail
<1>3. \A i \in 1 .. n + 1 : queue[i].type = "CONNECTED" => before[i - 1].peer = NoPeer
  BY <1>1 DEF OneByOne
<1> HIDE DEF n, rest, before, after
<1>4. ASSUME NEW i \in 1 .. n, rest[i].type = "CONNECTED"
      PROVE  after[i - 1].peer = NoPeer
  <2>1. i - 1 \in 0 .. n /\ (i - 1) + 1 = i /\ i + 1 \in 1 .. n + 1 /\ (i + 1) - 1 = i
    BY <1>1
  <2>2. after[i - 1] = before[i]
    BY <1>2, <2>1
  <2>3. before[(i + 1) - 1].peer = NoPeer
    BY <1>1, <1>3, <1>4, <2>1
  <2>4. QED
    BY <2>1, <2>2, <2>3
<1>5. OneByOne(Follow(view, Head(queue)), rest)
  BY <1>1, <1>4 DEF OneByOne, after
<1>6. after[Len(rest)] = before[Len(queue)]
  BY <1>1, <1>2
<1>7. QED
  BY <1>5, <1>6 DEF n, rest, before, after

\* What the hub believes when the queue is empty, against the link.
LinkTold(l, p, peer) ==
  /\ l = "up" => peer = p
  /\ l \in {"down", "connecting"} => peer = NoPeer
  /\ l = "closing" => peer \in {NoPeer, p}

QueueSettles ==
  /\ OneByOne(PeerView, event_queue)
  /\ LinkTold(link, link_peer,
              Replay(PeerView, event_queue)[Len(event_queue)].peer)

SettleInv ==
  /\ ~pending_deinit
  /\ main_pc = "off" => ~connected
  /\ connected => last_peer \in Peers
  /\ link # "down" => link_peer \in Peers
  /\ \A i \in 1 .. Len(event_queue) :
       event_queue[i].type = "CONNECTED" => event_queue[i].remote_bda \in Peers
  /\ ~lost => QueueSettles

LEMMA PeerViewTyped ==
  ASSUME TypeOK PROVE PeerView \in Views
<1>1. last_peer \in Peers \cup {NoPeer} /\ FALSE \in BOOLEAN
  BY DEF TypeOK, HubTypeOK
<1>2. (IF connected THEN last_peer ELSE NoPeer) \in Peers \cup {NoPeer}
  BY <1>1
<1>3. QED
  BY <1>1, <1>2 DEF PeerView, Views

\* A step that neither posts nor takes a record, and moves no live link.
LEMMA QuietSettles ==
  ASSUME SettleInv, UNCHANGED <<event_queue, connected>>, ~pending_deinit',
         connected => last_peer' = last_peer,
         main_pc' = "off" => main_pc = "off",
         ~lost' => ~lost,
         \/ UNCHANGED <<link, link_peer>>
         \/ link = "down" /\ link' = "connecting" /\ link_peer' \in Peers
  PROVE  SettleInv'
<1>1. PeerView' = PeerView
  BY DEF PeerView
<1>2. QueueSettles => QueueSettles'
  BY <1>1 DEF QueueSettles, LinkTold
<1>3. QED
  BY <1>2 DEF SettleInv

\* A reset.
LEMMA EmptySettles ==
  ASSUME event_queue' = << >>, link' = "down", ~connected', ~pending_deinit'
  PROVE  SettleInv'
<1>1. Replay(PeerView, event_queue)'[0] = PeerView'
  BY ReplayDefined
<1>2. PeerView'.peer = NoPeer
  BY DEF PeerView
<1>3. QueueSettles'
  BY <1>1, <1>2 DEF QueueSettles, LinkTold, OneByOne
<1>4. QED
  BY <1>3 DEF SettleInv

\* disconnect() closes the link only if it is the one the hub has.
LEMMA DisconnectSettles ==
  ASSUME TypeOK, SettleInv, Disconnect, ~lost' => ~lost
  PROVE  SettleInv'
<1>1. /\ UNCHANGED <<event_queue, last_peer, pending_deinit, main_pc, link_peer>>
      /\ connected /\ connected' = FALSE
      /\ link' = IF link = "up" /\ link_peer = last_peer THEN "closing" ELSE link
  BY DEF Disconnect, Calls, EndSession, SinkDisconnect, peerVars
<1>2. ASSUME QueueSettles PROVE QueueSettles'
  <2>1. event_queue \in Seq(A2DPEventRecord) /\ Len(event_queue) \in Nat
    BY DEF TypeOK, BtTypeOK
  <2>2. PICK v \in Views : v = PeerView /\ v.peer = last_peer
    BY <1>1, PeerViewTyped DEF PeerView
  <2>3. PICK w \in Views : w = PeerView' /\ w.peer = NoPeer
    <3>1. PeerView' = [peer |-> NoPeer, audio |-> FALSE]
      BY <1>1 DEF PeerView
    <3>2. [peer |-> NoPeer, audio |-> FALSE] \in Views
      BY DEF Views
    <3>3. QED
      BY <3>1, <3>2
  <2>4. PICK n \in 0 .. Len(event_queue) : n = Len(event_queue)
    BY <2>1
  <2>5. PICK queue \in Seq(A2DPEventRecord) :
          queue = event_queue /\ queue = event_queue' /\ n = Len(queue)
    BY <1>1, <2>1, <2>4
  <2>6. OneByOne(v, queue) /\ LinkTold(link, link_peer, Replay(v, queue)[n].peer)
    BY <1>2, <2>2, <2>4, <2>5 DEF QueueSettles
  <2>7. \/ Replay(w, queue)[n].peer = Replay(v, queue)[n].peer
        \/ Replay(v, queue)[n].peer = v.peer /\ Replay(w, queue)[n].peer = w.peer
    BY <2>3, <2>4, <2>5, <2>6, LessKnown
  <2>8. OneByOne(w, queue)
    BY <2>3, <2>6, LessKnownOneByOne
  <2>9. LinkTold(link', link_peer', Replay(w, queue)[n].peer)
    BY <1>1, <2>2, <2>3, <2>6, <2>7 DEF LinkTold
  <2>10. QED
    BY <2>3, <2>5, <2>8, <2>9 DEF QueueSettles
<1>3. QED
  BY <1>1, <1>2 DEF SettleInv

LEMMA PostSettles ==
  ASSUME TypeOK, SettleInv, BtStep, UNCHANGED hubVars,
         ~lost' => ~lost /\ ~RecordLost
  PROVE  SettleInv'
<1>0. /\ event_queue \in Seq(A2DPEventRecord) /\ Len(event_queue) \in Nat
      /\ PeerView \in Views
  BY PeerViewTyped DEF TypeOK, BtTypeOK
<1>1. /\ PeerView' = PeerView
      /\ UNCHANGED <<pending_deinit, connected, last_peer, main_pc>>
  BY DEF hubVars, sessionVars, peerVars, PeerView
<1>2. ASSUME NEW ev \in A2DPEventRecord, Post(ev),
             ev.type = "CONNECTED"
               => ev.remote_bda \in Peers /\ link \in {"down", "connecting"},
             link' # "down" => link_peer' \in Peers,
             \A view \in Views :
               LinkTold(link, link_peer, view.peer)
                 => LinkTold(link', link_peer', Follow(view, ev).peer)
      PROVE  SettleInv'
  <2>1. CASE event_queue' = Append(event_queue, ev)
    <3>1. \A i \in 1 .. Len(event_queue') :
            event_queue'[i].type = "CONNECTED" => event_queue'[i].remote_bda \in Peers
      BY <1>0, <1>2, <2>1 DEF SettleInv
    <3>2. ASSUME ~lost' PROVE QueueSettles'
      <4> DEFINE told == Replay(PeerView, event_queue)[Len(event_queue)]
                 longer == Append(event_queue, ev)
      <4>1. OneByOne(PeerView, event_queue) /\ LinkTold(link, link_peer, told.peer)
        BY <3>2 DEF SettleInv, QueueSettles
      <4>2. told \in Views
        BY <1>0, ReplayTyped
      <4>3. ev.type = "CONNECTED" => told.peer = NoPeer
        BY <1>2, <4>1 DEF LinkTold
      <4>4. /\ OneByOne(PeerView, longer)
            /\ Replay(PeerView, longer)[Len(longer)] = Follow(told, ev)
        BY <1>0, <4>1, <4>3, AppendOneByOne
      <4>5. LinkTold(link', link_peer', Follow(told, ev).peer)
        <5> HIDE DEF told
        <5>1. QED
          BY <1>2, <4>1, <4>2
      <4>6. /\ OneByOne(PeerView, event_queue)' = OneByOne(PeerView, longer)
            /\ Replay(PeerView, event_queue)'[Len(event_queue)'] = Follow(told, ev)
        BY <1>1, <2>1, <4>4
      <4> HIDE DEF told, longer
      <4>7. QED
        BY <4>4, <4>5, <4>6 DEF QueueSettles
    <3>3. QED
      BY <1>1, <1>2, <3>1, <3>2 DEF SettleInv
  <2>2. CASE Full /\ UNCHANGED event_queue
    <3>1. ~lost' => UNCHANGED <<link, link_peer>>
      BY <2>2 DEF RecordLost, linkVars
    <3>2. ASSUME ~lost' PROVE QueueSettles'
      BY <1>1, <2>2, <3>1, <3>2 DEF SettleInv, QueueSettles, LinkTold
    <3>3. QED
      BY <1>1, <1>2, <2>2, <3>2 DEF SettleInv
  <2>3. QED
    BY <1>2, <2>1, <2>2 DEF Post
<1>3. \A type \in A2DPEvent :
        Event(type) \in A2DPEventRecord /\ Event(type).type = type
  BY DEF Event, A2DPEventRecord
<1>4. \A p \in Peers \cup {NoPeer} :
        LET ev == [Event("CONNECTED") EXCEPT !.remote_bda = p]
        IN  /\ ev \in A2DPEventRecord /\ ev.type = "CONNECTED"
            /\ ev.remote_bda = p
  BY DEF Event, A2DPEventRecord, A2DPEvent
<1>5. \A abnormal \in BOOLEAN :
        LET ev == [Event("DISCONNECTED") EXCEPT !.abnormal = abnormal]
        IN  ev \in A2DPEventRecord /\ ev.type = "DISCONNECTED"
  BY DEF Event, A2DPEventRecord, A2DPEvent
<1>6. ASSUME NEW p \in Peers, PostConnected(p), link \in {"down", "connecting"},
             link' = "up", link_peer' = p
      PROVE  SettleInv'
  <2> DEFINE ev == [Event("CONNECTED") EXCEPT !.remote_bda = p]
  <2>1. ev \in A2DPEventRecord /\ ev.type = "CONNECTED" /\ ev.remote_bda = p
    BY <1>4
  <2>2. Post(ev)
    BY <1>6 DEF PostConnected
  <2> HIDE DEF ev
  <2>3. ASSUME NEW view \in Views, LinkTold(link, link_peer, view.peer)
        PROVE  LinkTold(link', link_peer', Follow(view, ev).peer)
    <3>1. view.peer = NoPeer
      BY <1>6, <2>3 DEF LinkTold
    <3>2. Follow(view, ev).peer = p
      BY <2>1, <3>1, FollowPeer
    <3>3. QED
      BY <1>6, <3>2 DEF LinkTold
  <2>4. QED
    BY <1>2, <1>6, <2>1, <2>2, <2>3
<1>7. ASSUME NEW p \in Peers, PeerConnects(p) PROVE SettleInv'
  BY <1>6, <1>7 DEF PeerConnects
<1>8. CASE ConnectSucceeds
  BY <1>6, <1>8 DEF ConnectSucceeds, SettleInv
<1>9. ASSUME NEW abnormal \in BOOLEAN, PostDisconnected(abnormal), link' = "down"
      PROVE  SettleInv'
  <2> DEFINE ev == [Event("DISCONNECTED") EXCEPT !.abnormal = abnormal]
  <2>1. ev \in A2DPEventRecord /\ ev.type = "DISCONNECTED"
    BY <1>5
  <2>2. Post(ev)
    BY <1>9 DEF PostDisconnected
  <2> HIDE DEF ev
  <2>3. ASSUME NEW view \in Views PROVE LinkTold(link', link_peer', Follow(view, ev).peer)
    <3>1. Follow(view, ev).peer = NoPeer
      BY <2>1, FollowPeer
    <3>2. QED
      BY <1>9, <3>1 DEF LinkTold
  <2>4. QED
    BY <1>2, <1>9, <2>1, <2>2, <2>3
<1>10. CASE ConnectFails \/ \E abnormal \in BOOLEAN : LinkDrops(abnormal)
  BY <1>9, <1>10 DEF ConnectFails, LinkDrops
<1>11. ASSUME NEW type \in A2DPEvent \ {"CONNECTED", "DISCONNECTED"},
              Post(Event(type)), UNCHANGED <<link, link_peer>>
       PROVE  SettleInv'
  <2> DEFINE ev == Event(type)
  <2>1. ev \in A2DPEventRecord /\ ev.type = type /\ Post(ev)
    BY <1>3, <1>11
  <2> HIDE DEF ev
  <2>2. ASSUME NEW view \in Views, LinkTold(link, link_peer, view.peer)
        PROVE  LinkTold(link', link_peer', Follow(view, ev).peer)
    <3>1. Follow(view, ev).peer = view.peer
      BY <2>1, FollowPeer
    <3>2. QED
      BY <1>11, <2>2, <3>1 DEF LinkTold
  <2>3. QED
    BY <1>2, <1>11, <2>1, <2>2 DEF SettleInv
<1>12. CASE AudioStarts \/ AudioStops
  BY <1>11, <1>12 DEF AudioStarts, AudioStops, PostAudioState, A2DPEvent
<1>13. CASE CtConnects \/ CtDisconnects \/ TrackChanges \/ Chat
  BY <1>11, <1>13
  DEF CtConnects, CtDisconnects, TrackChanges, Chat, PostCtState,
      PostTrackChange, linkVars, A2DPEvent
<1>14. QED
  BY <1>7, <1>8, <1>10, <1>12, <1>13 DEF BtStep

\* The first record may be taken by a hub whose view of the connection follows.
LEMMA TakeSettles ==
  ASSUME TypeOK, SettleInv, Handle, ~lost' => ~lost
  PROVE  SettleInv'
<1> DEFINE ev == Head(event_queue)
<1>0. /\ event_queue \in Seq(A2DPEventRecord) /\ event_queue # << >>
      /\ event_queue' = Tail(event_queue) /\ main_pc' = main_pc
      /\ main_pc # "off" /\ ev \in A2DPEventRecord /\ PeerView \in Views
  <2>1. event_queue \in Seq(A2DPEventRecord) /\ PeerView \in Views
    BY PeerViewTyped DEF TypeOK, BtTypeOK
  <2>2. /\ event_queue # << >> /\ event_queue' = Tail(event_queue)
        /\ main_pc' = main_pc /\ main_pc = "drain"
    BY DEF Handle, HandleConnected, HandleDisconnectedPending,
           HandleDisconnected, HandleAudioStarted, HandleAudioStopped,
           HandleCtConnected, HandleCtDisconnected, HandleTrackChanged,
           HandleNothingNew, Dequeue
  <2>3. QED
    BY <2>1, <2>2
<1>1. ASSUME UNCHANGED <<link, link_peer, pending_deinit>>,
             PeerView' \in Views, PeerView'.peer = Follow(PeerView, ev).peer,
             connected' => last_peer' \in Peers
      PROVE  SettleInv'
  <2>1. \A i \in 1 .. Len(event_queue') :
          event_queue'[i].type = "CONNECTED" => event_queue'[i].remote_bda \in Peers
    BY <1>0 DEF SettleInv
  <2>2. ASSUME ~lost' PROVE QueueSettles'
    <3>1. PICK v \in Views : v = Follow(PeerView, ev)
      BY <1>0, FollowPeer
    <3>2. PICK w \in Views : w = PeerView' /\ w.peer = v.peer
      BY <1>1, <3>1
    <3>3. PICK rest \in Seq(A2DPEventRecord) :
            rest = Tail(event_queue) /\ rest = event_queue'
      BY <1>0
    <3>4. /\ OneByOne(PeerView, event_queue)
          /\ LinkTold(link, link_peer,
                      Replay(PeerView, event_queue)[Len(event_queue)].peer)
      BY <2>2 DEF SettleInv, QueueSettles
    <3>5. /\ OneByOne(v, rest)
          /\ Replay(v, rest)[Len(rest)]
               = Replay(PeerView, event_queue)[Len(event_queue)]
      BY <1>0, <3>1, <3>3, <3>4, TailOneByOne
    <3>6. Len(rest) \in 0 .. Len(rest)
      BY <3>3
    <3>7. Replay(w, rest)[Len(rest)].peer = Replay(v, rest)[Len(rest)].peer
      BY <3>2, <3>5, <3>6, LessKnown
    <3>8. OneByOne(w, rest)
      BY <3>2, <3>5, LessKnownOneByOne
    <3>9. LinkTold(link', link_peer', Replay(w, rest)[Len(rest)].peer)
      BY <1>1, <3>4, <3>5, <3>7
    <3>10. QED
      BY <3>2, <3>3, <3>8, <3>9 DEF QueueSettles
  <2>3. QED
    BY <1>0, <1>1, <2>1, <2>2 DEF SettleInv
<1>2. ev.type = "CONNECTED" => ev.remote_bda \in Peers
  BY <1>0 DEF SettleInv
<1>3. Follow(PeerView, ev).peer =
        IF ev.type = "DISCONNECTED" THEN NoPeer
        ELSE IF ev.type = "CONNECTED" /\ PeerView.peer = NoPeer
          THEN ev.remote_bda ELSE PeerView.peer
  BY <1>0, FollowPeer
<1>4. \A p \in Peers \cup {NoPeer} : [peer |-> p, audio |-> FALSE] \in Views
  BY DEF Views
<1> HIDE DEF ev
<1> USE DEF linkVars, sessionVars, peerVars
<1>5. CASE HandleConnected
  <2>1. /\ ev.type = "CONNECTED" /\ ~connected /\ connected' = TRUE
        /\ last_peer' = ev.remote_bda
        /\ UNCHANGED <<link, link_peer, pending_deinit>>
    BY <1>5 DEF HandleConnected, Dequeue, SavePeer, ev
  <2>2. /\ PeerView' = [peer |-> ev.remote_bda, audio |-> FALSE]
        /\ PeerView.peer = NoPeer
    BY <2>1 DEF PeerView
  <2>3. QED
    BY <1>1, <1>2, <1>3, <1>4, <2>1, <2>2
<1>6. CASE HandleDisconnectedPending
  BY <1>6 DEF HandleDisconnectedPending, SettleInv
<1>7. CASE HandleDisconnected
  <2>1. /\ ev.type = "DISCONNECTED" /\ connected' = FALSE
        /\ UNCHANGED <<link, link_peer, pending_deinit>>
    BY <1>7 DEF HandleDisconnected, Dequeue, EndSession, ev
  <2>2. PeerView' = [peer |-> NoPeer, audio |-> FALSE]
    BY <2>1 DEF PeerView
  <2>3. QED
    BY <1>1, <1>3, <1>4, <2>1, <2>2
<1>8. CASE \/ HandleAudioStarted \/ HandleAudioStopped \/ HandleCtConnected
           \/ HandleCtDisconnected \/ HandleTrackChanged \/ HandleNothingNew
  <2>1. /\ \/ ev.type \notin {"CONNECTED", "DISCONNECTED"}
           \/ ev.type = "CONNECTED" /\ connected
           \/ ev.type = "DISCONNECTED" /\ ~connected
        /\ UNCHANGED <<connected, last_peer>>
        /\ UNCHANGED <<link, link_peer, pending_deinit>>
    BY <1>8
    DEF HandleAudioStarted, HandleAudioStopped, HandleCtConnected,
        HandleCtDisconnected, HandleTrackChanged, HandleNothingNew, Dequeue, ev
  <2>2. PeerView' = PeerView
    BY <2>1 DEF PeerView
  <2>3. PeerView.peer = IF connected THEN last_peer ELSE NoPeer
    BY DEF PeerView
  <2>4. connected => last_peer # NoPeer
    BY NoPeerAssumption DEF SettleInv
  <2>5. Follow(PeerView, ev).peer = PeerView.peer
    BY <1>3, <2>1, <2>3, <2>4
  <2>6. connected' => last_peer' \in Peers
    BY <2>1 DEF SettleInv
  <2>7. QED
    BY <1>0, <1>1, <2>1, <2>2, <2>5, <2>6
<1>9. QED
  BY <1>5, <1>6, <1>7, <1>8 DEF Handle

LEMMA SettlePreserved ==
  ASSUME NeverDisabled, TypeOK, UnusedInv, ReconnectArmedSafely, SettleInv,
         [HistoryNext]_hvars
  PROVE  SettleInv'
<1> USE DEF sessionVars, linkVars, peerVars
<1>0. /\ ~pending_deinit /\ (main_pc = "off" => ~connected)
      /\ "disable" \notin Commands
      /\ main_pc = "off" => event_queue = << >> /\ link = "down" /\ stack # "on"
                            /\ ~stream /\ ~ct_link
  BY DEF SettleInv, NeverDisabled, UnusedInv, Unused
<1>1. CASE HistoryNext
  <2>1. main_pc' # "off" /\ ~lost' => ~lost /\ ~RecordLost
    BY <1>1 DEF HistoryNext
  <2>2. CASE PanicReboot \/ PowerCut
    BY <2>2, EmptySettles
    DEF PanicReboot, PowerCut, Reset, HubRamReset, EndSession, StackReset
  <2>3. CASE Setup \/ Enable \/ RestartDiscovery
    <3>1. main_pc' # "off"
      BY <2>3 DEF Setup, Enable, RestartDiscovery, Calls
    <3>2. QED
      BY <1>0, <2>1, <2>3, <3>1, QuietSettles
      DEF Setup, Enable, RestartDiscovery, Calls
  <2>4. CASE DisableConnected \/ DisableUnconnected
    BY <1>0, <2>4 DEF DisableConnected, DisableUnconnected, DisableCommon, Calls
  <2>5. CASE Disconnect
    <3>1. main_pc' # "off"
      BY <2>5 DEF Disconnect, Calls
    <3>2. QED
      BY <2>1, <2>5, <3>1, DisconnectSettles
  <2>6. CASE RequestAudioSuspend \/ SendAvrcPassthrough \/ DrainDone
    <3>1. main_pc' # "off"
      BY <2>6 DEF RequestAudioSuspend, SendAvrcPassthrough, DrainDone, Calls
    <3>2. QED
      BY <1>0, <2>1, <2>6, <3>1, QuietSettles
      DEF RequestAudioSuspend, SendAvrcPassthrough, DrainDone, Calls, btVars
  <2>7. CASE LoopTop
    <3>1. /\ UNCHANGED <<event_queue, connected, last_peer>>
          /\ main_pc' = "drain"
      BY <2>7 DEF LoopTop
    <3>2. ~pending_deinit'
      BY <1>0, <2>7 DEF LoopTop, CheckDeinitDeadline
    <3>3. \/ UNCHANGED <<link, link_peer>>
          \/ link = "down" /\ link' = "connecting" /\ link_peer' \in Peers
      BY <2>7
      DEF LoopTop, CheckReconnect, ReconnectToLastPeer, SinkConnect,
          SinkConnectStarts, ReconnectArmedSafely, TypeOK, HubTypeOK
    <3>4. QED
      BY <2>1, <3>1, <3>2, <3>3, QuietSettles
  <2>8. CASE Handle
    <3>1. main_pc' # "off"
      BY <2>8
      DEF Handle, HandleConnected, HandleDisconnectedPending,
          HandleDisconnected, HandleAudioStarted, HandleAudioStopped,
          HandleCtConnected, HandleCtDisconnected, HandleTrackChanged,
          HandleNothingNew, Dequeue
    <3>2. QED
      BY <2>1, <2>8, <3>1, TakeSettles
  <2>9. CASE BtStep /\ UNCHANGED <<coexVars, hubVars>>
    <3>1. stack = "on" \/ link # "down" \/ stream \/ ct_link
      BY <2>9
      DEF BtStep, PeerConnects, ConnectSucceeds, ConnectFails, AudioStarts,
          AudioStops, LinkDrops, CtConnects, CtDisconnects, TrackChanges, Chat
    <3>2. main_pc # "off" /\ main_pc' # "off"
      BY <1>0, <2>9, <3>1 DEF hubVars
    <3>3. QED
      BY <2>1, <2>9, <3>2, PostSettles
  <2>10. CASE UNCHANGED <<btVars, hubVars>>
    <3>1. /\ UNCHANGED <<event_queue, connected, last_peer, pending_deinit,
                        main_pc, link, link_peer>>
      BY <2>10 DEF btVars, hubVars
    <3>2. CASE main_pc = "off"
      BY <1>0, <3>1, <3>2, EmptySettles
    <3>3. CASE main_pc # "off"
      BY <1>0, <2>1, <3>1, <3>3, QuietSettles
    <3>4. QED
      BY <3>2, <3>3
  <2>11. QED
    BY <1>1, <2>2, <2>3, <2>4, <2>5, <2>6, <2>7, <2>8, <2>9, <2>10
    DEF HistoryNext, Next, Command, WifiStep
<1>2. CASE UNCHANGED hvars
  BY <1>0, <1>2, QuietSettles DEF hvars, vars, btVars, hubVars
<1>3. QED
  BY <1>1, <1>2

\* The hub and the link agree whenever the queue is empty, through any
\* interleaving with disconnect(), as long as the queue has lost no record.
THEOREM SettledCorrect == NeverDisabled /\ HistorySpec => []LinkSettled
<1>1. HistoryInit => SettleInv /\ UnusedInv
  <2>1. SUFFICES ASSUME HistoryInit PROVE SettleInv /\ UnusedInv
    OBVIOUS
  <2>2. Replay(PeerView, event_queue)[0] = PeerView
    BY ReplayDefined
  <2>3. /\ event_queue = << >> /\ Len(event_queue) = 0 /\ link = "down"
        /\ ~connected /\ ~pending_deinit
    BY <2>1 DEF HistoryInit, Init, HubRamInit, BtInit
  <2>4. QueueSettles
    BY <2>2, <2>3 DEF QueueSettles, LinkTold, OneByOne, PeerView
  <2>5. UnusedInv
    BY <2>1
    DEF HistoryInit, Init, HubRamInit, BtInit, UnusedInv, Unused
  <2>6. QED
    BY <2>3, <2>4, <2>5 DEF SettleInv
<1>2. /\ NeverDisabled /\ TypeOK /\ UnusedInv /\ ReconnectArmedSafely
      /\ SettleInv /\ [HistoryNext]_hvars
      => NeverDisabled' /\ UnusedInv' /\ SettleInv'
  <2>1. [HistoryNext]_hvars => [Next]_vars
    BY DEF HistoryNext, hvars
  <2>2. QED
    BY <2>1, SettlePreserved, UnusedPreserved DEF NeverDisabled
<1>3. HistorySpec => Spec
  <2>1. HistoryInit => Init
    BY DEF HistoryInit
  <2>2. [HistoryNext]_hvars => [Next]_vars
    BY DEF HistoryNext, hvars
  <2>3. QED
    BY <2>1, <2>2, PTL DEF HistorySpec, Spec
<1>4. SettleInv => LinkSettled
  <2>1. SUFFICES ASSUME SettleInv, ~lost, event_queue = << >>
                 PROVE  /\ link = "down" => ~connected
                        /\ link = "up" => connected /\ last_peer = link_peer
    BY DEF LinkSettled
  <2>2. Replay(PeerView, event_queue)[0] = PeerView
    BY ReplayDefined
  <2>3. LinkTold(link, link_peer, IF connected THEN last_peer ELSE NoPeer)
    BY <2>1, <2>2 DEF SettleInv, QueueSettles, PeerView
  <2>4. QED
    BY <2>1, <2>3, NoPeerAssumption DEF SettleInv, LinkTold
<1>5. QED
  BY <1>1, <1>2, <1>3, <1>4, TypeCorrect, ReconnectCorrect, PTL DEF HistorySpec

-----------------------------------------------------------------------------
(* The power-save mode with pause_wifi_sources_on_connect.  The hub asks   *)
(* for high performance between two sessions, and prefers Bluetooth inside *)
(* one or before the first.  Not connected_ tells which it is: disconnect()*)
(* clears it at once, but leaves the pause to the records of the queue.    *)

PausedInv ==
  /\ ~pending_deinit
  /\ wifi_paused => ~high_performance
  /\ connected \/ coex_apply_at => wifi_paused
  /\ ~enabled => ~wifi_paused /\ ~high_performance /\ ~wifi_fast
  /\ StartsInSession(event_queue, wifi_paused)
  /\ link = "up" => EndsInSession(event_queue, wifi_paused)

\* A step that neither posts nor takes a record, and brings no link up.
LEMMA QuietPause ==
  ASSUME PausedInv, link' = "up" => link = "up",
         UNCHANGED <<event_queue, wifi_paused, high_performance, pending_deinit>>,
         connected' \/ coex_apply_at' => connected \/ coex_apply_at,
         ~enabled' => ~enabled /\ (wifi_fast' => wifi_fast \/ high_performance)
  PROVE  PausedInv'
<1>1. /\ StartsInSession(event_queue, wifi_paused)'
      /\ link' = "up" => EndsInSession(event_queue, wifi_paused)'
  BY DEF PausedInv, StartsInSession, EndsInSession, InSession
<1>2. QED
  BY <1>1 DEF PausedInv

LEMMA PostPause ==
  ASSUME TypeOK, PausedInv, ~Overflow, BtStep, UNCHANGED <<coexVars, hubVars>>
  PROVE  PausedInv'
<1>1. wifi_paused \in BOOLEAN
  BY DEF TypeOK, CoexTypeOK
<1>2. /\ StartsInSession(event_queue', wifi_paused)
      /\ link' = "up" => EndsInSession(event_queue', wifi_paused)
  BY <1>1, PostOrder DEF PausedInv
<1>3. UNCHANGED <<wifi_paused, high_performance, wifi_fast, pending_deinit,
                  connected, coex_apply_at, enabled>>
  BY DEF coexVars, pauseVars, wifiVars, hubVars, sessionVars
<1>4. /\ StartsInSession(event_queue, wifi_paused)'
      /\ link' = "up" => EndsInSession(event_queue, wifi_paused)'
  BY <1>2, <1>3 DEF StartsInSession, EndsInSession, InSession
<1>5. QED
  BY <1>3, <1>4 DEF PausedInv

LEMMA TakePause ==
  ASSUME PauseWifiSourcesOnConnect, TypeOK, UnusedInv, PausedInv, Handle
  PROVE  PausedInv'
<1> DEFINE ev == Head(event_queue)
<1>1. /\ event_queue \in Seq(A2DPEventRecord)
      /\ wifi_paused \in BOOLEAN /\ connected \in BOOLEAN
      /\ coex_apply_at \in BOOLEAN /\ high_performance \in BOOLEAN
  BY DEF TypeOK, BtTypeOK, CoexTypeOK, HubTypeOK
<1>2. event_queue # << >> => enabled
  BY DEF UnusedInv, Unused
<1>3. ASSUME event_queue # << >>, event_queue' = Tail(event_queue),
             UNCHANGED <<enabled, pending_deinit, link>>,
             wifi_paused' \in BOOLEAN,
             ev.type = "CONNECTED" => wifi_paused',
             ev.type # "DISCONNECTED" /\ wifi_paused => wifi_paused',
             wifi_paused' => ~high_performance',
             connected' \/ coex_apply_at' => wifi_paused'
      PROVE  PausedInv'
  <2>1. /\ StartsInSession(event_queue', wifi_paused')
        /\ EndsInSession(event_queue, wifi_paused)
             => EndsInSession(event_queue', wifi_paused')
    BY <1>1, <1>3, TakeOrder DEF PausedInv
  <2>2. link' = "up" => EndsInSession(event_queue', wifi_paused')
    BY <1>3, <2>1, Zenon DEF PausedInv
  <2>3. /\ StartsInSession(event_queue, wifi_paused)'
        /\ link' = "up" => EndsInSession(event_queue, wifi_paused)'
    BY <2>1, <2>2 DEF StartsInSession, EndsInSession, InSession
  <2>4. QED
    BY <1>2, <1>3, <2>3 DEF PausedInv
<1> HIDE DEF ev
<1>4. /\ wifi_paused => ~high_performance
      /\ connected \/ coex_apply_at => wifi_paused
      /\ ~pending_deinit
  BY DEF PausedInv
<1> USE DEF Dequeue, sessionVars, linkVars, pauseVars
<1>5. CASE HandleConnected
  <2>1. wifi_paused' /\ ~high_performance'
    BY <1>1, <1>4, <1>5 DEF HandleConnected, ApplyWifiPause
  <2>2. QED
    BY <1>1, <1>3, <1>5, <2>1 DEF HandleConnected, ev
<1>6. CASE HandleDisconnectedPending
  BY <1>4, <1>6 DEF HandleDisconnectedPending
<1>7. CASE HandleDisconnected
  <2>1. /\ wifi_paused' = FALSE /\ ~connected' /\ ~coex_apply_at'
        /\ ev.type = "DISCONNECTED"
    BY <1>1, <1>4, <1>7
    DEF HandleDisconnected, EndSession, DisarmCoex, ApplyWifiPause, ev
  <2>2. QED
    BY <1>1, <1>3, <1>7, <2>1 DEF HandleDisconnected, EndSession
<1>8. CASE HandleAudioStarted
  <2>1. /\ event_queue # << >> /\ event_queue[1].type = "AUDIO_STARTED"
        /\ 1 \in 1 .. Len(event_queue)
    BY <1>1, <1>8 DEF HandleAudioStarted
  <2>2. InSession(event_queue, wifi_paused, 1)
    BY <2>1 DEF PausedInv, StartsInSession
  <2>3. wifi_paused
    BY <2>2 DEF InSession
  <2>4. QED
    BY <1>1, <1>3, <1>4, <1>8, <2>3 DEF HandleAudioStarted, ev
<1>9. CASE HandleAudioStopped \/ HandleCtConnected \/ HandleCtDisconnected
           \/ HandleTrackChanged \/ HandleNothingNew
  <2>1. /\ event_queue # << >> /\ event_queue' = Tail(event_queue)
        /\ UNCHANGED <<enabled, pending_deinit, link, connected, wifi_paused,
                       high_performance>>
        /\ coex_apply_at' => coex_apply_at
    <3>1. CASE HandleAudioStopped
      BY <3>1 DEF HandleAudioStopped, DisarmCoex
    <3>2. CASE HandleCtConnected \/ HandleCtDisconnected
      BY <3>2 DEF HandleCtConnected, HandleCtDisconnected
    <3>3. CASE HandleTrackChanged \/ HandleNothingNew
      BY <3>3 DEF HandleTrackChanged, HandleNothingNew
    <3>4. QED
      BY <1>9, <3>1, <3>2, <3>3
  <2>2. ev.type = "CONNECTED" => connected
    BY <1>9
    DEF HandleAudioStopped, HandleCtConnected, HandleCtDisconnected,
        HandleTrackChanged, HandleNothingNew, ev
  <2>3. QED
    BY <1>1, <1>3, <1>4, <2>1, <2>2
<1>10. QED
  BY <1>5, <1>6, <1>7, <1>8, <1>9 DEF Handle

LEMMA PausePreserved ==
  ASSUME PauseWifiSourcesOnConnect, FollowsTracks, TypeOK, UnusedInv, PausedInv,
         [Next]_vars
  PROVE  PausedInv'
<1> USE DEF sessionVars, linkVars, pauseVars
<1>0. wifi_paused \in BOOLEAN /\ high_performance \in BOOLEAN
  BY DEF TypeOK, CoexTypeOK
<1>1. CASE Setup \/ Enable \/ RestartDiscovery
  <2>1. /\ UNCHANGED <<event_queue, link, connected, coex_apply_at, wifi_fast>>
        /\ UNCHANGED pending_deinit
    BY <1>1 DEF Setup, Enable, RestartDiscovery, Calls, wifiVars
  <2>2. \/ ~enabled /\ ApplyWifiPause(FALSE)
        \/ ~enabled /\ UNCHANGED pauseVars
        \/ UNCHANGED <<enabled, pauseVars>>
    BY <1>1
    DEF Setup, Enable, RestartDiscovery, EnableCall, EnableSucceeds,
        EnableFails, UnusedInv
  <2>3. UNCHANGED pauseVars /\ (~enabled' => ~enabled)
    BY <1>0, <2>2 DEF ApplyWifiPause, PausedInv, TypeOK, HubTypeOK
  <2>4. QED
    BY <2>1, <2>3, QuietPause
<1>2. CASE PanicReboot \/ PowerCut
  BY <1>2
  DEF PanicReboot, PowerCut, Reset, HubRamReset, EndSession, CoexReset,
      StackReset, PausedInv, StartsInSession
<1>3. CASE DisableConnected \/ DisableUnconnected
  BY <1>3 DEF DisableConnected, DisableUnconnected, DisableCommon, Calls,
              FollowsTracks
<1>4. CASE Disconnect
  BY <1>4, QuietPause
  DEF Disconnect, Calls, SinkDisconnect, EndSession, wifiVars
<1>5. CASE RequestAudioSuspend \/ SendAvrcPassthrough \/ DrainDone
  BY <1>5, QuietPause
  DEF RequestAudioSuspend, SendAvrcPassthrough, DrainDone, Calls, btVars,
      coexVars, wifiVars
<1>6. CASE LoopTop
  <2>1. UNCHANGED <<event_queue, connected, enabled, wifi_paused,
                    high_performance, wifi_fast>>
    BY <1>6 DEF LoopTop, wifiVars
  <2>2. UNCHANGED pending_deinit
    BY <1>6 DEF LoopTop, CheckDeinitDeadline, PausedInv
  <2>3. coex_apply_at' => coex_apply_at
    BY <1>6, Zenon DEF LoopTop, CheckCoex
  <2>4. link' = "up" => link = "up"
    BY <1>6 DEF LoopTop, CheckReconnect, ReconnectToLastPeer, SinkConnect
  <2>5. QED
    BY <2>1, <2>2, <2>3, <2>4, QuietPause
<1>7. CASE Handle
  BY <1>7, TakePause
<1>8. CASE BtStep /\ UNCHANGED <<coexVars, hubVars>>
  BY <1>8, PostPause DEF FollowsTracks
<1>9. CASE WifiStep
  BY <1>9, QuietPause
  DEF WifiStep, WifiStarts, WifiLoop, btVars, hubVars
<1>10. CASE UNCHANGED vars
  BY <1>10, QuietPause DEF vars, btVars, coexVars, wifiVars, hubVars
<1>11. QED
  BY <1>1, <1>2, <1>3, <1>4, <1>5, <1>6, <1>7, <1>8, <1>9, <1>10
  DEF Next, Command

\* With pause_wifi_sources_on_connect the configured power-save mode is never
\* lost either, whatever prefers Bluetooth and whenever disconnect() comes, as
\* long as no record is lost and nobody calls disable().
THEOREM WifiPsPausedCorrect ==
  PauseWifiSourcesOnConnect /\ FollowsTracks /\ Spec => []WifiPsRestorable
<1>1. Init => UnusedInv /\ PausedInv /\ WifiPsInv
  BY DEF Init, BtInit, CoexInit, HubRamInit, UnusedInv, Unused, PausedInv,
         StartsInSession, WifiPsInv, SavedInv, WifiPsRestorable
<1>2. /\ PauseWifiSourcesOnConnect /\ FollowsTracks /\ TypeOK
      /\ UnusedInv /\ PausedInv /\ WifiPsInv /\ [Next]_vars
      => /\ PauseWifiSourcesOnConnect' /\ FollowsTracks'
         /\ UnusedInv' /\ PausedInv' /\ WifiPsInv'
  <2>1. SUFFICES ASSUME PauseWifiSourcesOnConnect, FollowsTracks, TypeOK,
                        UnusedInv, PausedInv, WifiPsInv, [Next]_vars
                 PROVE  UnusedInv' /\ PausedInv' /\ WifiPsInv'
    BY DEF FollowsTracks
  <2>2. UnusedInv' /\ PausedInv'
    BY <2>1, UnusedPreserved, PausePreserved DEF FollowsTracks, NeverDisabled
  <2>3. PreferAllowed
    BY <2>1 DEF PausedInv, UnusedInv, PreferAllowed
  <2>4. SavedInv'
    BY <2>1, <2>3, EveryStepKeepsSaved
  <2>5. QED
    BY <2>1, <2>2, <2>4, OnlySoftware DEF WifiPsInv
<1>3. WifiPsInv => WifiPsRestorable
  BY DEF WifiPsInv, SavedInv
<1>4. QED
  BY <1>1, <1>2, <1>3, TypeCorrect, PTL DEF Spec
=============================================================================
