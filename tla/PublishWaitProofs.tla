----------------------------- MODULE PublishWaitProofs -----------------------------
(***************************************************************************)
(* For any publishers, calls, cleanups and capacity of the channel: the    *)
(* channel keeps within it and gives each Publisher once, the receiver is  *)
(* one call's at a time, and what on_track has announced can be found or   *)
(* is closed.                                                              *)
(***************************************************************************)
EXTENDS PublishWait, TLAPS

Types ==
  /\ state \in [Publishers -> {"none", "created", "pushed", "announced"}]
  /\ history \in Seq(Publishers) /\ stopped \subseteq Publishers /\ held \subseteq Publishers
  /\ queue \in Seq(Publishers) /\ rxClosed \in BOOLEAN
  /\ call \in [Calls -> {"none", "searching", "missed", "receiving", "looking", "done", "failed"}]
  /\ toSee \in [Calls -> Seq(Publishers)]
  /\ cleaner \in [Cleaners -> {"none", "closing", "cleared", "done"}]
  /\ seen \in [Cleaners -> Seq(Publishers)]

\* What waits in the channel was announced, and waits there once.
QueueOK ==
  \A i, j \in 1 .. Len(queue) :
    state[queue[i]] = "announced" /\ (queue[i] = queue[j] => i = j)

\* The channel is within its capacity, and empty when closed.
ChannelOK == Len(queue) <= Capacity /\ (rxClosed => queue = << >>)

OneReceiver ==
  \A c, d \in Calls :
    call[c] \in {"receiving", "looking"} /\ call[d] \in {"receiving", "looking"} => c = d

\* A call that searches or looks has a Publisher to look at, a cleanup only while it closes.
InHand ==
  /\ \A c \in Calls : toSee[c] # << >> <=> call[c] \in {"searching", "looking"}
  /\ \A k \in Cleaners : seen[k] # << >> => cleaner[k] = "closing"

\* A cleanup that closes Publishers has seen the whole history, but for what came late.
SeesAll ==
  \A k \in Cleaners : cleaner[k] = "closing" =>
    \A p \in Publishers :
      Contains(history, p) => Contains(seen[k], p) \/ p \in stopped \/ p \in late

IInv ==
  /\ Types /\ QueueOK /\ ChannelOK /\ OneReceiver /\ InHand
  /\ SeesAll /\ FoundOrClosed

\* The initial state satisfies it.
LEMMA InitInv == Init => IInv
<1> SUFFICES ASSUME Init PROVE IInv
  OBVIOUS
<1>1. << >> \in Seq(Publishers) /\ Len(<< >>) = 0
  OBVIOUS
<1>2. Types
  BY <1>1 DEF Init, Types
<1>3. QueueOK /\ ChannelOK
  BY <1>1, PublishWaitAssumption DEF Init, QueueOK, ChannelOK
<1>4. OneReceiver /\ InHand /\ SeesAll /\ FoundOrClosed
  BY <1>1 DEF Init, OneReceiver, InHand, SeesAll, FoundOrClosed
<1> QED BY <1>2, <1>3, <1>4 DEF IInv

\* The elements of a sequence with one more.
LEMMA OneMore ==
  ASSUME NEW S, NEW q \in Seq(S), NEW x \in S
  PROVE  /\ Append(q, x) \in Seq(S) /\ Len(Append(q, x)) = Len(q) + 1 /\ Len(q) \in Nat
         /\ \A i \in 1 .. Len(q) : Append(q, x)[i] = q[i]
         /\ Append(q, x)[Len(q) + 1] = x
         /\ \A y : Contains(Append(q, x), y) <=> Contains(q, y) \/ y = x
<1>1. /\ Append(q, x) \in Seq(S) /\ Len(Append(q, x)) = Len(q) + 1 /\ Len(q) \in Nat
      /\ \A i \in 1 .. Len(q) : Append(q, x)[i] = q[i]
      /\ Append(q, x)[Len(q) + 1] = x
  OBVIOUS
<1> QED BY <1>1 DEF Contains

\* And with one less.
LEMMA OneLess ==
  ASSUME NEW S, NEW q \in Seq(S), q # << >>
  PROVE  /\ Tail(q) \in Seq(S) /\ Len(Tail(q)) = Len(q) - 1 /\ Len(q) \in Nat \ {0}
         /\ \A i \in 1 .. Len(Tail(q)) : Tail(q)[i] = q[i + 1] /\ i + 1 \in 1 .. Len(q)
         /\ Head(q) \in S
         /\ \A y : Contains(q, y) => Contains(Tail(q), y) \/ y = Head(q)
<1>1. /\ Tail(q) \in Seq(S) /\ Len(Tail(q)) = Len(q) - 1 /\ Len(q) \in Nat \ {0}
      /\ \A i \in 1 .. Len(Tail(q)) : Tail(q)[i] = q[i + 1] /\ i + 1 \in 1 .. Len(q)
      /\ Head(q) = q[1] /\ q[1] \in S
  OBVIOUS
<1>2. ASSUME NEW y, Contains(q, y) PROVE Contains(Tail(q), y) \/ y = Head(q)
  <2>1. PICK i \in 1 .. Len(q) : q[i] = y
    BY <1>2 DEF Contains
  <2>2. CASE i = 1
    BY <1>1, <2>1, <2>2
  <2>3. CASE i # 1
    <3>1. i - 1 \in 1 .. Len(Tail(q)) /\ (i - 1) + 1 = i
      BY <1>1, <2>1, <2>3
    <3> QED BY <1>1, <2>1, <3>1 DEF Contains
  <2> QED BY <2>2, <2>3
<1> QED BY <1>1, <1>2

\* on_track creates a Publisher.
LEMMA OnTrackInv ==
  ASSUME IInv, NEW p \in Publishers, OnTrack(p)
  PROVE  IInv'
<1>1. /\ state[p] = "none" /\ state' = [state EXCEPT ![p] = "created"]
      /\ UNCHANGED <<stopped, locks, channel, callers, cleaners, late>>
  BY DEF OnTrack
<1>2. Types' /\ ChannelOK' /\ OneReceiver' /\ InHand' /\ SeesAll'
  BY <1>1 DEF IInv, Types, ChannelOK, OneReceiver, InHand, SeesAll, locks, channel, callers,
     cleaners
<1>3. QueueOK'
  <2>1. \A i \in 1 .. Len(queue) : queue[i] \in Publishers
    BY DEF IInv, Types
  <2> QED BY <1>1, <2>1 DEF IInv, Types, QueueOK, channel
<1>4. FoundOrClosed'
  BY <1>1 DEF IInv, Types, FoundOrClosed, channel
<1> QED BY <1>2, <1>3, <1>4 DEF IInv

\* It is put in the history: late, if a cleanup has looked and not cleared it.
LEMMA PushInv ==
  ASSUME IInv, NEW p \in Publishers, Push(p)
  PROVE  IInv'
<1>1. /\ state[p] = "created" /\ state' = [state EXCEPT ![p] = "pushed"]
      /\ history' = Append(history, p)
      /\ late' = IF \E k \in Cleaners : cleaner[k] = "closing" THEN late \cup {p} ELSE late
      /\ UNCHANGED <<stopped, locks, queue, rxClosed, callers, cleaners>>
  BY DEF Push, Kept
<1>2. /\ Append(history, p) \in Seq(Publishers)
      /\ \A q : Contains(Append(history, p), q) <=> Contains(history, q) \/ q = p
  BY OneMore DEF IInv, Types
<1>3. Types' /\ ChannelOK' /\ OneReceiver' /\ InHand'
  BY <1>1, <1>2 DEF IInv, Types, ChannelOK, OneReceiver, InHand, locks, callers, cleaners
<1>4. QueueOK'
  <2>1. \A i \in 1 .. Len(queue) : queue[i] \in Publishers
    BY DEF IInv, Types
  <2> QED BY <1>1, <2>1 DEF IInv, Types, QueueOK
<1>5. SeesAll'
  BY <1>1, <1>2 DEF IInv, SeesAll, cleaners
<1>6. FoundOrClosed'
  BY <1>1, <1>2 DEF IInv, Types, FoundOrClosed
<1> QED BY <1>3, <1>4, <1>5, <1>6 DEF IInv

\* It is sent: into the channel, unless that is closed.
LEMMA SendInv ==
  ASSUME IInv, NEW p \in Publishers, Send(p)
  PROVE  IInv'
<1>1. /\ state[p] = "pushed" /\ state' = [state EXCEPT ![p] = "announced"]
      /\ rxClosed \/ Len(queue) < Capacity
      /\ queue' = IF rxClosed THEN queue ELSE Append(queue, p)
      /\ UNCHANGED <<stopped, locks, history, rxClosed, callers, cleaners, late>>
  BY DEF Send
<1>2. /\ queue \in Seq(Publishers)
      /\ Append(queue, p) \in Seq(Publishers) /\ Len(Append(queue, p)) = Len(queue) + 1
      /\ Len(queue) \in Nat
      /\ \A i \in 1 .. Len(queue) : Append(queue, p)[i] = queue[i]
      /\ Append(queue, p)[Len(queue) + 1] = p
  BY OneMore DEF IInv, Types
<1>3. Types' /\ OneReceiver' /\ InHand' /\ SeesAll'
  BY <1>1, <1>2 DEF IInv, Types, OneReceiver, InHand, SeesAll, locks, callers, cleaners
<1>4. ChannelOK'
  BY <1>1, <1>2, PublishWaitAssumption DEF IInv, ChannelOK
<1>5. \A i \in 1 .. Len(queue) : /\ queue[i] \in Publishers /\ queue[i] # p
                                 /\ state'[queue[i]] = "announced"
  BY <1>1, <1>2 DEF IInv, Types, QueueOK
<1>6. QueueOK'
  <2>1. CASE rxClosed
    BY <1>1, <1>5, <2>1 DEF IInv, QueueOK
  <2>2. CASE ~rxClosed
    <3>1. state'[p] = "announced"
      BY <1>1 DEF IInv, Types
    <3>2. queue' = Append(queue, p)
      BY <1>1, <2>2
    <3>3. \A i \in 1 .. Len(queue') :
            \/ i \in 1 .. Len(queue) /\ queue'[i] = queue[i]
            \/ i = Len(queue) + 1 /\ queue'[i] = p
      BY <1>2, <3>2
    <3> QED BY <1>5, <3>1, <3>3 DEF IInv, QueueOK
  <2> QED BY <2>1, <2>2
<1>7. FoundOrClosed'
  BY <1>1 DEF IInv, Types, FoundOrClosed
<1> QED BY <1>3, <1>4, <1>6, <1>7 DEF IInv

\* A request to another server begins or is answered.
LEMMA RelayInv ==
  ASSUME IInv, NEW p \in Publishers, Relay(p) \/ Answer(p)
  PROVE  IInv'
<1>1. /\ held' \subseteq held \cup {p}
      /\ UNCHANGED <<publishers, channel, callers, cleaners, late>>
  BY DEF Relay, Answer
<1>2. Types'
  BY <1>1 DEF IInv, Types, publishers, channel, callers, cleaners
<1>3. QueueOK' /\ ChannelOK' /\ OneReceiver' /\ InHand' /\ SeesAll' /\ FoundOrClosed'
  BY <1>1 DEF IInv, QueueOK, ChannelOK, OneReceiver, InHand, SeesAll, FoundOrClosed, publishers,
     channel, callers, cleaners
<1> QED BY <1>2, <1>3 DEF IInv

\* What the steps of a call have in common: it gets another state and other Publishers to
\* look at, and the receiver only if it had it or nobody has it.
LEMMA CallInv ==
  ASSUME IInv, NEW c \in Calls,
         NEW new \in {"searching", "missed", "receiving", "looking", "done", "failed"},
         NEW rest \in Seq(Publishers),
         call' = [call EXCEPT ![c] = new], toSee' = [toSee EXCEPT ![c] = rest],
         UNCHANGED <<publishers, locks, cleaners, late, history, rxClosed>>,
         queue' \in Seq(Publishers), QueueOK', ChannelOK',
         rest # << >> <=> new \in {"searching", "looking"},
         new \in {"receiving", "looking"} =>
           call[c] = "receiving" \/ \A d \in Calls : call[d] \notin {"receiving", "looking"}
  PROVE  IInv'
<1>1. /\ call'[c] = new /\ toSee'[c] = rest
      /\ \A d \in Calls \ {c} : call'[d] = call[d] /\ toSee'[d] = toSee[d]
  BY DEF IInv, Types
<1>2. Types'
  BY DEF IInv, Types, publishers, locks, cleaners
<1>3. OneReceiver'
  BY <1>1 DEF IInv, OneReceiver
<1>4. InHand'
  BY <1>1 DEF IInv, InHand, cleaners
<1>5. SeesAll' /\ FoundOrClosed'
  BY DEF IInv, SeesAll, FoundOrClosed, publishers, cleaners
<1> QED BY <1>2, <1>3, <1>4, <1>5 DEF IInv

\* The channel is as it was.
LEMMA ChannelStays ==
  ASSUME IInv, UNCHANGED <<publishers, channel>>
  PROVE  queue' \in Seq(Publishers) /\ QueueOK' /\ ChannelOK'
BY DEF IInv, Types, QueueOK, ChannelOK, publishers, channel

\* A call looks through the history, gets nothing, or is done with a Publisher.
LEMMA PublishInv ==
  ASSUME IInv, NEW c \in Calls, Publish(c) \/ Search(c) \/ LookAt(c) \/ ReceiveNothing(c)
  PROVE  IInv'
<1>1. UNCHANGED <<publishers, locks, channel, cleaners, late>>
  BY DEF Publish, Search, LookAt, ReceiveNothing
<1>2. toSee[c] \in Seq(Publishers) /\ history \in Seq(Publishers) /\ << >> \in Seq(Publishers)
  BY DEF IInv, Types
<1>3. toSee[c] # << >> => Tail(toSee[c]) \in Seq(Publishers)
  BY <1>2, OneLess
<1>4. CASE Publish(c)
  <2>1. PICK new \in {"searching", "missed"} :
          /\ call' = [call EXCEPT ![c] = new] /\ (history # << >> <=> new = "searching")
          /\ toSee' = [toSee EXCEPT ![c] = history]
    BY <1>4 DEF Publish
  <2> QED BY <1>1, <1>2, <2>1, ChannelStays, CallInv DEF channel
<1>5. CASE Search(c)
  <2>1. call[c] = "searching" /\ toSee[c] # << >>
    BY <1>5 DEF Search, IInv, InHand
  <2>2. call = [call EXCEPT ![c] = "searching"]
    BY <2>1 DEF IInv, Types
  <2>3. PICK new \in {"searching", "missed", "done"}, rest \in Seq(Publishers) :
          /\ call' = [call EXCEPT ![c] = new] /\ toSee' = [toSee EXCEPT ![c] = rest]
          /\ rest # << >> <=> new = "searching"
    <3>1. CASE Head(toSee[c]) = wants[c]
      <4>1. call' = [call EXCEPT ![c] = "done"] /\ toSee' = [toSee EXCEPT ![c] = << >>]
        BY <1>5, <3>1 DEF Search
      <4> QED BY <1>2, <4>1
    <3>2. CASE Head(toSee[c]) # wants[c] /\ Tail(toSee[c]) = << >>
      <4>1. call' = [call EXCEPT ![c] = "missed"] /\ toSee' = [toSee EXCEPT ![c] = Tail(@)]
        BY <1>5, <3>2 DEF Search
      <4> QED BY <1>3, <2>1, <3>2, <4>1
    <3>3. CASE Head(toSee[c]) # wants[c] /\ Tail(toSee[c]) # << >>
      <4>1. call' = call /\ toSee' = [toSee EXCEPT ![c] = Tail(@)]
        BY <1>5, <3>3 DEF Search
      <4> QED BY <1>3, <2>1, <2>2, <3>3, <4>1
    <3> QED BY <3>1, <3>2, <3>3
  <2> QED BY <1>1, <2>3, ChannelStays, CallInv DEF channel
<1>6. CASE LookAt(c)
  <2>1. PICK new \in {"done", "missed"} : call' = [call EXCEPT ![c] = new]
    BY <1>6 DEF LookAt, Outcome
  <2>2. toSee' = [toSee EXCEPT ![c] = << >>]
    BY <1>6 DEF LookAt
  <2> QED BY <1>1, <1>2, <2>1, <2>2, ChannelStays, CallInv DEF channel
<1>7. CASE ReceiveNothing(c)
  <2>1. call' = [call EXCEPT ![c] = "failed"] /\ toSee' = toSee /\ call[c] = "receiving"
    BY <1>7 DEF ReceiveNothing
  <2>2. toSee[c] = << >> /\ toSee' = [toSee EXCEPT ![c] = << >>]
    BY <2>1 DEF IInv, Types, InHand
  <2> QED BY <1>1, <1>2, <2>1, <2>2, ChannelStays, CallInv DEF channel
<1> QED BY <1>4, <1>5, <1>6, <1>7

\* It takes the receiver, which nobody has.
LEMMA LockReceiverInv ==
  ASSUME IInv, NEW c \in Calls, LockReceiver(c)
  PROVE  IInv'
<1>1. /\ \A d \in Calls : call[d] \notin {"receiving", "looking"}
      /\ call[c] = "missed" /\ call' = [call EXCEPT ![c] = "receiving"] /\ toSee' = toSee
      /\ UNCHANGED <<publishers, locks, channel, cleaners, late>>
  BY DEF LockReceiver, ReceiverFree
<1>2. toSee[c] = << >> /\ toSee' = [toSee EXCEPT ![c] = << >>] /\ << >> \in Seq(Publishers)
  BY <1>1 DEF IInv, Types, InHand
<1> QED BY <1>1, <1>2, ChannelStays, CallInv DEF channel

\* It takes a Publisher from the channel.
LEMMA ReceiveInv ==
  ASSUME IInv, NEW c \in Calls, Receive(c)
  PROVE  IInv'
<1>1. /\ queue # << >> /\ queue' = Tail(queue) /\ call[c] = "receiving"
      /\ call' = [call EXCEPT ![c] = "looking"] /\ toSee' = [toSee EXCEPT ![c] = <<Head(queue)>>]
      /\ UNCHANGED <<publishers, locks, history, rxClosed, cleaners, late>>
  BY DEF Receive
<1>2. /\ Tail(queue) \in Seq(Publishers) /\ Len(Tail(queue)) = Len(queue) - 1
      /\ Len(queue) \in Nat \ {0} /\ Head(queue) \in Publishers
      /\ \A i \in 1 .. Len(Tail(queue)) :
           Tail(queue)[i] = queue[i + 1] /\ i + 1 \in 1 .. Len(queue)
  BY <1>1, OneLess DEF IInv, Types
<1>3. <<Head(queue)>> \in Seq(Publishers) /\ <<Head(queue)>> # << >>
  BY <1>2
<1>4. ChannelOK'
  BY <1>1, <1>2, PublishWaitAssumption DEF IInv, ChannelOK
<1>5. QueueOK'
  BY <1>1, <1>2 DEF IInv, QueueOK, publishers
<1> QED BY <1>1, <1>2, <1>3, <1>4, <1>5, CallInv

\* A cleanup looks at the history.
LEMMA LookInv ==
  ASSUME IInv, NEW k \in Cleaners, Look(k)
  PROVE  IInv'
<1>1. /\ cleaner' = [cleaner EXCEPT ![k] = "closing"] /\ seen' = [seen EXCEPT ![k] = history]
      /\ UNCHANGED <<publishers, locks, channel, callers, late>>
  BY DEF Look
<1>2. Types' /\ InHand' /\ SeesAll'
  BY <1>1 DEF IInv, Types, InHand, SeesAll, publishers, locks, channel, callers
<1>3. QueueOK' /\ ChannelOK' /\ OneReceiver' /\ FoundOrClosed'
  BY <1>1 DEF IInv, QueueOK, ChannelOK, OneReceiver, FoundOrClosed, publishers, channel, callers
<1> QED BY <1>2, <1>3 DEF IInv

\* It closes a Publisher.
LEMMA ClosePublisherInv ==
  ASSUME IInv, NEW k \in Cleaners, ClosePublisher(k)
  PROVE  IInv'
<1>1. /\ cleaner[k] = "closing" /\ seen[k] # << >>
      /\ stopped' = stopped \cup {Head(seen[k])}
      /\ seen' = [seen EXCEPT ![k] = Tail(@)]
      /\ UNCHANGED <<state, locks, channel, callers, cleaner, late>>
  BY DEF ClosePublisher
<1>2. /\ Tail(seen[k]) \in Seq(Publishers) /\ Head(seen[k]) \in Publishers
      /\ \A p : Contains(seen[k], p) => Contains(Tail(seen[k]), p) \/ p = Head(seen[k])
  <2>1. seen[k] \in Seq(Publishers)
    BY DEF IInv, Types
  <2> QED BY <1>1, <2>1, OneLess
<1>3. Types' /\ InHand'
  BY <1>1, <1>2 DEF IInv, Types, InHand, locks, channel, callers
<1>4. SeesAll'
  <2>1. seen'[k] = Tail(seen[k]) /\ \A d \in Cleaners \ {k} : seen'[d] = seen[d]
    BY <1>1 DEF IInv, Types
  <2> QED BY <1>1, <1>2, <2>1 DEF IInv, SeesAll, channel
<1>5. QueueOK' /\ ChannelOK' /\ OneReceiver' /\ FoundOrClosed'
  BY <1>1 DEF IInv, QueueOK, ChannelOK, OneReceiver, FoundOrClosed, channel, callers
<1> QED BY <1>3, <1>4, <1>5 DEF IInv

\* It clears the history, whose Publishers are closed or late.
LEMMA ClearInv ==
  ASSUME IInv, NEW k \in Cleaners, Clear(k)
  PROVE  IInv'
<1>1. /\ cleaner[k] = "closing" /\ seen[k] = << >> /\ history' = << >>
      /\ cleaner' = [cleaner EXCEPT ![k] = "cleared"]
      /\ UNCHANGED <<publishers, locks, queue, rxClosed, callers, seen, late>>
  BY DEF Clear
<1>2. \A p : ~Contains(<< >>, p)
  BY DEF Contains
<1>3. Types' /\ InHand' /\ SeesAll'
  BY <1>1, <1>2 DEF IInv, Types, InHand, SeesAll, publishers, locks, callers
<1>4. \A p \in Publishers : Contains(history, p) => p \in stopped \/ p \in late
  BY <1>1, <1>2 DEF IInv, SeesAll
<1>5. FoundOrClosed'
  BY <1>1, <1>4 DEF IInv, FoundOrClosed, publishers
<1>6. QueueOK' /\ ChannelOK' /\ OneReceiver'
  BY <1>1 DEF IInv, QueueOK, ChannelOK, OneReceiver, publishers, callers
<1> QED BY <1>3, <1>5, <1>6 DEF IInv

\* It closes and empties the channel.
LEMMA DrainInv ==
  ASSUME IInv, NEW k \in Cleaners, Drain(k)
  PROVE  IInv'
<1>1. /\ cleaner[k] = "cleared" /\ cleaner' = [cleaner EXCEPT ![k] = "done"]
      /\ rxClosed' = TRUE /\ queue' = << >>
      /\ UNCHANGED <<publishers, locks, history, callers, seen, late>>
  BY DEF Drain, Shut
<1>2. << >> \in Seq(Publishers) /\ Len(<< >>) = 0
  OBVIOUS
<1>3. Types' /\ InHand' /\ SeesAll'
  BY <1>1, <1>2 DEF IInv, Types, InHand, SeesAll, publishers, locks, callers
<1>4. QueueOK' /\ ChannelOK'
  BY <1>1, <1>2, PublishWaitAssumption DEF QueueOK, ChannelOK
<1>5. OneReceiver' /\ FoundOrClosed'
  BY <1>1 DEF IInv, OneReceiver, FoundOrClosed, publishers, callers
<1> QED BY <1>3, <1>4, <1>5 DEF IInv

\* Every step keeps the invariant.
LEMMA StepInv ==
  ASSUME IInv, [Next]_vars
  PROVE  IInv'
<1>1. CASE UNCHANGED vars
  BY <1>1 DEF vars, publishers, locks, channel, callers, cleaners, IInv, Types, QueueOK, ChannelOK,
     OneReceiver, InHand, SeesAll, FoundOrClosed
<1>2. ASSUME NEW p \in Publishers, OnTrack(p) \/ OnTrackSteps(p) \/ Relay(p) \/ Answer(p)
      PROVE  IInv'
  BY <1>2, OnTrackInv, PushInv, SendInv, RelayInv DEF OnTrackSteps
<1>3. ASSUME NEW c \in Calls, Publish(c) \/ CallSteps(c)
      PROVE  IInv'
  BY <1>3, PublishInv, LockReceiverInv, ReceiveInv DEF CallSteps
<1>4. ASSUME NEW k \in Cleaners, Look(k) \/ CleanerSteps(k)
      PROVE  IInv'
  BY <1>4, LookInv, ClosePublisherInv, ClearInv, DrainInv DEF CleanerSteps
<1> QED BY <1>1, <1>2, <1>3, <1>4 DEF Next

\* The channel of Publishers keeps within its capacity, is empty once closed and holds
\* each Publisher at most once; one call at a time has its receiver.
THEOREM TypeCorrect == Spec => []TypeOK
<1>1. IInv => TypeOK
  <2> SUFFICES ASSUME IInv PROVE TypeOK
    OBVIOUS
  <2>1. DOMAIN queue = 1 .. Len(queue)
    BY DEF IInv, Types
  <2> QED BY <2>1 DEF IInv, Types, QueueOK, ChannelOK, OneReceiver, InHand, TypeOK
<1> QED BY <1>1, InitInv, StepInv, PTL DEF Spec

\* Whatever cleanups run, and in whatever order: a Publisher that on_track has pushed
\* can be found by publish, or was told to close, unless it was pushed between a cleanup's
\* look at the history and its clear.
THEOREM AnnouncedIsFoundOrClosed == Spec => []FoundOrClosed
<1>1. IInv => FoundOrClosed
  BY DEF IInv
<1> QED BY <1>1, InitInv, StepInv, PTL DEF Spec

=============================================================================
