------------------------------- MODULE RegistryProofs -------------------------------
(***************************************************************************)
(* For any routers, publishers, data channels, lookups and encodings: a    *)
(* router's list follows its publishers, in the order of its queue.        *)
(***************************************************************************)
EXTENDS Registry, TLAPS

\* No two publishers of a router share a track id.
DistinctIds ==
  \A p, q \in Publishers : IdOf[p] = IdOf[q] /\ RouterOf[p] = RouterOf[q] => p = q

\* What a publisher is told, and what a router is.
PublisherEvents == {Opened(s) : s \in Ssrcs} \cup {Added(s) : s \in Ssrcs} \cup {Closing}

At(S, r) == {x \in S : RouterOf[x] = r}
RouterEvents(r) ==
  {MediaPublished(p) : p \in At(Publishers, r)} \cup {PublisherRemoved(p) : p \in At(Publishers, r)}
  \cup {DataPublished(d) : d \in At(DataPublishers, r)}
  \cup {DataRemoved(d) : d \in At(DataPublishers, r)}
  \cup {GetPublisher(q, id) : q \in Lookups, id \in Ids} \cup {Closed}

\* A queue contains e; contains it once; has a removal behind every announcement.
In(q, e) == \E i \in 1 .. Len(q) : q[i] = e
OnceIn(q, e) == \A i, j \in 1 .. Len(q) : q[i] = e /\ q[j] = e => i = j
Follows(q, removal, announcement) ==
  \E i \in 1 .. Len(q) :
    q[i] = removal /\ \A j \in 1 .. Len(q) : q[j] = announcement => j < i

LoopTypes ==
  /\ routers \subseteq Routers /\ workerQueue \in Seq(Routers) /\ stopped \subseteq Routers
  /\ relayed \subseteq Publishers /\ relaying \subseteq Publishers \cup DataPublishers
  /\ loop \in [Publishers -> {"none", "running", "closing", "done"}]
  /\ polling \subseteq Publishers /\ closing \subseteq Publishers
  /\ localTracks \in [Publishers -> SUBSET Ssrcs]
  /\ inputs \in [Publishers -> SUBSET Ssrcs]
  /\ published \subseteq Publishers
  /\ queue \in [Publishers -> Seq(PublisherEvents)]
  /\ dataLoop \in [DataPublishers ->
                  {"none", "created", "open", "ended", "endedEarly", "overtaken"}]

States == {"idle", "asked", "found", "unknown", "panicked", "track", "noTrack"}
RouterTypes ==
  /\ routerLoop \in [Routers -> {"none", "running", "closing", "done"}]
  /\ DOMAIN routerQueue = Routers
  /\ \A r \in Routers : routerQueue[r] \in Seq(RouterEvents(r))
  /\ DOMAIN publishers = Routers
  /\ \A r \in Routers : \A x \in publishers[r] : x[2] \in Publishers
  /\ dataPublishers \in [Routers -> SUBSET DataPublishers]
  /\ lookup \in [Lookups -> [state : States, pub : Publishers \cup {Nobody}]]

\* A publisher is announced once, at its router.
AnnouncedOnce ==
  \A r \in Routers, p \in Publishers :
    /\ In(routerQueue[r], MediaPublished(p)) \/ p \in Listed(r) => p \in published /\ RouterOf[p] = r
    /\ OnceIn(routerQueue[r], MediaPublished(p))
    /\ In(routerQueue[r], MediaPublished(p)) => p \notin Listed(r)
    /\ \A x, y \in publishers[r] : x[2] = y[2] => x = y

\* The removal of one that closed is behind its announcement.
GhostsGo ==
  \A r \in Routers : routerLoop[r] # "done" =>
    /\ \A p \in Publishers :
         loop[p] = "done" /\ (In(routerQueue[r], MediaPublished(p)) \/ p \in Listed(r)) =>
           Follows(routerQueue[r], PublisherRemoved(p), MediaPublished(p))
    /\ \A d \in At(DataPublishers, r) :
         dataLoop[d] = "ended" /\ (In(routerQueue[r], DataPublished(d)) \/ d \in dataPublishers[r]) =>
           Follows(routerQueue[r], DataRemoved(d), DataPublished(d))

\* An id is removed for a publisher that has closed.
RemovedAreDone ==
  \A r \in Routers, p \in Publishers : In(routerQueue[r], PublisherRemoved(p)) =>
    \E q \in Publishers : IdOf[q] = IdOf[p] /\ RouterOf[q] = r /\ loop[q] = "done"

\* A publisher that runs and was announced is in the list or about to be.
LiveAreListed ==
  DistinctIds =>
    \A p \in published, r \in Routers :
      loop[p] = "running" /\ r = RouterOf[p] /\ routerLoop[r] # "done" =>
        p \in Listed(r) \/ In(routerQueue[r], MediaPublished(p))

\* The tracks of a publisher that was announced or is about to be.
TracksOK ==
  \A p \in Publishers :
    /\ loop[p] = "none" => p \notin polling /\ p \notin published /\ inputs[p] = localTracks[p]
    /\ loop[p] \in {"none", "running"} =>
         /\ p \in published \/ (\E s \in Ssrcs : In(queue[p], Added(s))) => localTracks[p] # {}
         /\ p \in polling => inputs[p] = localTracks[p]

\* Only an announced publisher is found.
FoundArePublished ==
  \A q \in Lookups : lookup[q].pub # Nobody => lookup[q].pub \in published

RouterSide == AnnouncedOnce /\ GhostsGo /\ RemovedAreDone /\ LiveAreListed
IInv == LoopTypes /\ RouterTypes /\ RouterSide /\ TracksOK /\ FoundArePublished

-----------------------------------------------------------------------------
(* Events and queues *)

\* The type of an event says what it is, and its fields of what.
LEMMA EventFields ==
  /\ \A p : MediaPublished(p).type = "MediaPublished" /\ MediaPublished(p).pub = p
  /\ \A p : PublisherRemoved(p).type = "PublisherRemoved" /\ PublisherRemoved(p).id = IdOf[p]
  /\ \A d : DataPublished(d).type = "DataPublished" /\ DataPublished(d).pub = d
  /\ \A d : DataRemoved(d).type = "DataRemoved" /\ DataRemoved(d).pub = d
  /\ \A q, id : /\ GetPublisher(q, id).type = "GetPublisher" /\ GetPublisher(q, id).lookup = q
                /\ GetPublisher(q, id).id = id
  /\ Closed.type = "Closed"
  /\ \A s : Opened(s).type = "TrackOpened" /\ Opened(s).ssrc = s
  /\ \A s : Added(s).type = "TrackAdded" /\ Added(s).ssrc = s
  /\ Closing.type = "Close"
BY DEF MediaPublished, PublisherRemoved, DataPublished, DataRemoved, GetPublisher, Closed,
   Opened, Added, Closing

\* A router's event is one of six kinds.
LEMMA EventKinds ==
  ASSUME NEW r \in Routers, NEW e \in RouterEvents(r)
  PROVE  \/ \E p \in Publishers : RouterOf[p] = r /\ e = MediaPublished(p)
         \/ \E p \in Publishers : RouterOf[p] = r /\ e = PublisherRemoved(p)
         \/ \E d \in At(DataPublishers, r) : e = DataPublished(d)
         \/ \E d \in At(DataPublishers, r) : e = DataRemoved(d)
         \/ \E q \in Lookups, id \in Ids : e = GetPublisher(q, id)
         \/ e = Closed
BY DEF RouterEvents, At

\* What a queue with one more event contains, and in which order ...
LEMMA AppendFacts ==
  ASSUME NEW S, NEW q \in Seq(S), NEW e \in S
  PROVE  /\ Append(q, e) \in Seq(S)
         /\ \A f : In(Append(q, e), f) <=> In(q, f) \/ f = e
         /\ \A f, g : Follows(q, f, g) /\ e # g => Follows(Append(q, e), f, g)
         /\ \A g : e # g => Follows(Append(q, e), e, g)
         /\ \A f : OnceIn(q, f) /\ (f # e \/ ~In(q, e)) => OnceIn(Append(q, e), f)
<1> DEFINE a == Append(q, e)
           n == Len(q)
<1>1. /\ a \in Seq(S) /\ n \in Nat /\ Len(a) = n + 1 /\ a[n + 1] = e
      /\ \A i \in 1 .. n : a[i] = q[i]
  OBVIOUS
<1> HIDE DEF a, n
<1>2. \A i \in 1 .. n + 1 : i \in 1 .. n \/ i = n + 1
  BY <1>1
<1>3. \A i \in 1 .. n : i \in 1 .. n + 1 /\ i < n + 1
  BY <1>1
<1>4. n + 1 \in 1 .. n + 1
  BY <1>1
<1>5. ASSUME NEW f PROVE In(a, f) <=> In(q, f) \/ f = e
  BY <1>1, <1>2, <1>3, <1>4 DEF In, n
<1>6. ASSUME NEW f, NEW g, Follows(q, f, g), e # g PROVE Follows(a, f, g)
  BY <1>1, <1>2, <1>3, <1>6 DEF Follows, n
<1>7. ASSUME NEW g, e # g PROVE Follows(a, e, g)
  BY <1>1, <1>2, <1>3, <1>4, <1>7 DEF Follows
<1>8. ASSUME NEW f, OnceIn(q, f), f # e \/ ~In(q, e) PROVE OnceIn(a, f)
  BY <1>1, <1>2, <1>8 DEF OnceIn, In, n
<1> QED BY <1>1, <1>5, <1>6, <1>7, <1>8 DEF a

\* ... and one without its first.
LEMMA TailFacts ==
  ASSUME NEW S, NEW q \in Seq(S), q # << >>
  PROVE  /\ Tail(q) \in Seq(S) /\ Head(q) \in S
         /\ \A f : In(q, f) <=> In(Tail(q), f) \/ f = Head(q)
         /\ \A f, g : Follows(q, f, g) => Follows(Tail(q), f, g) \/ (f = Head(q) /\ ~In(q, g))
         /\ \A f : OnceIn(q, f) => OnceIn(Tail(q), f) /\ (f = Head(q) => ~In(Tail(q), f))
<1> DEFINE t == Tail(q)
           n == Len(q)
<1>1. /\ t \in Seq(S) /\ n \in Nat \ {0} /\ Len(t) = n - 1 /\ Head(q) = q[1] /\ q[1] \in S
      /\ \A i \in 1 .. n - 1 : t[i] = q[i + 1]
  OBVIOUS
<1> HIDE DEF t
<1>2. \A i \in 1 .. n : i = 1 \/ (i - 1 \in 1 .. n - 1 /\ t[i - 1] = q[i])
  BY <1>1
<1>3. \A i \in 1 .. n - 1 : i + 1 \in 1 .. n /\ t[i] = q[i + 1] /\ i + 1 # 1
  BY <1>1
<1>4. 1 \in 1 .. n
  BY <1>1
<1>5. ASSUME NEW f PROVE In(q, f) <=> In(t, f) \/ f = Head(q)
  <2>1. ASSUME In(q, f) PROVE In(t, f) \/ f = Head(q)
    BY <1>1, <1>2, <2>1 DEF In
  <2>2. ASSUME In(t, f) PROVE In(q, f)
    BY <1>1, <1>3, <2>2 DEF In
  <2> QED BY <1>1, <1>4, <2>1, <2>2 DEF In
<1>6. ASSUME NEW f, NEW g, Follows(q, f, g) PROVE Follows(t, f, g) \/ (f = Head(q) /\ ~In(q, g))
  <2>1. PICK i \in 1 .. n : q[i] = f /\ \A j \in 1 .. n : q[j] = g => j < i
    BY <1>6 DEF Follows
  <2>2. CASE i = 1
    BY <1>1, <2>1, <2>2 DEF In
  <2>3. CASE i # 1
    <3>1. i - 1 \in 1 .. n - 1 /\ t[i - 1] = f
      BY <1>2, <2>1, <2>3
    <3>2. ASSUME NEW j \in 1 .. n - 1, t[j] = g PROVE j < i - 1
      <4>1. j + 1 \in 1 .. n /\ q[j + 1] = g
        BY <1>3, <3>2
      <4>2. j + 1 < i
        BY <2>1, <4>1
      <4> QED BY <1>1, <4>2
    <3> QED BY <1>1, <3>1, <3>2 DEF Follows
  <2> QED BY <2>2, <2>3
<1>7. ASSUME NEW f, OnceIn(q, f) PROVE OnceIn(t, f) /\ (f = Head(q) => ~In(t, f))
  <2>1. ASSUME NEW i \in 1 .. n - 1, NEW j \in 1 .. n - 1, t[i] = f, t[j] = f PROVE i = j
    <3>1. i + 1 = j + 1
      BY <1>3, <1>7, <2>1 DEF OnceIn
    <3> QED BY <1>1, <3>1
  <2>2. ASSUME f = Head(q), NEW i \in 1 .. n - 1, t[i] = f PROVE FALSE
    <3>1. i + 1 = 1
      BY <1>1, <1>3, <1>4, <1>7, <2>2 DEF OnceIn
    <3> QED BY <1>3, <3>1
  <2> QED BY <1>1, <2>1, <2>2 DEF OnceIn, In
<1> QED BY <1>1, <1>5, <1>6, <1>7 DEF t

\* The initial state satisfies the invariant.
LEMMA InitInv == Init => IInv
<1> SUFFICES ASSUME Init PROVE IInv
  OBVIOUS
<1>1. \A S : << >> \in Seq(S)
  OBVIOUS
<1>2. Len(<< >>) = 0 /\ \A e : ~In(<< >>, e) /\ OnceIn(<< >>, e)
  BY DEF In, OnceIn
<1>3. LoopTypes
  BY <1>1 DEF Init, LoopTypes
<1>4. RouterTypes
  BY <1>1 DEF Init, RouterTypes, States
<1>5. /\ \A r \in Routers : routerQueue[r] = << >> /\ Listed(r) = {} /\ publishers[r] = {}
      /\ \A p \in Publishers : loop[p] = "none" /\ queue[p] = << >> /\ localTracks[p] = {}
                             /\ inputs[p] = {}
      /\ \A d \in DataPublishers : dataLoop[d] = "none"
      /\ \A q \in Lookups : lookup[q].pub = Nobody
      /\ polling = {} /\ published = {}
  BY DEF Init, Listed
<1>6. AnnouncedOnce /\ RemovedAreDone /\ LiveAreListed
  BY <1>2, <1>5 DEF AnnouncedOnce, RemovedAreDone, LiveAreListed
<1>7. GhostsGo
  BY <1>2, <1>5 DEF GhostsGo, At
<1>8. TracksOK /\ FoundArePublished
  BY <1>2, <1>5 DEF TracksOK, FoundArePublished
<1> QED BY <1>3, <1>4, <1>6, <1>7, <1>8 DEF IInv, RouterSide

-----------------------------------------------------------------------------
(* The router's queue *)

\* An event is sent to a router.
LEMMA SentTypes ==
  ASSUME IInv, NEW r \in Routers, NEW e \in RouterEvents(r)
  PROVE  /\ DOMAIN Sent(r, e) = Routers
         /\ \A u \in Routers : Sent(r, e)[u] \in Seq(RouterEvents(u))
         /\ \A u \in Routers \ {r} : Sent(r, e)[u] = routerQueue[u]
         /\ routerLoop[r] = "done" => Sent(r, e) = routerQueue
         /\ routerLoop[r] # "done" => Sent(r, e)[r] = Append(routerQueue[r], e)
<1>1. DOMAIN routerQueue = Routers /\ \A u \in Routers : routerQueue[u] \in Seq(RouterEvents(u))
  BY DEF IInv, RouterTypes
<1>2. Append(routerQueue[r], e) \in Seq(RouterEvents(r))
  BY <1>1, AppendFacts
<1>3. CASE routerLoop[r] = "done"
  BY <1>1, <1>3 DEF Sent
<1>4. CASE routerLoop[r] # "done"
  <2>1. Sent(r, e) = [routerQueue EXCEPT ![r] = Append(@, e)]
    BY <1>4 DEF Sent
  <2> QED BY <1>1, <1>2, <1>4, <2>1
<1> QED BY <1>3, <1>4

\* A publisher is announced by its first track only, and removed when it closes;
\* so is a data channel.
LEMMA SendInv ==
  ASSUME IInv, NEW r \in Routers, NEW e \in RouterEvents(r), routerQueue' = Sent(r, e),
         UNCHANGED <<publishers, dataPublishers>>,
         \A u \in Routers : routerLoop'[u] = "done" <=> routerLoop[u] = "done",
         \A p \in Publishers : e = MediaPublished(p) =>
           p \notin published /\ p \in published' /\ loop[p] # "done" /\ loop'[p] # "done",
         published \subseteq published', published' \subseteq Publishers,
         \A p \in Publishers : p \in published' => p \in published \/ e = MediaPublished(p),
         \A p \in Publishers : p \in published' => (loop'[p] = "running" => loop[p] = "running"),
         \A p \in Publishers : loop[p] = "done" => loop'[p] = "done",
         \A p \in Publishers : loop'[p] = "done" => loop[p] = "done" \/ e = PublisherRemoved(p),
         \A p \in Publishers : e = PublisherRemoved(p) =>
           \E q \in Publishers : IdOf[q] = IdOf[p] /\ RouterOf[q] = r /\ loop'[q] = "done",
         \A d \in At(DataPublishers, r) :
           dataLoop'[d] = "ended" => (dataLoop[d] = "ended" \/ e = DataRemoved(d)),
         \A u \in Routers \ {r} : \A d \in At(DataPublishers, u) : dataLoop'[d] = dataLoop[d],
         \A d \in DataPublishers : e = DataPublished(d) => dataLoop'[d] # "ended",
         \A p \in Publishers : loop'[p] # loop[p] => RouterOf[p] = r \/ loop'[p] # "done"
  PROVE  RouterSide'
<1>1. /\ \A u \in Routers : routerQueue[u] \in Seq(RouterEvents(u)) /\ Listed(u)' = Listed(u)
      /\ \A u \in Routers \ {r} : routerQueue'[u] = routerQueue[u]
      /\ routerLoop[r] = "done" => routerQueue'[r] = routerQueue[r]
      /\ routerLoop[r] # "done" => routerQueue'[r] = Append(routerQueue[r], e)
  BY SentTypes DEF IInv, RouterTypes, Listed
<1>2. /\ \A f : In(routerQueue'[r], f) => In(routerQueue[r], f) \/ f = e
      /\ \A f : In(routerQueue[r], f) => In(routerQueue'[r], f)
      /\ \A f, g : Follows(routerQueue[r], f, g) /\ e # g => Follows(routerQueue'[r], f, g)
      /\ \A f : OnceIn(routerQueue[r], f) /\ (f # e \/ ~In(routerQueue[r], e)) =>
               OnceIn(routerQueue'[r], f)
      /\ routerLoop[r] # "done" => \A g : e # g => Follows(routerQueue'[r], e, g)
      /\ routerLoop[r] # "done" => In(routerQueue'[r], e)
  <2>1. CASE routerLoop[r] = "done"
    <3>1. routerQueue'[r] = routerQueue[r]
      BY <1>1, <2>1
    <3> QED BY <2>1, <3>1, Zenon
  <2>2. CASE routerLoop[r] # "done"
    <3>1. routerQueue'[r] = Append(routerQueue[r], e) /\ routerQueue[r] \in Seq(RouterEvents(r))
      BY <1>1, <2>2
    <3>2. /\ \A f : In(Append(routerQueue[r], e), f) <=> In(routerQueue[r], f) \/ f = e
          /\ \A f, g : Follows(routerQueue[r], f, g) /\ e # g => Follows(Append(routerQueue[r], e), f, g)
          /\ \A g : e # g => Follows(Append(routerQueue[r], e), e, g)
          /\ \A f : OnceIn(routerQueue[r], f) /\ (f # e \/ ~In(routerQueue[r], e)) =>
                   OnceIn(Append(routerQueue[r], e), f)
      BY <3>1, AppendFacts
    <3> QED BY <3>1, <3>2, Zenon
  <2> QED BY <2>1, <2>2
<1>3. ASSUME NEW u \in Routers, NEW f, In(routerQueue'[u], f)
      PROVE  In(routerQueue[u], f) \/ (u = r /\ f = e)
  <2>1. u # r => routerQueue'[u] = routerQueue[u]
    BY <1>1
  <2> QED BY <1>2, <1>3, <2>1, Zenon
<1>4. ASSUME NEW u \in Routers, NEW f, In(routerQueue[u], f)
      PROVE  In(routerQueue'[u], f)
  <2>1. u # r => routerQueue'[u] = routerQueue[u]
    BY <1>1
  <2> QED BY <1>2, <1>4, <2>1, Zenon
<1>5. \A p \in Publishers : e = MediaPublished(p) => RouterOf[p] = r
  BY EventKinds, EventFields
<1>6. AnnouncedOnce'
  <2> SUFFICES ASSUME NEW u \in Routers, NEW p \in Publishers
               PROVE  /\ In(routerQueue'[u], MediaPublished(p)) \/ p \in Listed(u) =>
                           p \in published' /\ RouterOf[p] = u
                      /\ OnceIn(routerQueue'[u], MediaPublished(p))
                      /\ In(routerQueue'[u], MediaPublished(p)) => p \notin Listed(u)
                      /\ \A x, y \in publishers[u] : x[2] = y[2] => x = y
    BY <1>1 DEF AnnouncedOnce
  <2>1. /\ In(routerQueue[u], MediaPublished(p)) \/ p \in Listed(u) => p \in published /\ RouterOf[p] = u
        /\ OnceIn(routerQueue[u], MediaPublished(p))
        /\ In(routerQueue[u], MediaPublished(p)) => p \notin Listed(u)
        /\ \A x, y \in publishers[u] : x[2] = y[2] => x = y
    BY DEF IInv, RouterSide, AnnouncedOnce
  <2>2. OnceIn(routerQueue'[u], MediaPublished(p))
    <3>1. e = MediaPublished(p) /\ u = r => ~In(routerQueue[r], e)
      BY <2>1
    <3>2. u # r => routerQueue'[u] = routerQueue[u]
      BY <1>1
    <3> QED BY <1>2, <2>1, <3>1, <3>2, Zenon
  <2> QED BY <1>3, <1>5, <2>1, <2>2
<1>7. ASSUME NEW u \in Routers, routerLoop'[u] # "done", NEW p \in Publishers, loop'[p] = "done",
             In(routerQueue'[u], MediaPublished(p)) \/ p \in Listed(u)
      PROVE  Follows(routerQueue'[u], PublisherRemoved(p), MediaPublished(p))
  <2>1. e # MediaPublished(p) /\ PublisherRemoved(p) # MediaPublished(p)
    BY <1>7, EventFields
  <2>2. In(routerQueue[u], MediaPublished(p)) \/ p \in Listed(u)
    BY <1>3, <1>7, <2>1
  <2>3. RouterOf[p] = u
    BY <2>2 DEF IInv, RouterSide, AnnouncedOnce
  <2>4. CASE loop[p] = "done"
    <3>1. Follows(routerQueue[u], PublisherRemoved(p), MediaPublished(p))
      BY <1>7, <2>2, <2>4 DEF IInv, RouterSide, GhostsGo
    <3>2. u # r => routerQueue'[u] = routerQueue[u]
      BY <1>1
    <3> QED BY <1>2, <2>1, <3>1, <3>2, Zenon
  <2>5. CASE loop[p] # "done"
    <3>1. e = PublisherRemoved(p) /\ u = r
      BY <1>7, <2>3, <2>5
    <3>2. routerLoop[r] # "done"
      BY <1>7, <3>1
    <3> QED BY <1>2, <2>1, <3>1, <3>2, Zenon
  <2> QED BY <2>4, <2>5
<1>8. ASSUME NEW u \in Routers, routerLoop'[u] # "done", NEW d \in At(DataPublishers, u),
             dataLoop'[d] = "ended", In(routerQueue'[u], DataPublished(d)) \/ d \in dataPublishers[u]
      PROVE  Follows(routerQueue'[u], DataRemoved(d), DataPublished(d))
  <2>1. e # DataPublished(d) /\ DataRemoved(d) # DataPublished(d)
    BY <1>8, EventFields DEF At
  <2>2. In(routerQueue[u], DataPublished(d)) \/ d \in dataPublishers[u]
    BY <1>3, <1>8, <2>1
  <2>3. CASE dataLoop[d] = "ended"
    <3>1. Follows(routerQueue[u], DataRemoved(d), DataPublished(d))
      BY <1>8, <2>2, <2>3 DEF IInv, RouterSide, GhostsGo
    <3>2. u # r => routerQueue'[u] = routerQueue[u]
      BY <1>1
    <3> QED BY <1>2, <2>1, <3>1, <3>2, Zenon
  <2>4. CASE dataLoop[d] # "ended"
    <3>1. e = DataRemoved(d) /\ u = r
      BY <1>8, <2>4
    <3>2. routerLoop[r] # "done"
      BY <1>8, <3>1
    <3> QED BY <1>2, <2>1, <3>1, <3>2, Zenon
  <2> QED BY <2>3, <2>4
<1>9. GhostsGo'
  BY <1>1, <1>7, <1>8 DEF GhostsGo, At
<1>10. RemovedAreDone'
  <2> SUFFICES ASSUME NEW u \in Routers, NEW p \in Publishers, In(routerQueue'[u], PublisherRemoved(p))
               PROVE  \E q \in Publishers : IdOf[q] = IdOf[p] /\ RouterOf[q] = u /\ loop'[q] = "done"
    BY DEF RemovedAreDone
  <2> QED BY <1>3 DEF IInv, RouterSide, RemovedAreDone
<1>11. LiveAreListed'
  <2> SUFFICES ASSUME DistinctIds, NEW p \in published', NEW u \in Routers,
                      loop'[p] = "running", u = RouterOf[p], routerLoop'[u] # "done"
               PROVE  p \in Listed(u) \/ In(routerQueue'[u], MediaPublished(p))
    BY <1>1 DEF LiveAreListed, DistinctIds
  <2>1. loop[p] = "running" /\ p \in Publishers
    OBVIOUS
  <2>2. CASE p \in published
    <3>1. p \in Listed(u) \/ In(routerQueue[u], MediaPublished(p))
      BY <2>1, <2>2 DEF IInv, RouterSide, LiveAreListed
    <3> QED BY <1>4, <3>1
  <2>3. CASE e = MediaPublished(p)
    <3>1. u = r /\ routerLoop[r] # "done"
      BY <1>5, <2>1, <2>3
    <3> QED BY <1>2, <2>3, <3>1, Zenon
  <2> QED BY <2>1, <2>2, <2>3
<1> QED BY <1>6, <1>9, <1>10, <1>11 DEF RouterSide

\* A router handles the first event of its queue.
LEMMA HandledInv ==
  ASSUME IInv, NEW r \in Routers, routerLoop[r] # "done", routerQueue[r] # << >>, Handled(r),
         UNCHANGED <<routerLoop, published, loop, dataLoop>>,
         NEW e, e = Head(routerQueue[r]),
         \A u \in Routers \ {r} : publishers'[u] = publishers[u] /\ dataPublishers'[u] = dataPublishers[u],
         \A p \in Publishers : p \in Listed(r)' <=>
           /\ p \in Listed(r) \/ e = MediaPublished(p)
           /\ ~\E q \in Publishers : e = PublisherRemoved(q) /\ IdOf[q] = IdOf[p],
         (\A p \in Publishers : e = MediaPublished(p) => p \notin Listed(r)) =>
           \A x, y \in publishers'[r] : x[2] = y[2] => x = y,
         \A d \in DataPublishers :
           /\ d \in dataPublishers'[r] => d \in dataPublishers[r] \/ e = DataPublished(d)
           /\ e = DataRemoved(d) => d \notin dataPublishers'[r]
  PROVE  RouterSide'
<1>1. /\ routerQueue[r] \in Seq(RouterEvents(r))
      /\ routerQueue'[r] = Tail(routerQueue[r])
      /\ \A u \in Routers \ {r} : routerQueue'[u] = routerQueue[u] /\ Listed(u)' = Listed(u)
  BY DEF IInv, RouterTypes, Handled, Listed
<1>2. /\ \A f : In(routerQueue[r], f) <=> In(routerQueue'[r], f) \/ f = e
      /\ \A f, g : Follows(routerQueue[r], f, g) =>
                    Follows(routerQueue'[r], f, g) \/ (f = e /\ ~In(routerQueue[r], g))
      /\ \A f : OnceIn(routerQueue[r], f) => OnceIn(routerQueue'[r], f) /\ (f = e => ~In(routerQueue'[r], f))
  <2>1. /\ \A f : In(routerQueue[r], f) <=> In(Tail(routerQueue[r]), f) \/ f = Head(routerQueue[r])
        /\ \A f, g : Follows(routerQueue[r], f, g) =>
             Follows(Tail(routerQueue[r]), f, g) \/ (f = Head(routerQueue[r]) /\ ~In(routerQueue[r], g))
        /\ \A f : OnceIn(routerQueue[r], f) =>
             OnceIn(Tail(routerQueue[r]), f) /\ (f = Head(routerQueue[r]) => ~In(Tail(routerQueue[r]), f))
    BY <1>1, TailFacts
  <2>2. routerQueue'[r] = Tail(routerQueue[r]) /\ Head(routerQueue[r]) = e
    BY <1>1
  <2> QED BY <2>1, <2>2, Zenon
<1>3. AnnouncedOnce'
  <2> SUFFICES ASSUME NEW u \in Routers, NEW p \in Publishers
               PROVE  (/\ In(routerQueue[u], MediaPublished(p)) \/ p \in Listed(u) =>
                            p \in published /\ RouterOf[p] = u
                       /\ OnceIn(routerQueue[u], MediaPublished(p))
                       /\ In(routerQueue[u], MediaPublished(p)) => p \notin Listed(u)
                       /\ \A x, y \in publishers[u] : x[2] = y[2] => x = y)'
    BY DEF AnnouncedOnce
  <2>1. /\ In(routerQueue[u], MediaPublished(p)) \/ p \in Listed(u) => p \in published /\ RouterOf[p] = u
        /\ OnceIn(routerQueue[u], MediaPublished(p))
        /\ In(routerQueue[u], MediaPublished(p)) => p \notin Listed(u)
        /\ \A x, y \in publishers[u] : x[2] = y[2] => x = y
    BY DEF IInv, RouterSide, AnnouncedOnce
  <2>2. CASE u # r
    BY <1>1, <2>1, <2>2
  <2>3. CASE u = r
    <3>1. In(routerQueue'[r], MediaPublished(p)) => In(routerQueue[r], MediaPublished(p))
      BY <1>2
    <3>2. p \in Listed(r)' => p \in Listed(r) \/ e = MediaPublished(p)
      OBVIOUS
    <3>3. e = MediaPublished(p) => In(routerQueue[r], MediaPublished(p))
      BY <1>2
    <3>4. OnceIn(routerQueue'[r], MediaPublished(p))
      BY <1>2, <2>1, <2>3
    <3>5. e = MediaPublished(p) => ~In(routerQueue'[r], MediaPublished(p))
      BY <1>2, <2>1, <2>3
    <3>6. \A x, y \in publishers'[r] : x[2] = y[2] => x = y
      <4>1. \A q \in Publishers : e = MediaPublished(q) => In(routerQueue[r], MediaPublished(q))
        BY <1>2
      <4> QED BY <4>1 DEF IInv, RouterSide, AnnouncedOnce
    <3> QED BY <2>1, <2>3, <3>1, <3>2, <3>3, <3>4, <3>5, <3>6
  <2> QED BY <2>2, <2>3
<1>4. ASSUME NEW u \in Routers, routerLoop[u] # "done", NEW p \in Publishers, loop[p] = "done",
             In(routerQueue'[u], MediaPublished(p)) \/ p \in Listed(u)'
      PROVE  Follows(routerQueue'[u], PublisherRemoved(p), MediaPublished(p))
  <2>1. CASE u # r
    BY <1>1, <1>4, <2>1 DEF IInv, RouterSide, GhostsGo
  <2>2. CASE u = r
    <3>1. In(routerQueue[r], MediaPublished(p)) \/ p \in Listed(r)
      BY <1>2, <1>4, <2>2
    <3>2. Follows(routerQueue[r], PublisherRemoved(p), MediaPublished(p))
      BY <1>4, <2>2, <3>1 DEF IInv, RouterSide, GhostsGo
    <3>3. ~(PublisherRemoved(p) = e /\ ~In(routerQueue[r], MediaPublished(p)))
      <4>1. ASSUME PublisherRemoved(p) = e, ~In(routerQueue[r], MediaPublished(p)) PROVE FALSE
        <5>1. p \notin Listed(r)'
          BY <4>1
        <5>2. ~In(routerQueue'[r], MediaPublished(p))
          BY <1>2, <4>1
        <5> QED BY <1>4, <2>2, <5>1, <5>2
      <4> QED BY <4>1
    <3> QED BY <1>2, <2>2, <3>2, <3>3, Zenon
  <2> QED BY <2>1, <2>2
<1>5. ASSUME NEW u \in Routers, routerLoop[u] # "done", NEW d \in At(DataPublishers, u),
             dataLoop[d] = "ended", In(routerQueue'[u], DataPublished(d)) \/ d \in dataPublishers'[u]
      PROVE  Follows(routerQueue'[u], DataRemoved(d), DataPublished(d))
  <2>1. CASE u # r
    BY <1>1, <1>5, <2>1 DEF IInv, RouterSide, GhostsGo
  <2>2. CASE u = r
    <3>1. d \in DataPublishers
      BY DEF At
    <3>2. In(routerQueue[r], DataPublished(d)) \/ d \in dataPublishers[r]
      BY <1>2, <1>5, <2>2, <3>1
    <3>3. Follows(routerQueue[r], DataRemoved(d), DataPublished(d))
      BY <1>5, <2>2, <3>2 DEF IInv, RouterSide, GhostsGo
    <3>4. ~(DataRemoved(d) = e /\ ~In(routerQueue[r], DataPublished(d)))
      <4>1. ASSUME DataRemoved(d) = e, ~In(routerQueue[r], DataPublished(d)) PROVE FALSE
        <5>1. d \notin dataPublishers'[r]
          BY <3>1, <4>1
        <5>2. ~In(routerQueue'[r], DataPublished(d))
          BY <1>2, <4>1
        <5> QED BY <1>5, <2>2, <5>1, <5>2
      <4> QED BY <4>1
    <3> QED BY <1>2, <2>2, <3>3, <3>4, Zenon
  <2> QED BY <2>1, <2>2
<1>6. GhostsGo'
  BY <1>4, <1>5 DEF GhostsGo, At
<1>7. \A u \in Routers : \A f : In(routerQueue'[u], f) => In(routerQueue[u], f)
  <2> SUFFICES ASSUME NEW u \in Routers, NEW f, In(routerQueue'[u], f) PROVE In(routerQueue[u], f)
    OBVIOUS
  <2>1. u # r => routerQueue'[u] = routerQueue[u]
    BY <1>1
  <2> QED BY <1>2, <2>1, Zenon
<1>8. RemovedAreDone'
  BY <1>7 DEF IInv, RouterSide, RemovedAreDone
<1>9. LiveAreListed'
  <2> SUFFICES ASSUME DistinctIds, NEW p \in published, NEW u \in Routers,
                      loop[p] = "running", u = RouterOf[p], routerLoop[u] # "done"
               PROVE  p \in Listed(u)' \/ In(routerQueue'[u], MediaPublished(p))
    BY DEF LiveAreListed, DistinctIds
  <2>1. p \in Listed(u) \/ In(routerQueue[u], MediaPublished(p))
    BY DEF IInv, RouterSide, LiveAreListed
  <2>2. p \in Publishers
    BY DEF IInv, LoopTypes
  <2>3. CASE u # r
    BY <1>1, <2>1, <2>3
  <2>4. CASE u = r
    <3>1. ASSUME NEW q \in Publishers, e = PublisherRemoved(q), IdOf[q] = IdOf[p] PROVE FALSE
      <4>1. In(routerQueue[r], PublisherRemoved(q))
        BY <1>2, <3>1
      <4>2. PICK t \in Publishers : IdOf[t] = IdOf[q] /\ RouterOf[t] = r /\ loop[t] = "done"
        BY <4>1 DEF IInv, RouterSide, RemovedAreDone
      <4>3. t = p
        <5>1. \A a, b \in Publishers : IdOf[a] = IdOf[b] /\ RouterOf[a] = RouterOf[b] => a = b
          BY DEF DistinctIds
        <5>2. IdOf[t] = IdOf[p] /\ RouterOf[t] = RouterOf[p]
          BY <2>4, <3>1, <4>2
        <5> QED BY <2>2, <5>1, <5>2, Zenon
      <4> QED BY <4>2, <4>3
    <3>2. In(routerQueue[r], MediaPublished(p)) =>
            In(routerQueue'[r], MediaPublished(p)) \/ e = MediaPublished(p)
      BY <1>2
    <3> QED BY <2>1, <2>2, <2>4, <3>1, <3>2
  <2> QED BY <2>3, <2>4
<1> QED BY <1>3, <1>6, <1>8, <1>9 DEF RouterSide

\* A step that leaves the queues and the lists of the routers alone.
LEMMA RouterSideStays ==
  ASSUME IInv, UNCHANGED <<routerQueue, publishers, dataPublishers, published>>,
         \A r \in Routers : routerLoop'[r] = "done" <=> routerLoop[r] = "done",
         \A p \in Publishers : loop'[p] = "done" <=> loop[p] = "done",
         \A p \in published : loop'[p] = "running" => loop[p] = "running",
         \A d \in DataPublishers : dataLoop'[d] = "ended" <=> dataLoop[d] = "ended"
  PROVE  RouterSide'
<1>1. \A r \in Routers : Listed(r)' = Listed(r)
  BY DEF Listed
<1>2. AnnouncedOnce' /\ RemovedAreDone'
  BY <1>1 DEF IInv, RouterSide, AnnouncedOnce, RemovedAreDone
<1>3. GhostsGo'
  BY <1>1 DEF IInv, RouterSide, GhostsGo, At
<1>4. LiveAreListed'
  <2> SUFFICES ASSUME DistinctIds, NEW p \in published, NEW r \in Routers,
                      loop'[p] = "running", r = RouterOf[p], routerLoop'[r] # "done"
               PROVE  p \in Listed(r)' \/ In(routerQueue'[r], MediaPublished(p))
    BY DEF LiveAreListed, DistinctIds
  <2> QED BY <1>1 DEF IInv, RouterSide, LiveAreListed
<1> QED BY <1>2, <1>3, <1>4 DEF RouterSide

\* Where events come from and go to.
LEMMA Homes ==
  /\ \A p \in Publishers : /\ RouterOf[p] \in Routers
                         /\ MediaPublished(p) \in RouterEvents(RouterOf[p])
                         /\ PublisherRemoved(p) \in RouterEvents(RouterOf[p])
  /\ \A d \in DataPublishers : /\ RouterOf[d] \in Routers
                             /\ DataPublished(d) \in RouterEvents(RouterOf[d])
                             /\ DataRemoved(d) \in RouterEvents(RouterOf[d])
  /\ \A q \in Lookups : /\ RouterOf[q] \in Routers
                      /\ \A id \in Ids : GetPublisher(q, id) \in RouterEvents(RouterOf[q])
  /\ \A r \in Routers : Closed \in RouterEvents(r)
<1>1. \A x \in Publishers \cup DataPublishers \cup Lookups : RouterOf[x] \in Routers
  BY RegistryAssumption
<1>2. \A p \in Publishers : MediaPublished(p) \in RouterEvents(RouterOf[p])
  BY DEF RouterEvents, At
<1>3. \A p \in Publishers : PublisherRemoved(p) \in RouterEvents(RouterOf[p])
  BY DEF RouterEvents, At
<1>4. \A d \in DataPublishers : DataPublished(d) \in RouterEvents(RouterOf[d])
  BY DEF RouterEvents, At
<1>5. \A d \in DataPublishers : DataRemoved(d) \in RouterEvents(RouterOf[d])
  BY DEF RouterEvents, At
<1>6. \A q \in Lookups, id \in Ids : GetPublisher(q, id) \in RouterEvents(RouterOf[q])
  BY DEF RouterEvents, At
<1>7. \A r \in Routers : Closed \in RouterEvents(r)
  BY DEF RouterEvents
<1> QED BY <1>1, <1>2, <1>3, <1>4, <1>5, <1>6, <1>7

-----------------------------------------------------------------------------
(* The worker and the publishers *)

LEMMA WorkerInv ==
  ASSUME IInv, CloseWorker \/ WorkerHandles \/ \E r \in Routers : NewRouter(r)
  PROVE  IInv'
<1>1. UNCHANGED <<routerQueue, publishers, dataPublishers, publisherVars, relayVars, dataLoop, lookup>>
  BY DEF CloseWorker, WorkerHandles, NewRouter, routerVars
<1>2. /\ routers' \subseteq Routers /\ workerQueue' \in Seq(Routers) /\ stopped' \subseteq Routers
      /\ routerLoop' \in [Routers -> {"none", "running", "closing", "done"}]
      /\ \A r \in Routers : routerLoop'[r] = "done" <=> routerLoop[r] = "done"
  <2> USE DEF IInv, LoopTypes, RouterTypes
  <2>1. CASE CloseWorker
    BY <2>1 DEF CloseWorker, routerVars
  <2>2. CASE WorkerHandles
    <3>1. Tail(workerQueue) \in Seq(Routers) /\ routers \ {Head(workerQueue)} \subseteq Routers
      BY <2>2 DEF WorkerHandles
    <3> QED BY <2>2, <3>1 DEF WorkerHandles, routerVars
  <2>3. ASSUME NEW r \in Routers, NewRouter(r)
        PROVE  /\ routers' \subseteq Routers /\ workerQueue' = workerQueue /\ stopped' = stopped
               /\ routerLoop' \in [Routers -> {"none", "running", "closing", "done"}]
               /\ \A u \in Routers : routerLoop'[u] = "done" <=> routerLoop[u] = "done"
    BY <2>3 DEF NewRouter
  <2> QED BY <2>1, <2>2, <2>3
<1>3. LoopTypes' /\ RouterTypes'
  BY <1>1, <1>2 DEF IInv, LoopTypes, RouterTypes, publisherVars, relayVars
<1>4. RouterSide'
  BY <1>1, <1>2, RouterSideStays DEF publisherVars, relayVars
<1>5. TracksOK' /\ FoundArePublished'
  BY <1>1 DEF IInv, TracksOK, FoundArePublished, publisherVars, relayVars
<1> QED BY <1>3, <1>4, <1>5 DEF IInv

\* What an event sent to a publisher leaves in its queue.
LEMMA ToldFacts ==
  ASSUME IInv, NEW p \in Publishers, NEW e \in PublisherEvents
  PROVE  /\ Told(p, e) \in [Publishers -> Seq(PublisherEvents)]
         /\ \A u \in Publishers : \A f :
              In(Told(p, e)[u], f) => In(queue[u], f) \/ (u = p /\ f = e)
<1>1. queue \in [Publishers -> Seq(PublisherEvents)]
  BY DEF IInv, LoopTypes
<1>2. CASE loop[p] = "done"
  <2>1. Told(p, e) = queue
    BY <1>2 DEF Told
  <2> QED BY <1>1, <2>1, Zenon
<1>3. CASE loop[p] # "done"
  <2>1. Told(p, e) = [queue EXCEPT ![p] = Append(@, e)]
    BY <1>3 DEF Told
  <2>2. /\ Append(queue[p], e) \in Seq(PublisherEvents)
        /\ \A f : In(Append(queue[p], e), f) <=> In(queue[p], f) \/ f = e
    BY <1>1, AppendFacts
  <2>3. Told(p, e) \in [Publishers -> Seq(PublisherEvents)]
    BY <1>1, <2>1, <2>2
  <2>4. Told(p, e)[p] = Append(queue[p], e) /\ \A u \in Publishers : u = p \/ Told(p, e)[u] = queue[u]
    BY <1>1, <2>1
  <2> QED BY <2>2, <2>3, <2>4, Zenon
<1> QED BY <1>2, <1>3

\* The remote track is polled, opens or ends; somebody closes the publisher.
LEMMA PollInv ==
  ASSUME IInv, NEW p \in Publishers,
         OnTrack(p) \/ TrackEnds(p) \/ ClosePublisher(p) \/ \E s \in Ssrcs : TrackOpens(p, s)
  PROVE  IInv'
<1>1. UNCHANGED <<workerVars, routerVars, localTracks, published, relayVars, dataLoop, lookup>>
  BY DEF OnTrack, TrackEnds, ClosePublisher, TrackOpens
<1>2. /\ loop' \in [Publishers -> {"none", "running", "closing", "done"}]
      /\ polling' \subseteq Publishers /\ closing' \subseteq Publishers
      /\ inputs' \in [Publishers -> SUBSET Ssrcs]
  BY DEF IInv, LoopTypes, OnTrack, TrackEnds, ClosePublisher, TrackOpens
<1>3. /\ queue' \in [Publishers -> Seq(PublisherEvents)]
      /\ \A u \in Publishers, s \in Ssrcs : In(queue'[u], Added(s)) => In(queue[u], Added(s))
  <2>1. PICK e \in PublisherEvents : e.type # "TrackAdded" /\ (queue' = queue \/ queue' = Told(p, e))
    <3>1. /\ Closing \in PublisherEvents /\ Closing.type # "TrackAdded"
          /\ \A s \in Ssrcs : Opened(s) \in PublisherEvents /\ Opened(s).type # "TrackAdded"
      BY EventFields DEF PublisherEvents
    <3> QED BY <3>1 DEF OnTrack, TrackEnds, ClosePublisher, TrackOpens
  <2>2. \A s \in Ssrcs : Added(s) # e
    BY <2>1, EventFields
  <2>3. CASE queue' = queue
    BY <2>3 DEF IInv, LoopTypes
  <2>4. CASE queue' = Told(p, e)
    <3>1. /\ Told(p, e) \in [Publishers -> Seq(PublisherEvents)]
          /\ \A u \in Publishers : \A f :
               In(Told(p, e)[u], f) => In(queue[u], f) \/ (u = p /\ f = e)
      BY ToldFacts
    <3> QED BY <2>2, <2>4, <3>1, Zenon
  <2> QED BY <2>1, <2>3, <2>4
<1>4. LoopTypes' /\ RouterTypes'
  BY <1>1, <1>2, <1>3 DEF IInv, LoopTypes, RouterTypes, workerVars, routerVars, relayVars
<1>5. \A u \in Publishers :
        /\ loop'[u] = "done" <=> loop[u] = "done"
        /\ loop'[u] = loop[u] \/ (u = p /\ loop[u] = "none" /\ loop'[u] = "running")
  BY DEF IInv, LoopTypes, OnTrack, TrackEnds, ClosePublisher, TrackOpens
<1>6. \A u \in Publishers : loop[u] = "none" =>
        u \notin polling /\ u \notin published /\ inputs[u] = localTracks[u]
  BY DEF IInv, TracksOK
<1>7. \A u \in Publishers :
        /\ u # p => (u \in polling' <=> u \in polling) /\ inputs'[u] = inputs[u]
        /\ p \in polling' => inputs'[p] = inputs[p] /\ (p \in polling \/ loop[p] = "none")
        /\ loop'[p] = "none" => p \notin polling' /\ inputs'[p] = inputs[p]
  BY <1>6 DEF IInv, LoopTypes, OnTrack, TrackEnds, ClosePublisher, TrackOpens
<1>8. TracksOK'
  <2> SUFFICES ASSUME NEW u \in Publishers
               PROVE  /\ loop'[u] = "none" =>
                           u \notin polling' /\ u \notin published /\ inputs'[u] = localTracks[u]
                      /\ loop'[u] \in {"none", "running"} =>
                           /\ u \in published \/ (\E s \in Ssrcs : In(queue'[u], Added(s))) =>
                                localTracks[u] # {}
                           /\ u \in polling' => inputs'[u] = localTracks[u]
    BY <1>1 DEF TracksOK
  <2>1. /\ loop[u] = "none" =>
             u \notin polling /\ u \notin published /\ inputs[u] = localTracks[u]
        /\ loop[u] \in {"none", "running"} =>
             /\ u \in published \/ (\E s \in Ssrcs : In(queue[u], Added(s))) => localTracks[u] # {}
             /\ u \in polling => inputs[u] = localTracks[u]
    BY DEF IInv, TracksOK
  <2> QED BY <1>3, <1>5, <1>7, <2>1
<1>9. \A u \in published : loop'[u] = "running" => loop[u] = "running"
  BY <1>5, <1>6 DEF IInv, LoopTypes
<1>10. RouterSide'
  BY <1>1, <1>5, <1>9, RouterSideStays DEF routerVars
<1>11. FoundArePublished'
  BY <1>1 DEF IInv, FoundArePublished
<1> QED BY <1>4, <1>8, <1>10, <1>11 DEF IInv

\* The event a publisher handles, and the queue it leaves.
LEMMA PublisherHead ==
  ASSUME IInv, NEW p \in Publishers, NEW type, Next1(p, type)
  PROVE  /\ loop[p] = "running" /\ Head(queue[p]).type = type
         /\ queue \in [Publishers -> Seq(PublisherEvents)] /\ Tail(queue[p]) \in Seq(PublisherEvents)
         /\ In(queue[p], Head(queue[p]))
         /\ \A f : In(Tail(queue[p]), f) => In(queue[p], f)
         /\ type = "TrackOpened" => Head(queue[p]).ssrc \in Ssrcs
         /\ type = "TrackAdded" => \E s \in Ssrcs : Head(queue[p]) = Added(s)
<1>1. queue \in [Publishers -> Seq(PublisherEvents)] /\ queue[p] # << >>
  BY DEF IInv, LoopTypes, Next1
<1>2. /\ Tail(queue[p]) \in Seq(PublisherEvents) /\ Head(queue[p]) \in PublisherEvents
      /\ \A f : In(queue[p], f) <=> In(Tail(queue[p]), f) \/ f = Head(queue[p])
  <2>1. queue[p] \in Seq(PublisherEvents)
    BY <1>1
  <2> QED BY <1>1, <2>1, TailFacts
<1>3. loop[p] = "running" /\ Head(queue[p]).type = type
  BY DEF Next1
<1>4. \/ \E s \in Ssrcs : Head(queue[p]) = Opened(s)
      \/ \E s \in Ssrcs : Head(queue[p]) = Added(s)
      \/ Head(queue[p]) = Closing
  BY <1>2 DEF PublisherEvents
<1>5. type = "TrackOpened" => Head(queue[p]).ssrc \in Ssrcs
  BY <1>3, <1>4, EventFields
<1>6. type = "TrackAdded" => \E s \in Ssrcs : Head(queue[p]) = Added(s)
  BY <1>3, <1>4, EventFields
<1> QED BY <1>1, <1>2, <1>3, <1>5, <1>6

LEMMA TrackOpenedInv ==
  ASSUME IInv, NEW p \in Publishers, HandleTrackOpened(p)
  PROVE  IInv'
<1> DEFINE s == Head(queue[p]).ssrc
<1>1. /\ UNCHANGED <<workerVars, routerVars, loop, polling, closing, published, relayVars, dataLoop,
                    lookup>>
      /\ Next1(p, "TrackOpened")
  BY DEF HandleTrackOpened
<1>2. /\ loop[p] = "running" /\ s \in Ssrcs
      /\ queue \in [Publishers -> Seq(PublisherEvents)] /\ Tail(queue[p]) \in Seq(PublisherEvents)
      /\ \A f : In(Tail(queue[p]), f) => In(queue[p], f)
  BY <1>1, PublisherHead
<1>3. Added(s) \in PublisherEvents
  BY <1>2 DEF PublisherEvents
<1>4. /\ Append(Tail(queue[p]), Added(s)) \in Seq(PublisherEvents)
      /\ \A f : In(Append(Tail(queue[p]), Added(s)), f) <=> In(Tail(queue[p]), f) \/ f = Added(s)
  <2> DEFINE t == Tail(queue[p])
             e == Added(s)
  <2>1. t \in Seq(PublisherEvents) /\ e \in PublisherEvents
    BY <1>2, <1>3
  <2> HIDE DEF t, e
  <2>2. /\ Append(t, e) \in Seq(PublisherEvents)
        /\ \A f : In(Append(t, e), f) <=> In(t, f) \/ f = e
    BY <2>1, AppendFacts
  <2> QED BY <2>2 DEF t, e
<1>5. localTracks \in [Publishers -> SUBSET Ssrcs] /\ inputs \in [Publishers -> SUBSET Ssrcs]
  BY DEF IInv, LoopTypes
<1>6. /\ \/ /\ queue'[p] = Tail(queue[p]) /\ localTracks'[p] = localTracks[p]
            /\ inputs'[p] = inputs[p]
         \/ /\ queue'[p] = Append(Tail(queue[p]), Added(s))
            /\ localTracks'[p] = localTracks[p] \cup {s} /\ inputs'[p] = inputs[p] \cup {s}
      /\ \A u \in Publishers \ {p} :
           queue'[u] = queue[u] /\ localTracks'[u] = localTracks[u] /\ inputs'[u] = inputs[u]
      /\ localTracks' \in [Publishers -> SUBSET Ssrcs] /\ inputs' \in [Publishers -> SUBSET Ssrcs]
      /\ queue' \in [Publishers -> Seq(PublisherEvents)]
  <2> HIDE DEF s
  <2>1. CASE s \in localTracks[p]
    <3>1. queue' = [queue EXCEPT ![p] = Tail(@)] /\ UNCHANGED <<localTracks, inputs>>
      BY <2>1 DEF HandleTrackOpened, s
    <3> QED BY <1>2, <1>5, <3>1
  <2>2. CASE s \notin localTracks[p]
    <3>1. /\ queue' = [queue EXCEPT ![p] = Append(Tail(@), Added(s))]
          /\ localTracks' = [localTracks EXCEPT ![p] = @ \cup {s}]
          /\ inputs' = [inputs EXCEPT ![p] = inputs[p] \cup {s}]
      BY <2>2 DEF HandleTrackOpened, WithInput, s
    <3> QED BY <1>2, <1>4, <1>5, <3>1
  <2> QED BY <2>1, <2>2
<1> HIDE DEF s
<1>7. LoopTypes' /\ RouterTypes'
  BY <1>1, <1>6 DEF IInv, LoopTypes, RouterTypes, workerVars, routerVars, relayVars
<1>8. RouterSide'
  BY <1>1, RouterSideStays DEF routerVars
<1>9. TracksOK'
  <2> SUFFICES ASSUME NEW u \in Publishers
               PROVE  /\ loop[u] = "none" =>
                           u \notin polling /\ u \notin published /\ inputs'[u] = localTracks'[u]
                      /\ loop[u] \in {"none", "running"} =>
                           /\ u \in published \/ (\E x \in Ssrcs : In(queue'[u], Added(x))) =>
                                localTracks'[u] # {}
                           /\ u \in polling => inputs'[u] = localTracks'[u]
    BY <1>1 DEF TracksOK
  <2>1. /\ loop[u] = "none" =>
             u \notin polling /\ u \notin published /\ inputs[u] = localTracks[u]
        /\ loop[u] \in {"none", "running"} =>
             /\ u \in published \/ (\E x \in Ssrcs : In(queue[u], Added(x))) => localTracks[u] # {}
             /\ u \in polling => inputs[u] = localTracks[u]
    BY DEF IInv, TracksOK
  <2>2. CASE u # p
    BY <1>6, <2>1, <2>2
  <2>3. CASE u = p /\ queue'[p] = Tail(queue[p]) /\ localTracks'[p] = localTracks[p]
                   /\ inputs'[p] = inputs[p]
    BY <1>2, <2>1, <2>3, Zenon
  <2>4. CASE u = p /\ localTracks'[p] = localTracks[p] \cup {s} /\ inputs'[p] = inputs[p] \cup {s}
    BY <1>2, <2>1, <2>4
  <2> QED BY <1>6, <2>2, <2>3, <2>4
<1>10. FoundArePublished'
  BY <1>1 DEF IInv, FoundArePublished
<1> QED BY <1>7, <1>8, <1>9, <1>10 DEF IInv

LEMMA TrackAddedInv ==
  ASSUME IInv, NEW p \in Publishers, HandleTrackAdded(p)
  PROVE  IInv'
<1>1. /\ UNCHANGED <<workerVars, routerLoop, publishers, dataPublishers, loop, polling,
                    closing, localTracks, inputs, relayed, dataLoop, lookup>>
      /\ relaying' \subseteq relaying \cup {p}
      /\ Next1(p, "TrackAdded") /\ queue' = [queue EXCEPT ![p] = Tail(@)]
      /\ published' = published \cup {p}
      /\ routerQueue' = IF FirstTrack(p) THEN Sent(RouterOf[p], MediaPublished(p)) ELSE routerQueue
  BY DEF HandleTrackAdded
<1>2. /\ loop[p] = "running" /\ \E s \in Ssrcs : Head(queue[p]) = Added(s)
      /\ In(queue[p], Head(queue[p]))
      /\ queue \in [Publishers -> Seq(PublisherEvents)] /\ Tail(queue[p]) \in Seq(PublisherEvents)
      /\ \A f : In(Tail(queue[p]), f) => In(queue[p], f)
  BY <1>1, PublisherHead
<1>3. localTracks[p] # {}
  <2>1. \E s \in Ssrcs : In(queue[p], Added(s))
    BY <1>2, Zenon
  <2> QED BY <1>2, <2>1 DEF IInv, TracksOK
<1>4. published \subseteq Publishers
  BY DEF IInv, LoopTypes
<1>5. RouterOf[p] \in Routers /\ MediaPublished(p) \in RouterEvents(RouterOf[p])
  BY Homes
<1>6. /\ DOMAIN routerQueue' = Routers
      /\ \A u \in Routers : routerQueue'[u] \in Seq(RouterEvents(u))
  <2>1. CASE FirstTrack(p)
    <3>1. routerQueue' = Sent(RouterOf[p], MediaPublished(p))
      BY <1>1, <2>1
    <3> QED BY <1>5, <3>1, SentTypes
  <2>2. CASE ~FirstTrack(p)
    BY <1>1, <2>2 DEF IInv, RouterTypes
  <2> QED BY <2>1, <2>2
<1>7. queue' \in [Publishers -> Seq(PublisherEvents)]
  BY <1>1, <1>2
<1>8. LoopTypes' /\ RouterTypes'
  BY <1>1, <1>4, <1>6, <1>7 DEF IInv, LoopTypes, RouterTypes, workerVars
<1>9. RouterSide'
  <2>1. CASE FirstTrack(p)
    <3>1. routerQueue' = Sent(RouterOf[p], MediaPublished(p)) /\ p \notin published
      BY <1>1, <2>1 DEF FirstTrack
    <3> DEFINE e == MediaPublished(p)
    <3>2. /\ \A u \in Publishers : e = MediaPublished(u) => u = p
          /\ \A u \in Publishers : e # PublisherRemoved(u)
          /\ \A d \in DataPublishers : e # DataPublished(d)
      BY EventFields
    <3>3. e \in RouterEvents(RouterOf[p]) /\ routerQueue' = Sent(RouterOf[p], e)
      BY <1>5, <3>1
    <3> HIDE DEF e
    <3>4. \A u \in Publishers : u \in published' => u \in published \/ e = MediaPublished(u)
      BY <1>1 DEF e
    <3> QED BY <1>1, <1>2, <1>4, <1>5, <3>1, <3>2, <3>3, <3>4, SendInv
  <2>2. CASE ~FirstTrack(p)
    BY <1>1, <2>2, RouterSideStays DEF FirstTrack
  <2> QED BY <2>1, <2>2
<1>10. TracksOK'
  <2> SUFFICES ASSUME NEW u \in Publishers
               PROVE  /\ loop[u] = "none" =>
                           u \notin polling /\ u \notin published' /\ inputs[u] = localTracks[u]
                      /\ loop[u] \in {"none", "running"} =>
                           /\ u \in published' \/ (\E x \in Ssrcs : In(queue'[u], Added(x))) =>
                                localTracks[u] # {}
                           /\ u \in polling => inputs[u] = localTracks[u]
    BY <1>1 DEF TracksOK
  <2>1. /\ loop[u] = "none" =>
             u \notin polling /\ u \notin published /\ inputs[u] = localTracks[u]
        /\ loop[u] \in {"none", "running"} =>
             /\ u \in published \/ (\E x \in Ssrcs : In(queue[u], Added(x))) => localTracks[u] # {}
             /\ u \in polling => inputs[u] = localTracks[u]
    BY DEF IInv, TracksOK
  <2>2. CASE u # p
    <3>1. queue'[u] = queue[u] /\ (u \in published' <=> u \in published)
      BY <1>1, <1>2, <2>2
    <3> QED BY <2>1, <3>1, Zenon
  <2>3. CASE u = p
    BY <1>2, <1>3, <2>1, <2>3
  <2> QED BY <2>2, <2>3
<1>11. FoundArePublished'
  BY <1>1 DEF IInv, FoundArePublished
<1> QED BY <1>8, <1>9, <1>10, <1>11 DEF IInv

\* Close ends the tracks ...
LEMMA CloseInv ==
  ASSUME IInv, NEW p \in Publishers, HandleClose(p)
  PROVE  IInv'
<1>1. /\ UNCHANGED <<workerVars, routerVars, queue, polling, closing, published, relayVars,
                    dataLoop, lookup>>
      /\ localTracks' = [localTracks EXCEPT ![p] = {}] /\ inputs' = [inputs EXCEPT ![p] = {}]
      /\ loop' = [loop EXCEPT ![p] = "closing"] /\ loop[p] = "running"
  BY DEF HandleClose, Next1
<1>2. /\ loop' \in [Publishers -> {"none", "running", "closing", "done"}]
      /\ localTracks' \in [Publishers -> SUBSET Ssrcs] /\ inputs' \in [Publishers -> SUBSET Ssrcs]
      /\ loop'[p] = "closing"
      /\ \A u \in Publishers \ {p} :
           /\ loop'[u] = loop[u] /\ localTracks'[u] = localTracks[u] /\ inputs'[u] = inputs[u]
  BY <1>1 DEF IInv, LoopTypes
<1>3. LoopTypes' /\ RouterTypes'
  BY <1>1, <1>2 DEF IInv, LoopTypes, RouterTypes, workerVars, routerVars, relayVars
<1>4. RouterSide'
  <2>1. \A u \in Publishers : /\ loop'[u] = "done" <=> loop[u] = "done"
                              /\ loop'[u] = "running" => loop[u] = "running"
    BY <1>1, <1>2
  <2>2. published \subseteq Publishers
    BY DEF IInv, LoopTypes
  <2> QED BY <1>1, <2>1, <2>2, RouterSideStays DEF routerVars
<1>5. TracksOK'
  <2> SUFFICES ASSUME NEW u \in Publishers
               PROVE  (/\ loop[u] = "none" =>
                            u \notin polling /\ u \notin published /\ inputs[u] = localTracks[u]
                       /\ loop[u] \in {"none", "running"} =>
                            /\ u \in published \/ (\E x \in Ssrcs : In(queue[u], Added(x))) =>
                                 localTracks[u] # {}
                            /\ u \in polling => inputs[u] = localTracks[u])'
    BY DEF TracksOK
  <2>1. CASE u = p
    BY <1>2, <2>1
  <2>2. CASE u # p
    <3>1. /\ loop'[u] = loop[u] /\ queue' = queue /\ localTracks'[u] = localTracks[u]
          /\ inputs'[u] = inputs[u] /\ polling' = polling /\ published' = published
      BY <1>1, <1>2, <2>2
    <3>2. /\ loop[u] = "none" =>
               u \notin polling /\ u \notin published /\ inputs[u] = localTracks[u]
          /\ loop[u] \in {"none", "running"} =>
               /\ u \in published \/ (\E x \in Ssrcs : In(queue[u], Added(x))) => localTracks[u] # {}
               /\ u \in polling => inputs[u] = localTracks[u]
      BY DEF IInv, TracksOK
    <3> QED BY <3>1, <3>2, Zenon
  <2> QED BY <2>1, <2>2
<1>6. FoundArePublished'
  BY <1>1 DEF IInv, FoundArePublished
<1> QED BY <1>3, <1>4, <1>5, <1>6 DEF IInv

\* ... and, once the targets were told, the router hears of it.
LEMMA LeaveInv ==
  ASSUME IInv, NEW p \in Publishers, Leave(p)
  PROVE  IInv'
<1> DEFINE e == PublisherRemoved(p)
<1>1. /\ UNCHANGED <<workerVars, routerLoop, publishers, dataPublishers, polling, closing,
                    localTracks, inputs, published, relayVars, dataLoop, lookup>>
      /\ loop' = [loop EXCEPT ![p] = "done"] /\ queue' = [queue EXCEPT ![p] = << >>]
      /\ routerQueue' = Sent(RouterOf[p], e)
  BY DEF Leave, Removal
<1>2. loop[p] = "closing"
  BY DEF Leave
<1>3. RouterOf[p] \in Routers /\ e \in RouterEvents(RouterOf[p])
  BY Homes
<1>4. /\ DOMAIN routerQueue' = Routers
      /\ \A u \in Routers : routerQueue'[u] \in Seq(RouterEvents(u))
  BY <1>1, <1>3, SentTypes
<1>5. /\ loop' \in [Publishers -> {"none", "running", "closing", "done"}]
      /\ queue' \in [Publishers -> Seq(PublisherEvents)]
      /\ loop'[p] = "done"
      /\ \A u \in Publishers \ {p} : loop'[u] = loop[u] /\ queue'[u] = queue[u]
  <2>1. << >> \in Seq(PublisherEvents)
    OBVIOUS
  <2> QED BY <1>1, <2>1 DEF IInv, LoopTypes
<1>6. LoopTypes' /\ RouterTypes'
  BY <1>1, <1>4, <1>5 DEF IInv, LoopTypes, RouterTypes, workerVars, relayVars
<1>7. RouterSide'
  <2>1. /\ \A u \in Publishers : e # MediaPublished(u)
        /\ \A u \in Publishers : e = PublisherRemoved(u) => IdOf[u] = IdOf[p]
        /\ \A d \in DataPublishers : e # DataPublished(d)
    BY EventFields
  <2>2. e = PublisherRemoved(p) /\ published \subseteq Publishers
    BY DEF IInv, LoopTypes
  <2> HIDE DEF e
  <2>3. \A u \in Publishers : loop'[u] = loop[u] \/ u = p
    BY <1>5
  <2>4. \A u \in Publishers : e = PublisherRemoved(u) =>
          \E q \in Publishers : IdOf[q] = IdOf[u] /\ RouterOf[q] = RouterOf[p] /\ loop'[q] = "done"
    BY <1>5, <2>1
  <2>5. \A u \in Publishers :
          /\ loop'[u] = "running" => loop[u] = "running"
          /\ loop[u] = "done" => loop'[u] = "done"
          /\ loop'[u] = "done" => loop[u] = "done" \/ e = PublisherRemoved(u)
          /\ loop'[u] # loop[u] => RouterOf[u] = RouterOf[p] \/ loop'[u] # "done"
    BY <1>5, <2>2, <2>3
  <2> QED BY <1>1, <1>3, <2>1, <2>2, <2>4, <2>5, SendInv
<1>8. TracksOK'
  <2> SUFFICES ASSUME NEW u \in Publishers
               PROVE  (/\ loop[u] = "none" =>
                            u \notin polling /\ u \notin published /\ inputs[u] = localTracks[u]
                       /\ loop[u] \in {"none", "running"} =>
                            /\ u \in published \/ (\E x \in Ssrcs : In(queue[u], Added(x))) =>
                                 localTracks[u] # {}
                            /\ u \in polling => inputs[u] = localTracks[u])'
    BY DEF TracksOK
  <2>1. CASE u = p
    BY <1>5, <2>1
  <2>2. CASE u # p
    <3>1. /\ loop'[u] = loop[u] /\ queue'[u] = queue[u] /\ localTracks' = localTracks
          /\ inputs' = inputs /\ polling' = polling /\ published' = published
      BY <1>1, <1>5, <2>2
    <3>2. /\ loop[u] = "none" =>
               u \notin polling /\ u \notin published /\ inputs[u] = localTracks[u]
          /\ loop[u] \in {"none", "running"} =>
               /\ u \in published \/ (\E x \in Ssrcs : In(queue[u], Added(x))) => localTracks[u] # {}
               /\ u \in polling => inputs[u] = localTracks[u]
      BY DEF IInv, TracksOK
    <3> QED BY <3>1, <3>2, Zenon
  <2> QED BY <2>1, <2>2
<1>9. FoundArePublished'
  BY <1>1 DEF IInv, FoundArePublished
<1> QED BY <1>6, <1>7, <1>8, <1>9 DEF IInv

\* Somebody waits for another server, or has its reply.
LEMMA RelayInv ==
  ASSUME IInv, NEW x \in Publishers \cup DataPublishers, BeginRelay(x) \/ EndRelay(x)
  PROVE  IInv'
<1>1. UNCHANGED <<workerVars, routerVars, publisherVars, dataLoop, lookup>>
  BY DEF BeginRelay, EndRelay
<1>2. relayed' \subseteq Publishers /\ relaying' \subseteq Publishers \cup DataPublishers
  BY DEF IInv, LoopTypes, BeginRelay, EndRelay
<1>3. LoopTypes' /\ RouterTypes'
  BY <1>1, <1>2 DEF IInv, LoopTypes, RouterTypes, workerVars, routerVars, publisherVars
<1>4. RouterSide'
  BY <1>1, RouterSideStays DEF routerVars, publisherVars
<1>5. TracksOK' /\ FoundArePublished'
  BY <1>1 DEF IInv, TracksOK, FoundArePublished, publisherVars
<1> QED BY <1>3, <1>4, <1>5 DEF IInv

-----------------------------------------------------------------------------
(* The data channels, the lookups and the application *)

\* A step of nobody's publisher: their queues, tracks and loops stay.
LEMMA PublishersStay ==
  ASSUME IInv, UNCHANGED <<workerVars, publisherVars, relayVars>>,
         dataLoop' \in [DataPublishers ->
           {"none", "created", "open", "ended", "endedEarly", "overtaken"}],
         \A q \in Lookups : lookup'[q].pub # Nobody => lookup'[q].pub \in published,
         RouterTypes', RouterSide'
  PROVE  IInv'
<1>1. LoopTypes'
  BY DEF IInv, LoopTypes, workerVars, publisherVars, relayVars
<1>2. TracksOK'
  BY DEF IInv, TracksOK, publisherVars, relayVars
<1>3. FoundArePublished'
  BY DEF FoundArePublished, publisherVars, relayVars
<1> QED BY <1>1, <1>2, <1>3 DEF IInv

\* The queues after an event was sent keep their type.
LEMMA SendTypes ==
  ASSUME IInv, NEW r \in Routers, NEW e \in RouterEvents(r), routerQueue' = Sent(r, e),
         UNCHANGED <<publishers, dataPublishers>>,
         routerLoop' \in [Routers -> {"none", "running", "closing", "done"}],
         lookup' \in [Lookups -> [state : States, pub : Publishers \cup {Nobody}]]
  PROVE  RouterTypes'
<1>1. DOMAIN Sent(r, e) = Routers /\ \A u \in Routers : Sent(r, e)[u] \in Seq(RouterEvents(u))
  BY SentTypes
<1> QED BY <1>1 DEF IInv, RouterTypes

\* A data channel opens, is announced, or closes.
LEMMA DataInv ==
  ASSUME IInv, NEW d \in DataPublishers, OnDataChannel(d) \/ Announce(d) \/ DataChannelCloses(d)
  PROVE  IInv'
<1>1. UNCHANGED <<workerVars, routerLoop, publishers, dataPublishers, publisherVars, relayVars, lookup>>
  BY DEF OnDataChannel, Announce, DataChannelCloses, routerVars
<1>2. /\ UNCHANGED <<published, loop>>
      /\ published \subseteq Publishers
      /\ routerLoop' \in [Routers -> {"none", "running", "closing", "done"}]
      /\ lookup' \in [Lookups -> [state : States, pub : Publishers \cup {Nobody}]]
      /\ \A q \in Lookups : lookup'[q].pub # Nobody => lookup'[q].pub \in published
  BY <1>1 DEF IInv, LoopTypes, RouterTypes, FoundArePublished, publisherVars, relayVars
<1>3. /\ dataLoop' \in [DataPublishers ->
           {"none", "created", "open", "ended", "endedEarly", "overtaken"}]
      /\ \A c \in DataPublishers \ {d} : dataLoop'[c] = dataLoop[c]
  BY DEF IInv, LoopTypes, OnDataChannel, Announce, DataChannelCloses
<1>4. RouterOf[d] \in Routers /\ DataPublished(d) \in RouterEvents(RouterOf[d])
      /\ DataRemoved(d) \in RouterEvents(RouterOf[d])
  BY Homes
<1>5. CASE OnDataChannel(d)
  <2>1. UNCHANGED <<routerQueue, publishers, dataPublishers>> /\ dataLoop[d] = "none"
        /\ dataLoop'[d] = "created"
    BY <1>5 DEF OnDataChannel, routerVars, IInv, LoopTypes
  <2>2. RouterTypes'
    BY <1>1, <2>1 DEF IInv, RouterTypes
  <2>3. RouterSide'
    BY <1>1, <1>2, <1>3, <2>1, RouterSideStays
  <2> QED BY <1>1, <1>2, <1>3, <2>2, <2>3, PublishersStay
<1>6. ASSUME NEW e \in RouterEvents(RouterOf[d]), routerQueue' = Sent(RouterOf[d], e),
             \A p \in Publishers : e # MediaPublished(p) /\ e # PublisherRemoved(p),
             \A c \in DataPublishers : e = DataPublished(c) => dataLoop'[c] # "ended",
             dataLoop'[d] = "ended" => e = DataRemoved(d)
      PROVE  IInv'
  <2>1. RouterTypes'
    BY <1>1, <1>2, <1>4, <1>6, SendTypes
  <2>2. /\ \A c \in At(DataPublishers, RouterOf[d]) :
             dataLoop'[c] = "ended" => (dataLoop[c] = "ended" \/ e = DataRemoved(c))
        /\ \A u \in Routers \ {RouterOf[d]} : \A c \in At(DataPublishers, u) : dataLoop'[c] = dataLoop[c]
    BY <1>3, <1>6 DEF At
  <2>3. RouterSide'
    BY <1>1, <1>2, <1>4, <1>6, <2>2, SendInv
  <2> QED BY <1>1, <1>2, <1>3, <2>1, <2>3, PublishersStay
<1>7. CASE Announce(d)
  <2>1. routerQueue' = Sent(RouterOf[d], DataPublished(d)) /\ dataLoop'[d] # "ended"
    BY <1>7 DEF Announce, IInv, LoopTypes
  <2>2. /\ \A p \in Publishers : /\ DataPublished(d) # MediaPublished(p)
                               /\ DataPublished(d) # PublisherRemoved(p)
        /\ \A c \in DataPublishers : DataPublished(d) = DataPublished(c) => d = c
    BY EventFields
  <2> QED BY <1>4, <1>6, <2>1, <2>2
<1>8. CASE DataChannelCloses(d)
  <2>1. routerQueue' = Sent(RouterOf[d], DataRemoved(d))
    BY <1>8 DEF DataChannelCloses
  <2>2. /\ \A p \in Publishers : DataRemoved(d) # MediaPublished(p) /\ DataRemoved(d) # PublisherRemoved(p)
        /\ \A c \in DataPublishers : DataRemoved(d) # DataPublished(c)
    BY EventFields
  <2> QED BY <1>4, <1>6, <2>1, <2>2
<1> QED BY <1>5, <1>7, <1>8

\* find_local_track asks, and takes the track of what it found.
LEMMA LookupInv ==
  ASSUME IInv, NEW q \in Lookups, GetLocalTrack(q) \/ \E id \in Ids : Ask(q, id)
  PROVE  IInv'
<1>1. UNCHANGED <<workerVars, routerLoop, publishers, dataPublishers, publisherVars, relayVars, dataLoop>>
  BY DEF GetLocalTrack, Ask, routerVars
<1>2. /\ lookup' \in [Lookups -> [state : States, pub : Publishers \cup {Nobody}]]
      /\ \A c \in Lookups : lookup'[c].pub = lookup[c].pub
  <2>1. PICK v \in States : lookup' = [lookup EXCEPT ![q].state = v]
    BY DEF GetLocalTrack, Ask, States
  <2> QED BY <2>1 DEF IInv, RouterTypes
<1>3. /\ UNCHANGED <<published, loop>>
      /\ published \subseteq Publishers
      /\ routerLoop' \in [Routers -> {"none", "running", "closing", "done"}]
      /\ dataLoop' \in [DataPublishers ->
           {"none", "created", "open", "ended", "endedEarly", "overtaken"}]
      /\ \A c \in Lookups : lookup'[c].pub # Nobody => lookup'[c].pub \in published
  BY <1>1, <1>2 DEF IInv, LoopTypes, RouterTypes, FoundArePublished, publisherVars, relayVars
<1>4. CASE GetLocalTrack(q)
  <2>1. routerQueue' = routerQueue
    BY <1>4 DEF GetLocalTrack, routerVars
  <2>2. RouterTypes'
    BY <1>1, <1>2, <2>1 DEF IInv, RouterTypes
  <2>3. RouterSide'
    BY <1>1, <1>3, <2>1, RouterSideStays
  <2> QED BY <1>1, <1>3, <2>2, <2>3, PublishersStay
<1>5. ASSUME NEW id \in Ids, Ask(q, id) PROVE IInv'
  <2> DEFINE e == GetPublisher(q, id)
  <2>1. routerQueue' = Sent(RouterOf[q], e)
    BY <1>5 DEF Ask
  <2>2. RouterOf[q] \in Routers /\ e \in RouterEvents(RouterOf[q])
    BY Homes
  <2>3. /\ \A p \in Publishers : e # MediaPublished(p) /\ e # PublisherRemoved(p)
        /\ \A c \in DataPublishers : e # DataPublished(c)
    BY EventFields
  <2> HIDE DEF e
  <2>4. RouterTypes'
    BY <1>1, <1>2, <1>3, <2>1, <2>2, SendTypes
  <2>5. \A u \in Routers : \A c \in At(DataPublishers, u) : dataLoop'[c] = dataLoop[c]
    BY <1>1
  <2>6. RouterSide'
    BY <1>1, <1>3, <2>1, <2>2, <2>3, <2>5, SendInv
  <2> QED BY <1>1, <1>3, <2>4, <2>6, PublishersStay
<1> QED BY <1>4, <1>5

\* The application closes a router.
LEMMA CloseRouterInv ==
  ASSUME IInv, NEW r \in Routers, CloseRouter(r)
  PROVE  IInv'
<1> DEFINE e == Closed
<1>1. /\ UNCHANGED <<workerVars, publishers, dataPublishers, publisherVars, relayVars, dataLoop, lookup>>
      /\ routerQueue' = Sent(r, e)
      /\ routerLoop[r] = "running" /\ routerLoop' = [routerLoop EXCEPT ![r] = "closing"]
  BY DEF CloseRouter
<1>2. /\ routerLoop' \in [Routers -> {"none", "running", "closing", "done"}]
      /\ \A u \in Routers : routerLoop'[u] = "done" <=> routerLoop[u] = "done"
      /\ lookup' \in [Lookups -> [state : States, pub : Publishers \cup {Nobody}]]
  BY <1>1 DEF IInv, RouterTypes
<1>3. /\ UNCHANGED <<published, loop>>
      /\ published \subseteq Publishers
      /\ dataLoop' \in [DataPublishers ->
           {"none", "created", "open", "ended", "endedEarly", "overtaken"}]
      /\ \A c \in Lookups : lookup'[c].pub # Nobody => lookup'[c].pub \in published
  BY <1>1 DEF IInv, LoopTypes, FoundArePublished, publisherVars, relayVars
<1>4. /\ e \in RouterEvents(r)
      /\ \A p \in Publishers : e # MediaPublished(p) /\ e # PublisherRemoved(p)
      /\ \A c \in DataPublishers : e # DataPublished(c)
  BY Homes, EventFields
<1> HIDE DEF e
<1>5. RouterTypes'
  BY <1>1, <1>2, <1>4, SendTypes
<1>6. \A u \in Routers : \A c \in At(DataPublishers, u) : dataLoop'[c] = dataLoop[c]
  BY <1>1
<1>7. RouterSide'
  BY <1>1, <1>2, <1>3, <1>4, <1>6, SendInv
<1> QED BY <1>1, <1>3, <1>5, <1>7, PublishersStay

-----------------------------------------------------------------------------
(* The router's loop *)

\* The event a router handles, and the queue it leaves.
LEMMA RouterHead ==
  ASSUME IInv, NEW r \in Routers, NEW type, Next2(r, type)
  PROVE  /\ routerLoop[r] # "done" /\ routerQueue[r] # << >>
         /\ Head(routerQueue[r]).type = type /\ Head(routerQueue[r]) \in RouterEvents(r)
         /\ In(routerQueue[r], Head(routerQueue[r]))
         /\ Handled(r) => /\ DOMAIN routerQueue' = Routers
                          /\ \A u \in Routers : routerQueue'[u] \in Seq(RouterEvents(u))
<1>1. /\ routerLoop[r] # "done" /\ routerQueue[r] # << >> /\ Head(routerQueue[r]).type = type
      /\ DOMAIN routerQueue = Routers /\ \A u \in Routers : routerQueue[u] \in Seq(RouterEvents(u))
  BY DEF Next2, IInv, RouterTypes
<1>2. /\ Head(routerQueue[r]) \in RouterEvents(r) /\ Tail(routerQueue[r]) \in Seq(RouterEvents(r))
      /\ \A f : In(routerQueue[r], f) <=> In(Tail(routerQueue[r]), f) \/ f = Head(routerQueue[r])
  BY <1>1, TailFacts
<1>3. Handled(r) => /\ DOMAIN routerQueue' = Routers
                    /\ \A u \in Routers : routerQueue'[u] \in Seq(RouterEvents(u))
  BY <1>1, <1>2 DEF Handled
<1> QED BY <1>1, <1>2, <1>3

\* What an event of each kind is about.
LEMMA RouterHeadKind ==
  ASSUME IInv, NEW r \in Routers, NEW type, Next2(r, type)
  PROVE  LET e == Head(routerQueue[r]) IN
         /\ type = "MediaPublished" =>
              \E p \in Publishers : RouterOf[p] = r /\ e = MediaPublished(p) /\ e.pub = p
         /\ type = "PublisherRemoved" =>
              \E p \in Publishers : e = PublisherRemoved(p) /\ e.id = IdOf[p]
         /\ type = "DataPublished" => \E d \in DataPublishers : e = DataPublished(d) /\ e.pub = d
         /\ type = "DataRemoved" => \E d \in DataPublishers : e = DataRemoved(d) /\ e.pub = d
         /\ type = "GetPublisher" =>
              \E q \in Lookups, id \in Ids : e = GetPublisher(q, id) /\ e.lookup = q /\ e.id = id
<1> DEFINE e == Head(routerQueue[r])
<1>1. e \in RouterEvents(r) /\ e.type = type
  BY RouterHead
<1> HIDE DEF e
<1>2. \/ \E p \in Publishers : RouterOf[p] = r /\ e = MediaPublished(p)
      \/ \E p \in Publishers : RouterOf[p] = r /\ e = PublisherRemoved(p)
      \/ \E d \in At(DataPublishers, r) : e = DataPublished(d)
      \/ \E d \in At(DataPublishers, r) : e = DataRemoved(d)
      \/ \E q \in Lookups, id \in Ids : e = GetPublisher(q, id)
      \/ e = Closed
  BY <1>1, EventKinds
<1>3. type = "MediaPublished" =>
        \E p \in Publishers : RouterOf[p] = r /\ e = MediaPublished(p) /\ e.pub = p
  BY <1>1, <1>2, EventFields
<1>4. type = "PublisherRemoved" => \E p \in Publishers : e = PublisherRemoved(p) /\ e.id = IdOf[p]
  BY <1>1, <1>2, EventFields
<1>5. type = "DataPublished" => \E d \in DataPublishers : e = DataPublished(d) /\ e.pub = d
  BY <1>1, <1>2, EventFields DEF At
<1>6. type = "DataRemoved" => \E d \in DataPublishers : e = DataRemoved(d) /\ e.pub = d
  BY <1>1, <1>2, EventFields DEF At
<1>7. type = "GetPublisher" =>
        \E q \in Lookups, id \in Ids : e = GetPublisher(q, id) /\ e.lookup = q /\ e.id = id
  BY <1>1, <1>2, EventFields
<1> QED BY <1>3, <1>4, <1>5, <1>6, <1>7 DEF e

LEMMA MediaPublishedInv ==
  ASSUME IInv, NEW r \in Routers, HandleMediaPublished(r)
  PROVE  RouterTypes' /\ RouterSide'
<1> DEFINE e == Head(routerQueue[r])
<1>1. /\ Next2(r, "MediaPublished") /\ Handled(r)
      /\ publishers' = [publishers EXCEPT ![r] = Registered(@, e.pub)]
      /\ UNCHANGED <<routerLoop, dataPublishers, publisherVars, relayVars, dataLoop, lookup>>
  BY DEF HandleMediaPublished
<1>2. PICK p \in Publishers : e = MediaPublished(p) /\ e.pub = p
  BY <1>1, RouterHeadKind
<1>3. /\ routerLoop[r] # "done" /\ routerQueue[r] # << >>
      /\ DOMAIN routerQueue' = Routers
      /\ \A u \in Routers : routerQueue'[u] \in Seq(RouterEvents(u))
  BY <1>1, RouterHead
<1>4. DOMAIN publishers = Routers /\ \A u \in Routers : \A x \in publishers[u] : x[2] \in Publishers
  BY DEF IInv, RouterTypes
<1> DEFINE n == Newest(publishers[r]) + 1
<1>5. /\ publishers'[r] = publishers[r] \cup {<<n, p>>}
      /\ DOMAIN publishers' = Routers
      /\ \A u \in Routers \ {r} : publishers'[u] = publishers[u]
  BY <1>1, <1>2, <1>4 DEF Registered
<1>6. e = Head(routerQueue[r])
  OBVIOUS
<1> HIDE DEF e, n
<1>7. RouterTypes'
  <2>1. \A u \in Routers : \A x \in publishers'[u] : x[2] \in Publishers
    BY <1>4, <1>5
  <2> QED BY <1>1, <1>3, <1>5, <2>1 DEF IInv, RouterTypes
<1>8. /\ \A q \in Publishers : e = MediaPublished(q) <=> q = p
      /\ \A q \in Publishers : e # PublisherRemoved(q)
      /\ \A d \in DataPublishers : e # DataPublished(d) /\ e # DataRemoved(d)
  BY <1>2, EventFields
<1>9. \A q \in Publishers : q \in Listed(r)' <=>
        /\ q \in Listed(r) \/ e = MediaPublished(q)
        /\ ~\E t \in Publishers : e = PublisherRemoved(t) /\ IdOf[t] = IdOf[q]
  <2>1. {x[2] : x \in publishers'[r]} = {x[2] : x \in publishers[r]} \cup {p}
    <3>1. <<n, p>>[2] = p
      OBVIOUS
    <3> QED BY <1>5, <3>1, Zenon
  <2>2. Listed(r)' = Listed(r) \cup {p}
    BY <2>1 DEF Listed
  <2> QED BY <1>8, <2>2, Zenon
<1>10. (\A q \in Publishers : e = MediaPublished(q) => q \notin Listed(r)) =>
         \A x, y \in publishers'[r] : x[2] = y[2] => x = y
  <2> SUFFICES ASSUME p \notin Listed(r), NEW x \in publishers'[r], NEW y \in publishers'[r],
                      x[2] = y[2]
               PROVE  x = y
    BY <1>8
  <2>1. \A z \in publishers[r] : z[2] # p
    BY DEF Listed
  <2>2. \A v, z \in publishers[r] : v[2] = z[2] => v = z
    BY <1>2 DEF IInv, RouterSide, AnnouncedOnce
  <2> QED BY <1>5, <2>1, <2>2
<1>11. UNCHANGED <<routerLoop, published, loop, dataLoop, dataPublishers>>
  BY <1>1 DEF publisherVars, relayVars
<1>12. RouterSide'
  BY <1>1, <1>3, <1>5, <1>6, <1>8, <1>9, <1>10, <1>11, HandledInv
<1> QED BY <1>7, <1>12

LEMMA PublisherRemovedInv ==
  ASSUME IInv, NEW r \in Routers, HandlePublisherRemoved(r)
  PROVE  RouterTypes' /\ RouterSide'
<1> DEFINE e == Head(routerQueue[r])
<1>1. /\ Next2(r, "PublisherRemoved") /\ Handled(r)
      /\ publishers' = [publishers EXCEPT ![r] = Retained(@, e.id)]
      /\ UNCHANGED <<routerLoop, dataPublishers, publisherVars, relayVars, dataLoop, lookup>>
  BY DEF HandlePublisherRemoved
<1>2. PICK p \in Publishers : e = PublisherRemoved(p) /\ e.id = IdOf[p]
  BY <1>1, RouterHeadKind
<1>3. /\ routerLoop[r] # "done" /\ routerQueue[r] # << >>
      /\ DOMAIN routerQueue' = Routers
      /\ \A u \in Routers : routerQueue'[u] \in Seq(RouterEvents(u))
  BY <1>1, RouterHead
<1>4. DOMAIN publishers = Routers /\ \A u \in Routers : \A x \in publishers[u] : x[2] \in Publishers
  BY DEF IInv, RouterTypes
<1>5. /\ publishers'[r] = {x \in publishers[r] : IdOf[x[2]] # IdOf[p]}
      /\ DOMAIN publishers' = Routers
      /\ \A u \in Routers \ {r} : publishers'[u] = publishers[u]
  BY <1>1, <1>2, <1>4 DEF Retained
<1>6. e = Head(routerQueue[r])
  OBVIOUS
<1> HIDE DEF e
<1>7. RouterTypes'
  <2>1. \A u \in Routers : \A x \in publishers'[u] : x[2] \in Publishers
    BY <1>4, <1>5
  <2> QED BY <1>1, <1>3, <1>5, <2>1 DEF IInv, RouterTypes
<1>8. /\ \A q \in Publishers : e # MediaPublished(q)
      /\ \A q \in Publishers : e = PublisherRemoved(q) => IdOf[q] = IdOf[p]
      /\ \A d \in DataPublishers : e # DataPublished(d) /\ e # DataRemoved(d)
  BY <1>2, EventFields
<1>9. \A q \in Publishers : q \in Listed(r)' <=>
        /\ q \in Listed(r) \/ e = MediaPublished(q)
        /\ ~\E t \in Publishers : e = PublisherRemoved(t) /\ IdOf[t] = IdOf[q]
  <2>1. \A q \in Publishers : q \in Listed(r)' <=> q \in Listed(r) /\ IdOf[q] # IdOf[p]
    BY <1>5 DEF Listed
  <2> QED BY <1>2, <1>8, <2>1
<1>10. \A x, y \in publishers'[r] : x[2] = y[2] => x = y
  <2>1. \A v, z \in publishers[r] : v[2] = z[2] => v = z
    BY <1>2 DEF IInv, RouterSide, AnnouncedOnce
  <2> QED BY <1>5, <2>1
<1>11. UNCHANGED <<routerLoop, published, loop, dataLoop, dataPublishers>>
  BY <1>1 DEF publisherVars, relayVars
<1>12. RouterSide'
  BY <1>1, <1>3, <1>5, <1>6, <1>8, <1>9, <1>10, <1>11, HandledInv
<1> QED BY <1>7, <1>12

LEMMA DataHandledInv ==
  ASSUME IInv, NEW r \in Routers, HandleDataPublished(r) \/ HandleDataRemoved(r)
  PROVE  RouterTypes' /\ RouterSide'
<1> DEFINE e == Head(routerQueue[r])
<1>1. PICK type \in {"DataPublished", "DataRemoved"} : Next2(r, type)
  BY DEF HandleDataPublished, HandleDataRemoved
<1>2. Handled(r) /\ UNCHANGED <<routerLoop, publishers, publisherVars, relayVars, dataLoop, lookup>>
  BY DEF HandleDataPublished, HandleDataRemoved
<1>3. /\ routerLoop[r] # "done" /\ routerQueue[r] # << >>
      /\ DOMAIN routerQueue' = Routers
      /\ \A u \in Routers : routerQueue'[u] \in Seq(RouterEvents(u))
  BY <1>1, <1>2, RouterHead
<1>4. dataPublishers \in [Routers -> SUBSET DataPublishers]
  BY DEF IInv, RouterTypes
<1>5. /\ dataPublishers' \in [Routers -> SUBSET DataPublishers]
      /\ \A u \in Routers \ {r} : dataPublishers'[u] = dataPublishers[u]
      /\ \A p \in Publishers : e # MediaPublished(p) /\ e # PublisherRemoved(p)
      /\ \A d \in DataPublishers :
           /\ d \in dataPublishers'[r] => d \in dataPublishers[r] \/ e = DataPublished(d)
           /\ e = DataRemoved(d) => d \notin dataPublishers'[r]
  <2>1. CASE HandleDataPublished(r)
    <3>1. /\ Next2(r, "DataPublished")
          /\ dataPublishers' = [dataPublishers EXCEPT ![r] = @ \cup {e.pub}]
      BY <2>1 DEF HandleDataPublished
    <3>2. PICK d \in DataPublishers : e = DataPublished(d) /\ e.pub = d
      BY <3>1, RouterHeadKind
    <3> HIDE DEF e
    <3>3. /\ \A p \in Publishers : e # MediaPublished(p) /\ e # PublisherRemoved(p)
          /\ \A c \in DataPublishers : e # DataRemoved(c)
      BY <3>2, EventFields
    <3>4. dataPublishers'[r] = dataPublishers[r] \cup {d}
      BY <1>4, <3>1, <3>2
    <3> QED BY <1>4, <3>1, <3>2, <3>3, <3>4
  <2>2. CASE HandleDataRemoved(r)
    <3>1. /\ Next2(r, "DataRemoved")
          /\ dataPublishers' = [dataPublishers EXCEPT ![r] = dataPublishers[r] \ {e.pub}]
      BY <2>2 DEF HandleDataRemoved, WithoutData
    <3>2. PICK d \in DataPublishers : e = DataRemoved(d) /\ e.pub = d
      BY <3>1, RouterHeadKind
    <3> HIDE DEF e
    <3>3. /\ \A p \in Publishers : e # MediaPublished(p) /\ e # PublisherRemoved(p)
          /\ \A c \in DataPublishers : e = DataRemoved(c) => c = d
      BY <3>2, EventFields
    <3>4. dataPublishers'[r] = dataPublishers[r] \ {d}
      BY <1>4, <3>1, <3>2
    <3> QED BY <1>4, <3>1, <3>3, <3>4
  <2> QED BY <2>1, <2>2
<1>6. RouterTypes'
  BY <1>2, <1>3, <1>5 DEF IInv, RouterTypes
<1>7. UNCHANGED <<routerLoop, published, loop, dataLoop, publishers>> /\ Listed(r)' = Listed(r)
      /\ e = Head(routerQueue[r])
  BY <1>2 DEF publisherVars, relayVars, Listed
<1> HIDE DEF e
<1>8. \A x, y \in publishers'[r] : x[2] = y[2] => x = y
  <2>1. \A p \in Publishers : \A x, y \in publishers[r] : x[2] = y[2] => x = y
    BY DEF IInv, RouterSide, AnnouncedOnce
  <2>2. \A x \in publishers[r] : x[2] \in Publishers
    BY DEF IInv, RouterTypes
  <2> QED BY <1>7, <2>1, <2>2
<1>9. RouterSide'
  BY <1>2, <1>3, <1>5, <1>7, <1>8, HandledInv
<1> QED BY <1>6, <1>9

\* The reply to a lookup is a publisher of the list, if any.
LEMMA GetPublisherInv ==
  ASSUME IInv, NEW r \in Routers, HandleGetPublisher(r)
  PROVE  /\ RouterTypes' /\ RouterSide'
         /\ \A q \in Lookups : lookup'[q].pub # Nobody => lookup'[q].pub \in published
<1> DEFINE e == Head(routerQueue[r])
           found == {x \in publishers[r] : IdOf[x[2]] = e.id}
<1>1. /\ Next2(r, "GetPublisher") /\ Handled(r)
      /\ \E reply \in Reply(e.lookup, found) : lookup' = [lookup EXCEPT ![e.lookup] = reply]
      /\ UNCHANGED <<routerLoop, publishers, dataPublishers, publisherVars, relayVars, dataLoop>>
  BY DEF HandleGetPublisher
<1>2. PICK c \in Lookups, id \in Ids : e = GetPublisher(c, id) /\ e.lookup = c /\ e.id = id
  BY <1>1, RouterHeadKind
<1>3. /\ routerLoop[r] # "done" /\ routerQueue[r] # << >>
      /\ DOMAIN routerQueue' = Routers
      /\ \A u \in Routers : routerQueue'[u] \in Seq(RouterEvents(u))
  BY <1>1, RouterHead
<1>4. /\ \A x \in publishers[r] : x[2] \in Publishers /\ x[2] \in published
      /\ lookup \in [Lookups -> [state : States, pub : Publishers \cup {Nobody}]]
  BY DEF IInv, RouterTypes, RouterSide, AnnouncedOnce, Listed
<1>5. PICK reply \in Reply(e.lookup, found) : lookup' = [lookup EXCEPT ![c] = reply]
  BY <1>1, <1>2
<1>6. /\ reply \in [state : States, pub : Publishers \cup {Nobody}]
      /\ reply.pub # Nobody => reply.pub \in published
  <2>1. \/ reply = [state |-> "unknown", pub |-> Nobody]
        \/ \E x \in publishers[r] : reply = [state |-> "found", pub |-> x[2]]
    BY <1>5 DEF Reply, Found, First
  <2> QED BY <1>4, <2>1 DEF States
<1>7. /\ lookup' \in [Lookups -> [state : States, pub : Publishers \cup {Nobody}]]
      /\ \A q \in Lookups : lookup'[q].pub # Nobody => lookup'[q].pub \in published
  BY <1>4, <1>5, <1>6 DEF IInv, FoundArePublished
<1>8. RouterTypes'
  BY <1>1, <1>3, <1>7 DEF IInv, RouterTypes
<1>9. /\ UNCHANGED <<routerLoop, published, loop, dataLoop, publishers, dataPublishers>>
      /\ Listed(r)' = Listed(r) /\ e = Head(routerQueue[r])
      /\ \A p \in Publishers : e # MediaPublished(p) /\ e # PublisherRemoved(p)
      /\ \A d \in DataPublishers : e # DataRemoved(d)
  BY <1>1, <1>2, EventFields DEF publisherVars, relayVars, Listed
<1> HIDE DEF e
<1>10. \A p \in Publishers : \A x, y \in publishers[r] : x[2] = y[2] => x = y
  BY DEF IInv, RouterSide, AnnouncedOnce
<1>11. \A x, y \in publishers'[r] : x[2] = y[2] => x = y
  BY <1>4, <1>9, <1>10
<1>12. RouterSide'
  BY <1>1, <1>3, <1>9, <1>11, HandledInv
<1> QED BY <1>7, <1>8, <1>12

\* The router's loop returns and drops its queue.
LEMMA ClosedInv ==
  ASSUME IInv, NEW r \in Routers, HandleClosed(r)
  PROVE  IInv'
<1>1. /\ workerQueue' = Append(workerQueue, r)
      /\ routerLoop' = [routerLoop EXCEPT ![r] = "done"]
      /\ routerQueue' = [routerQueue EXCEPT ![r] = << >>]
      /\ UNCHANGED <<routers, stopped, publishers, dataPublishers, publisherVars, relayVars, dataLoop>>
  BY DEF HandleClosed, Farewell
<1>2. /\ lookup' \in [Lookups -> [state : States, pub : Publishers \cup {Nobody}]]
      /\ \A q \in Lookups : lookup'[q].pub = lookup[q].pub \/ lookup'[q].pub = Nobody
  <2>1. lookup' = [q \in Lookups |-> IF q \in Unanswered(r)
                                    THEN [state |-> "panicked", pub |-> Nobody] ELSE lookup[q]]
    BY DEF HandleClosed
  <2> QED BY <2>1 DEF IInv, RouterTypes, States
<1>3. LoopTypes'
  <2>1. workerQueue' \in Seq(Routers)
    BY <1>1 DEF IInv, LoopTypes
  <2> QED BY <1>1, <2>1 DEF IInv, LoopTypes, publisherVars, relayVars
<1>4. /\ routerLoop'[r] = "done" /\ routerQueue'[r] = << >>
      /\ \A u \in Routers \ {r} : routerLoop'[u] = routerLoop[u] /\ routerQueue'[u] = routerQueue[u]
      /\ UNCHANGED <<publishers, dataPublishers, published, loop, dataLoop>>
      /\ \A u \in Routers : Listed(u)' = Listed(u)
  BY <1>1 DEF IInv, RouterTypes, publisherVars, relayVars, Listed
<1>5. RouterTypes'
  <2>1. \A S : << >> \in Seq(S)
    OBVIOUS
  <2>2. \A u \in Routers : routerQueue'[u] \in Seq(RouterEvents(u))
    BY <1>4, <2>1 DEF IInv, RouterTypes
  <2> QED BY <1>1, <1>2, <2>2 DEF IInv, RouterTypes
<1>6. /\ \A f : ~In(<< >>, f) /\ OnceIn(<< >>, f)
      /\ \A u \in Routers : \A f : In(routerQueue'[u], f) => In(routerQueue[u], f)
  <2>1. Len(<< >>) = 0 /\ \A f : ~In(<< >>, f) /\ OnceIn(<< >>, f)
    BY DEF In, OnceIn
  <2>2. ASSUME NEW u \in Routers, NEW f, In(routerQueue'[u], f) PROVE In(routerQueue[u], f)
    <3>1. u # r => routerQueue'[u] = routerQueue[u]
      BY <1>4
    <3> QED BY <1>4, <2>1, <2>2, <3>1, Zenon
  <2> QED BY <2>1, <2>2
<1>7. AnnouncedOnce'
  <2> SUFFICES ASSUME NEW u \in Routers, NEW p \in Publishers
               PROVE  /\ In(routerQueue'[u], MediaPublished(p)) \/ p \in Listed(u) =>
                           p \in published /\ RouterOf[p] = u
                      /\ OnceIn(routerQueue'[u], MediaPublished(p))
                      /\ In(routerQueue'[u], MediaPublished(p)) => p \notin Listed(u)
                      /\ \A x, y \in publishers[u] : x[2] = y[2] => x = y
    BY <1>4 DEF AnnouncedOnce
  <2>1. /\ In(routerQueue[u], MediaPublished(p)) \/ p \in Listed(u) => p \in published /\ RouterOf[p] = u
        /\ OnceIn(routerQueue[u], MediaPublished(p))
        /\ In(routerQueue[u], MediaPublished(p)) => p \notin Listed(u)
        /\ \A x, y \in publishers[u] : x[2] = y[2] => x = y
    BY DEF IInv, RouterSide, AnnouncedOnce
  <2>2. OnceIn(routerQueue'[u], MediaPublished(p))
    <3>1. u # r => routerQueue'[u] = routerQueue[u]
      BY <1>4
    <3> QED BY <1>4, <1>6, <2>1, <3>1, Zenon
  <2> QED BY <1>6, <2>1, <2>2
<1>8. GhostsGo'
  <2> SUFFICES ASSUME NEW u \in Routers, routerLoop'[u] # "done"
               PROVE  /\ \A p \in Publishers :
                           /\ loop[p] = "done"
                           /\ In(routerQueue'[u], MediaPublished(p)) \/ p \in Listed(u)
                           => Follows(routerQueue'[u], PublisherRemoved(p), MediaPublished(p))
                      /\ \A d \in At(DataPublishers, u) :
                           /\ dataLoop[d] = "ended"
                           /\ In(routerQueue'[u], DataPublished(d)) \/ d \in dataPublishers[u]
                           => Follows(routerQueue'[u], DataRemoved(d), DataPublished(d))
    BY <1>4 DEF GhostsGo, At
  <2>1. routerQueue'[u] = routerQueue[u] /\ routerLoop[u] # "done"
    BY <1>4
  <2> QED BY <2>1 DEF IInv, RouterSide, GhostsGo
<1>9. RemovedAreDone'
  BY <1>4, <1>6 DEF IInv, RouterSide, RemovedAreDone
<1>10. LiveAreListed'
  <2> SUFFICES ASSUME DistinctIds, NEW p \in published, NEW u \in Routers, loop[p] = "running",
                      u = RouterOf[p], routerLoop'[u] # "done"
               PROVE  p \in Listed(u) \/ In(routerQueue'[u], MediaPublished(p))
    BY <1>4 DEF LiveAreListed, DistinctIds
  <2>1. routerQueue'[u] = routerQueue[u] /\ routerLoop[u] # "done"
    BY <1>4
  <2> QED BY <2>1 DEF IInv, RouterSide, LiveAreListed
<1>11. TracksOK' /\ FoundArePublished'
  BY <1>1, <1>2 DEF IInv, TracksOK, FoundArePublished, publisherVars, relayVars
<1> QED BY <1>3, <1>5, <1>7, <1>8, <1>9, <1>10, <1>11 DEF IInv, RouterSide

\* Every step keeps the invariant.
LEMMA StepInv == IInv /\ [Next]_vars => IInv'
<1> SUFFICES ASSUME IInv, [Next]_vars PROVE IInv'
  OBVIOUS
<1>1. ASSUME NEW r \in Routers, NewRouter(r) \/ CloseRouter(r) \/ RouterHandles(r)
      PROVE  IInv'
  <2>1. CASE HandleMediaPublished(r) \/ HandlePublisherRemoved(r) \/ HandleDataPublished(r)
             \/ HandleDataRemoved(r)
    <3>1. UNCHANGED <<workerVars, publisherVars, relayVars, dataLoop, lookup>>
      BY <2>1 DEF HandleMediaPublished, HandlePublisherRemoved, HandleDataPublished, HandleDataRemoved
    <3>2. RouterTypes' /\ RouterSide'
      BY <2>1, MediaPublishedInv, PublisherRemovedInv, DataHandledInv
    <3>3. dataLoop' \in [DataPublishers ->
             {"none", "created", "open", "ended", "endedEarly", "overtaken"}]
      BY <3>1 DEF IInv, LoopTypes
    <3>4. \A q \in Lookups : lookup'[q].pub # Nobody => lookup'[q].pub \in published
      BY <3>1 DEF IInv, FoundArePublished
    <3> QED BY <3>1, <3>2, <3>3, <3>4, PublishersStay
  <2>2. CASE HandleGetPublisher(r)
    <3>1. UNCHANGED <<workerVars, publisherVars, relayVars, dataLoop>>
      BY <2>2 DEF HandleGetPublisher
    <3>2. dataLoop' \in [DataPublishers ->
             {"none", "created", "open", "ended", "endedEarly", "overtaken"}]
      BY <3>1 DEF IInv, LoopTypes
    <3> QED BY <2>2, <3>1, <3>2, GetPublisherInv, PublishersStay
  <2> QED BY <1>1, <2>1, <2>2, WorkerInv, CloseRouterInv, ClosedInv DEF RouterHandles
<1>2. ASSUME NEW p \in Publishers,
             \/ OnTrack(p) \/ TrackEnds(p) \/ ClosePublisher(p) \/ PublisherHandles(p) \/ Leave(p)
             \/ \E s \in Ssrcs : TrackOpens(p, s)
      PROVE  IInv'
  BY <1>2, PollInv, TrackOpenedInv, TrackAddedInv, CloseInv, LeaveInv DEF PublisherHandles
<1>3. CASE UNCHANGED vars
  <2>1. /\ UNCHANGED <<workerVars, routerVars, publisherVars, relayVars, dataLoop, lookup>>
    BY <1>3 DEF vars
  <2>2. /\ RouterTypes'
        /\ dataLoop' \in [DataPublishers ->
             {"none", "created", "open", "ended", "endedEarly", "overtaken"}]
        /\ \A q \in Lookups : lookup'[q].pub # Nobody => lookup'[q].pub \in published
    BY <2>1 DEF IInv, LoopTypes, RouterTypes, FoundArePublished, routerVars
  <2>3. RouterSide'
    BY <2>1, RouterSideStays DEF routerVars, publisherVars, relayVars
  <2> QED BY <2>1, <2>2, <2>3, PublishersStay
<1> QED BY <1>1, <1>2, <1>3, WorkerInv, DataInv, LookupInv, RelayInv DEF Next

-----------------------------------------------------------------------------
\* The invariant holds in every state the system reaches.
THEOREM Inductive == Spec => []IInv
BY InitInv, StepInv, PTL DEF Spec

\* The types: in particular, a router lists a publisher once, however many tracks it has.
THEOREM TypeCorrect == Spec => []TypeOK
<1>1. IInv => TypeOK
  <2> SUFFICES ASSUME IInv PROVE TypeOK
    OBVIOUS
  <2>1. \A r \in Routers : \A x, y \in publishers[r] : x[2] \in Publishers /\ (x[2] = y[2] => x = y)
    BY DEF IInv, RouterTypes, RouterSide, AnnouncedOnce
  <2>2. \A r \in Routers : /\ routerLoop[r] \in {"none", "running", "closing", "done"}
                         /\ dataPublishers[r] \subseteq DataPublishers
    BY DEF IInv, RouterTypes
  <2>3. \A q \in Lookups : lookup[q].pub \in Publishers \cup {Nobody}
    BY DEF IInv, RouterTypes
  <2> QED BY <2>1, <2>2, <2>3 DEF TypeOK, IInv, LoopTypes
<1> QED BY <1>1, Inductive, PTL

\* The events of a queue, as the properties speak of them.
LEMMA EventsAreIn ==
  ASSUME IInv, NEW r \in Routers
  PROVE  /\ \A f : f \in Events(r) <=> In(routerQueue[r], f)
         /\ \A f, g : Follows(routerQueue[r], f, g) <=> RemovalFollows(r, f, g)
<1>1. routerQueue[r] \in Seq(RouterEvents(r))
  BY DEF IInv, RouterTypes
<1>2. DOMAIN routerQueue[r] = 1 .. Len(routerQueue[r])
  BY <1>1
<1> QED BY <1>2, Zenon DEF Events, In, Follows, RemovalFollows

\* What has closed leaves the router's list: its removal is behind its announcement.
THEOREM NoGhostsRemain == Spec => []NoGhosts
<1>1. IInv => NoGhosts
  <2> SUFFICES ASSUME IInv PROVE NoGhosts
    OBVIOUS
  <2>1. ASSUME NEW r \in Routers, routerLoop[r] # "done", NEW p \in Publishers, loop[p] = "done",
               p \in Listed(r) \/ MediaPublished(p) \in Events(r)
        PROVE  RemovalFollows(r, PublisherRemoved(p), MediaPublished(p))
    BY <2>1, EventsAreIn DEF IInv, RouterSide, GhostsGo
  <2>2. ASSUME NEW r \in Routers, routerLoop[r] # "done", NEW d \in DataPublishers,
               dataLoop[d] = "ended", r = RouterOf[d],
               d \in dataPublishers[r] \/ DataPublished(d) \in Events(r)
        PROVE  RemovalFollows(r, DataRemoved(d), DataPublished(d))
    <3>1. d \in At(DataPublishers, r)
      BY <2>2 DEF At
    <3> QED BY <2>2, <3>1, EventsAreIn DEF IInv, RouterSide, GhostsGo
  <2> QED BY <2>1, <2>2 DEF NoGhosts
<1> QED BY <1>1, Inductive, PTL

\* A publisher that was announced and has not closed is in the router's list, or its
\* announcement is on the way.
LivePublisherListed ==
  \A p \in published : \A r \in Routers :
    loop[p] = "running" /\ r = RouterOf[p] /\ routerLoop[r] # "done"
      => p \in Listed(r) \/ MediaPublished(p) \in Events(r)

\* When no two publishers of a router share a track id, the list misses no live publisher.
THEOREM LivePublishersAreListed ==
  ASSUME DistinctIds
  PROVE  Spec => []LivePublisherListed
<1>1. IInv => LivePublisherListed
  <2> SUFFICES ASSUME IInv, NEW p \in published, NEW r \in Routers, loop[p] = "running",
                      r = RouterOf[p], routerLoop[r] # "done"
               PROVE  p \in Listed(r) \/ MediaPublished(p) \in Events(r)
    BY DEF LivePublisherListed
  <2>1. DistinctIds
    OBVIOUS
  <2> QED BY <2>1, EventsAreIn DEF IInv, RouterSide, LiveAreListed
<1> QED BY <1>1, Inductive, PTL

\* A publisher that is listed, or was found, has a track until it closes, and every
\* track of it a sender while the remote track is polled.
THEOREM ListedPublishersHaveTracks == Spec => []ListedHasTrack
<1>1. IInv => ListedHasTrack
  <2> SUFFICES ASSUME IInv, NEW p \in Publishers, loop[p] = "running",
                      p \in Listed(RouterOf[p]) \/ \E q \in Lookups : lookup[q].pub = p
               PROVE  localTracks[p] # {} /\ (p \in polling => inputs[p] = localTracks[p])
    BY DEF ListedHasTrack
  <2>1. p \in published
    <3>1. CASE p \in Listed(RouterOf[p])
      <4>1. RouterOf[p] \in Routers
        BY Homes
      <4> QED BY <3>1, <4>1 DEF IInv, RouterSide, AnnouncedOnce
    <3>2. CASE \E q \in Lookups : lookup[q].pub = p
      BY <3>2, RegistryAssumption DEF IInv, FoundArePublished
    <3> QED BY <3>1, <3>2
  <2> QED BY <2>1 DEF IInv, TracksOK
<1> QED BY <1>1, Inductive, PTL

-----------------------------------------------------------------------------
(* Directory: the requests that are queued *)

\* A lookup that has asked has one request in its router's queue, and nobody else has;
\* a router that has closed has no queue; what was found is a publisher.
RequestsOK ==
  /\ \A r \in Routers : routerLoop[r] = "done" => routerQueue[r] = << >>
  /\ \A r \in Routers, q \in Lookups, id \in Ids :
       In(routerQueue[r], GetPublisher(q, id)) =>
         /\ RouterOf[q] = r /\ lookup[q].state = "asked"
         /\ OnceIn(routerQueue[r], GetPublisher(q, id))
         /\ \A other \in Ids : In(routerQueue[r], GetPublisher(q, other)) => other = id
  /\ \A q \in Lookups :
       /\ lookup[q].state = "asked" =>
            \E id \in Ids : In(routerQueue[RouterOf[q]], GetPublisher(q, id))
       /\ lookup[q].state = "found" => lookup[q].pub \in Publishers

\* A publisher that has closed has no track.
TracksGone == \A p \in Publishers : loop[p] \in {"closing", "done"} => localTracks[p] = {}

DInv == RequestsOK /\ TracksGone

\* What a router's queue contains after an event was sent to it ...
LEMMA SentNews ==
  ASSUME IInv, NEW r \in Routers, NEW e \in RouterEvents(r), routerQueue' = Sent(r, e)
  PROVE  \A u \in Routers : \A f :
           /\ In(routerQueue'[u], f) <=>
                In(routerQueue[u], f) \/ (u = r /\ f = e /\ routerLoop[r] # "done")
           /\ OnceIn(routerQueue[u], f) /\ (f # e \/ ~In(routerQueue[u], e)) =>
                OnceIn(routerQueue'[u], f)
           /\ routerLoop[u] = "done" => routerQueue'[u] = routerQueue[u]
<1> SUFFICES ASSUME NEW u \in Routers
             PROVE  \A f :
                      /\ In(routerQueue'[u], f) <=>
                           In(routerQueue[u], f) \/ (u = r /\ f = e /\ routerLoop[r] # "done")
                      /\ OnceIn(routerQueue[u], f) /\ (f # e \/ ~In(routerQueue[u], e)) =>
                           OnceIn(routerQueue'[u], f)
                      /\ routerLoop[u] = "done" => routerQueue'[u] = routerQueue[u]
  OBVIOUS
<1>1. routerQueue[r] \in Seq(RouterEvents(r))
  BY DEF IInv, RouterTypes
<1>2. CASE u # r \/ routerLoop[r] = "done"
  <2>1. routerQueue'[u] = routerQueue[u]
    BY <1>2, SentTypes
  <2>2. ~(u = r /\ routerLoop[r] # "done")
    BY <1>2
  <2> QED BY <2>1, <2>2, Zenon
<1>3. CASE u = r /\ routerLoop[r] # "done"
  <2>1. routerQueue'[u] = Append(routerQueue[u], e)
    BY <1>3, SentTypes
  <2>2. /\ \A f : In(routerQueue'[u], f) <=> In(routerQueue[u], f) \/ f = e
        /\ \A f : OnceIn(routerQueue[u], f) /\ (f # e \/ ~In(routerQueue[u], e)) =>
                    OnceIn(routerQueue'[u], f)
    BY <1>1, <1>3, <2>1, AppendFacts
  <2> QED BY <1>3, <2>2, Zenon
<1> QED BY <1>2, <1>3

\* ... and after it has handled one.
LEMMA HandledNews ==
  ASSUME IInv, NEW r \in Routers, NEW type, Next2(r, type), Handled(r)
  PROVE  /\ \A u \in Routers \ {r} : routerQueue'[u] = routerQueue[u]
         /\ \A f : In(routerQueue[r], f) <=> In(routerQueue'[r], f) \/ f = Head(routerQueue[r])
         /\ \A f : OnceIn(routerQueue[r], f) =>
                     /\ OnceIn(routerQueue'[r], f)
                     /\ f = Head(routerQueue[r]) => ~In(routerQueue'[r], f)
<1>1. /\ routerQueue[r] # << >> /\ DOMAIN routerQueue = Routers
      /\ routerQueue[r] \in Seq(RouterEvents(r))
  BY DEF Next2, IInv, RouterTypes
<1>2. routerQueue'[r] = Tail(routerQueue[r]) /\ \A u \in Routers \ {r} : routerQueue'[u] = routerQueue[u]
  BY <1>1 DEF Handled
<1> QED BY <1>1, <1>2, TailFacts

\* Events that are no requests leave the requests as they are.
LEMMA RequestsStay ==
  ASSUME RequestsOK, UNCHANGED lookup,
         \A u \in Routers : routerLoop'[u] = "done" => routerQueue'[u] = << >>,
         \A u \in Routers, q \in Lookups, id \in Ids :
           /\ In(routerQueue'[u], GetPublisher(q, id)) <=> In(routerQueue[u], GetPublisher(q, id))
           /\ OnceIn(routerQueue[u], GetPublisher(q, id)) =>
                OnceIn(routerQueue'[u], GetPublisher(q, id))
  PROVE  RequestsOK'
<1>1. \A u \in Routers, q \in Lookups, id \in Ids :
        In(routerQueue'[u], GetPublisher(q, id)) =>
          /\ RouterOf[q] = u /\ lookup'[q].state = "asked"
          /\ OnceIn(routerQueue'[u], GetPublisher(q, id))
          /\ \A other \in Ids : In(routerQueue'[u], GetPublisher(q, other)) => other = id
  BY DEF RequestsOK
<1>2. \A q \in Lookups :
        /\ lookup'[q].state = "asked" =>
             \E id \in Ids : In(routerQueue'[RouterOf[q]], GetPublisher(q, id))
        /\ lookup'[q].state = "found" => lookup'[q].pub \in Publishers
  BY Homes DEF RequestsOK
<1> QED BY <1>1, <1>2 DEF RequestsOK, In, OnceIn

LEMMA SentRequests ==
  ASSUME IInv, RequestsOK, NEW r \in Routers, NEW e \in RouterEvents(r),
         routerQueue' = Sent(r, e), UNCHANGED lookup,
         \A q \in Lookups, id \in Ids : e # GetPublisher(q, id),
         \A u \in Routers : routerLoop'[u] = "done" => routerLoop[u] = "done"
  PROVE  RequestsOK'
<1>1. \A u \in Routers : routerLoop'[u] = "done" => routerQueue'[u] = << >>
  BY SentNews DEF RequestsOK
<1>2. \A u \in Routers, q \in Lookups, id \in Ids :
        /\ In(routerQueue'[u], GetPublisher(q, id)) <=> In(routerQueue[u], GetPublisher(q, id))
        /\ OnceIn(routerQueue[u], GetPublisher(q, id)) =>
             OnceIn(routerQueue'[u], GetPublisher(q, id))
  BY SentNews
<1> QED BY <1>1, <1>2, RequestsStay

LEMMA HandledRequests ==
  ASSUME IInv, RequestsOK, NEW r \in Routers, NEW type, Next2(r, type), Handled(r),
         type # "GetPublisher", UNCHANGED <<routerLoop, lookup>>
  PROVE  RequestsOK'
<1>1. routerLoop[r] # "done" /\ Head(routerQueue[r]).type = type
  BY RouterHead
<1>2. \A q \in Lookups, id \in Ids : Head(routerQueue[r]) # GetPublisher(q, id)
  BY <1>1, EventFields
<1>3. \A u \in Routers : routerLoop'[u] = "done" => routerQueue'[u] = << >>
  BY <1>1, HandledNews DEF RequestsOK
<1>4. \A u \in Routers, q \in Lookups, id \in Ids :
        /\ In(routerQueue'[u], GetPublisher(q, id)) <=> In(routerQueue[u], GetPublisher(q, id))
        /\ OnceIn(routerQueue[u], GetPublisher(q, id)) =>
             OnceIn(routerQueue'[u], GetPublisher(q, id))
  <2> SUFFICES ASSUME NEW u \in Routers, NEW q \in Lookups, NEW id \in Ids
               PROVE  /\ In(routerQueue'[u], GetPublisher(q, id)) <=>
                           In(routerQueue[u], GetPublisher(q, id))
                      /\ OnceIn(routerQueue[u], GetPublisher(q, id)) =>
                           OnceIn(routerQueue'[u], GetPublisher(q, id))
    OBVIOUS
  <2>1. CASE u = r
    BY <1>2, <2>1, HandledNews
  <2>2. CASE u # r
    <3>1. routerQueue'[u] = routerQueue[u]
      BY <2>2, HandledNews
    <3> QED BY <3>1
  <2> QED BY <2>1, <2>2
<1> QED BY <1>3, <1>4, RequestsStay

\* A lookup asks: its request is the only one of its own.
LEMMA AskRequests ==
  ASSUME IInv, RequestsOK, NEW q \in Lookups, NEW id \in Ids, Ask(q, id)
  PROVE  RequestsOK'
<1> DEFINE r == RouterOf[q]
           e == GetPublisher(q, id)
<1>1. /\ lookup[q].state = "idle" /\ routerQueue' = Sent(r, e) /\ UNCHANGED routerLoop
      /\ lookup' = [lookup EXCEPT ![q].state = IF routerLoop[r] = "done" THEN "panicked" ELSE "asked"]
  BY DEF Ask
<1>2. lookup \in [Lookups -> [state : States, pub : Publishers \cup {Nobody}]]
  BY DEF IInv, RouterTypes
<1>3. /\ \A c \in Lookups \ {q} : lookup'[c] = lookup[c]
      /\ lookup'[q].state = IF routerLoop[r] = "done" THEN "panicked" ELSE "asked"
  BY <1>1, <1>2
<1>4. /\ r \in Routers /\ e \in RouterEvents(r)
      /\ \A c \in Lookups, other \in Ids : GetPublisher(c, other) = e => c = q /\ other = id
      /\ \A c \in Lookups : RouterOf[c] \in Routers
  BY Homes, EventFields
<1>5. \A u \in Routers, other \in Ids : ~In(routerQueue[u], GetPublisher(q, other))
  BY <1>1 DEF RequestsOK
<1> HIDE DEF e, r
<1>6. \A u \in Routers : \A f :
        /\ In(routerQueue'[u], f) <=> In(routerQueue[u], f) \/ (u = r /\ f = e /\ routerLoop[r] # "done")
        /\ OnceIn(routerQueue[u], f) /\ (f # e \/ ~In(routerQueue[u], e)) => OnceIn(routerQueue'[u], f)
        /\ routerLoop[u] = "done" => routerQueue'[u] = routerQueue[u]
  BY <1>1, <1>4, SentNews
<1>7. \A u \in Routers : routerLoop'[u] = "done" => routerQueue'[u] = << >>
  BY <1>1, <1>6 DEF RequestsOK
<1>8. ASSUME NEW u \in Routers, NEW c \in Lookups, NEW a \in Ids, In(routerQueue'[u], GetPublisher(c, a))
      PROVE  /\ RouterOf[c] = u /\ lookup'[c].state = "asked"
             /\ OnceIn(routerQueue'[u], GetPublisher(c, a))
             /\ \A other \in Ids : In(routerQueue'[u], GetPublisher(c, other)) => other = a
  <2>1. CASE c = q
    <3>1. u = r /\ GetPublisher(c, a) = e /\ routerLoop[r] # "done"
      BY <1>5, <1>6, <1>8, <2>1
    <3>2. \A other \in Ids : In(routerQueue'[u], GetPublisher(c, other)) => other = a
      BY <1>4, <1>5, <1>6, <2>1, <3>1
    <3>3. ~In(routerQueue[u], e)
      BY <1>5, <2>1, <3>1
    <3>4. OnceIn(routerQueue[u], e)
      BY <3>3 DEF OnceIn, In
    <3>5. RouterOf[c] = u /\ OnceIn(routerQueue'[u], GetPublisher(c, a))
      BY <1>6, <2>1, <3>1, <3>3, <3>4 DEF r
    <3> QED BY <1>3, <2>1, <3>1, <3>2, <3>5
  <2>2. CASE c # q
    <3>1. \A other \in Ids : GetPublisher(c, other) # e
      BY <1>4, <2>2
    <3>2. \A other \in Ids :
            In(routerQueue'[u], GetPublisher(c, other)) => In(routerQueue[u], GetPublisher(c, other))
      BY <1>6, <3>1
    <3>3. /\ RouterOf[c] = u /\ lookup[c].state = "asked" /\ OnceIn(routerQueue[u], GetPublisher(c, a))
          /\ \A other \in Ids : In(routerQueue[u], GetPublisher(c, other)) => other = a
      BY <1>8, <3>2 DEF RequestsOK
    <3> QED BY <1>3, <1>6, <2>2, <3>1, <3>2, <3>3
  <2> QED BY <2>1, <2>2
<1>9. ASSUME NEW c \in Lookups
      PROVE  /\ lookup'[c].state = "asked" =>
                  \E a \in Ids : In(routerQueue'[RouterOf[c]], GetPublisher(c, a))
             /\ lookup'[c].state = "found" => lookup'[c].pub \in Publishers
  <2>1. CASE c = q
    BY <1>3, <1>4, <1>6, <2>1 DEF r, e
  <2>2. CASE c # q
    BY <1>3, <1>4, <1>6, <2>2 DEF RequestsOK
  <2> QED BY <2>1, <2>2
<1> QED BY <1>7, <1>8, <1>9 DEF RequestsOK, In, OnceIn

\* The router answers: the request was the only one of its lookup.
LEMMA AnswerRequests ==
  ASSUME IInv, RequestsOK, NEW r \in Routers, HandleGetPublisher(r)
  PROVE  /\ RequestsOK'
         /\ \E c \in Lookups, id \in Ids :
              /\ Head(routerQueue[r]) = GetPublisher(c, id) /\ RouterOf[c] = r
              /\ lookup[c].state = "asked"
              /\ \A a \in Ids : /\ In(routerQueue[r], GetPublisher(c, a)) <=> a = id
                                /\ ~In(routerQueue'[r], GetPublisher(c, a))
              /\ LET found == {x \in publishers[r] : IdOf[x[2]] = id} IN
                   \/ /\ found = {}
                      /\ lookup' = [lookup EXCEPT ![c] = [state |-> "unknown", pub |-> Nobody]]
                   \/ \E x \in found : lookup' = [lookup EXCEPT ![c] = [state |-> "found", pub |-> x[2]]]
<1> DEFINE e == Head(routerQueue[r])
<1>1. /\ Next2(r, "GetPublisher") /\ Handled(r) /\ UNCHANGED routerLoop
      /\ \E reply \in Reply(e.lookup, {x \in publishers[r] : IdOf[x[2]] = e.id}) :
           lookup' = [lookup EXCEPT ![e.lookup] = reply]
  BY DEF HandleGetPublisher
<1>2. PICK c \in Lookups, id \in Ids : e = GetPublisher(c, id) /\ e.lookup = c /\ e.id = id
  BY <1>1, RouterHeadKind
<1>3. routerLoop[r] # "done" /\ In(routerQueue[r], e)
  BY <1>1, RouterHead
<1>4. /\ \A u \in Routers \ {r} : routerQueue'[u] = routerQueue[u]
      /\ \A f : In(routerQueue[r], f) <=> In(routerQueue'[r], f) \/ f = e
      /\ \A f : OnceIn(routerQueue[r], f) =>
                  OnceIn(routerQueue'[r], f) /\ (f = e => ~In(routerQueue'[r], f))
  BY <1>1, HandledNews
<1> DEFINE found == {x \in publishers[r] : IdOf[x[2]] = id}
<1>5. \/ /\ found = {}
         /\ lookup' = [lookup EXCEPT ![c] = [state |-> "unknown", pub |-> Nobody]]
      \/ \E x \in found : lookup' = [lookup EXCEPT ![c] = [state |-> "found", pub |-> x[2]]]
  <2>1. PICK reply \in Reply(c, found) : lookup' = [lookup EXCEPT ![c] = reply]
    BY <1>1, <1>2
  <2>2. \/ found = {} /\ reply = [state |-> "unknown", pub |-> Nobody]
        \/ \E x \in found : reply = [state |-> "found", pub |-> x[2]]
    BY <2>1 DEF Reply, Found, First
  <2> HIDE DEF found
  <2> QED BY <2>1, <2>2
<1>6. /\ RouterOf[c] = r /\ lookup[c].state = "asked" /\ OnceIn(routerQueue[r], e)
      /\ \A a \in Ids : In(routerQueue[r], GetPublisher(c, a)) => a = id
  BY <1>2, <1>3 DEF RequestsOK
<1> HIDE DEF e, found
<1>7. \A a \in Ids : /\ In(routerQueue[r], GetPublisher(c, a)) <=> a = id
                     /\ ~In(routerQueue'[r], GetPublisher(c, a))
  BY <1>2, <1>3, <1>4, <1>6
<1>8. /\ \A d \in Lookups \ {c} : lookup'[d] = lookup[d]
      /\ lookup'[c].state \in {"unknown", "found"}
      /\ lookup'[c].state = "found" => lookup'[c].pub \in Publishers
  <2>1. lookup \in [Lookups -> [state : States, pub : Publishers \cup {Nobody}]]
    BY DEF IInv, RouterTypes
  <2>2. \A x \in found : x[2] \in Publishers
    BY DEF found, IInv, RouterTypes
  <2> QED BY <1>5, <2>1, <2>2
<1>9. \A u \in Routers : routerLoop'[u] = "done" => routerQueue'[u] = << >>
  BY <1>1, <1>3, <1>4 DEF RequestsOK
<1>10. \A u \in Routers, d \in Lookups, a \in Ids :
         In(routerQueue'[u], GetPublisher(d, a)) =>
           /\ d # c /\ In(routerQueue[u], GetPublisher(d, a))
           /\ OnceIn(routerQueue[u], GetPublisher(d, a)) => OnceIn(routerQueue'[u], GetPublisher(d, a))
  <2> SUFFICES ASSUME NEW u \in Routers, NEW d \in Lookups, NEW a \in Ids,
                      In(routerQueue'[u], GetPublisher(d, a))
               PROVE  /\ d # c /\ In(routerQueue[u], GetPublisher(d, a))
                      /\ OnceIn(routerQueue[u], GetPublisher(d, a)) =>
                           OnceIn(routerQueue'[u], GetPublisher(d, a))
    OBVIOUS
  <2>1. CASE u = r
    BY <1>4, <1>7, <2>1
  <2>2. CASE u # r
    <3>1. routerQueue'[u] = routerQueue[u]
      BY <1>4, <2>2
    <3>2. RouterOf[d] = u
      BY <3>1 DEF RequestsOK
    <3> QED BY <1>6, <2>2, <3>1, <3>2
  <2> QED BY <2>1, <2>2
<1>11. \A u \in Routers, d \in Lookups, a \in Ids :
         In(routerQueue'[u], GetPublisher(d, a)) =>
           /\ RouterOf[d] = u /\ lookup'[d].state = "asked"
           /\ OnceIn(routerQueue'[u], GetPublisher(d, a))
           /\ \A other \in Ids : In(routerQueue'[u], GetPublisher(d, other)) => other = a
  BY <1>8, <1>10 DEF RequestsOK
<1>12. ASSUME NEW d \in Lookups
       PROVE  /\ lookup'[d].state = "asked" =>
                   \E a \in Ids : In(routerQueue'[RouterOf[d]], GetPublisher(d, a))
              /\ lookup'[d].state = "found" => lookup'[d].pub \in Publishers
  <2>1. CASE d = c
    BY <1>8, <2>1
  <2>2. CASE d # c
    <3>1. RouterOf[d] \in Routers /\ lookup'[d] = lookup[d]
      BY <1>8, <2>2, Homes
    <3>2. \A a \in Ids : GetPublisher(d, a) # e
      BY <1>2, <2>2, EventFields
    <3>3. \A a \in Ids : In(routerQueue[RouterOf[d]], GetPublisher(d, a)) =>
                           In(routerQueue'[RouterOf[d]], GetPublisher(d, a))
      BY <1>4, <3>1, <3>2
    <3> QED BY <3>1, <3>3 DEF RequestsOK
  <2> QED BY <2>1, <2>2
<1>13. RequestsOK'
  BY <1>9, <1>11, <1>12 DEF RequestsOK, In, OnceIn
<1> QED BY <1>2, <1>5, <1>6, <1>7, <1>13 DEF e, found

\* The queue of a router that closes is dropped, and with it every request in it.
LEMMA UnansweredAre ==
  ASSUME IInv, NEW r \in Routers, HandleClosed(r)
  PROVE  Unanswered(r) = {q \in Lookups : \E id \in Ids : In(routerQueue[r], GetPublisher(q, id))}
<1>1. routerQueue[r] \in Seq(RouterEvents(r)) /\ routerQueue[r] # << >>
  BY DEF HandleClosed, Next2, IInv, RouterTypes
<1>2. Head(routerQueue[r]).type = "Closed" /\ Head(routerQueue[r]) = routerQueue[r][1]
  BY <1>1 DEF HandleClosed, Next2
<1> DEFINE n == Len(routerQueue[r])
<1>3. n \in Nat \ {0} /\ \A i \in 1 .. n : routerQueue[r][i] \in RouterEvents(r) /\ (i = 1 \/ i \in 2 .. n)
  BY <1>1
<1>4. ASSUME NEW q \in Unanswered(r)
      PROVE  q \in Lookups /\ \E id \in Ids : In(routerQueue[r], GetPublisher(q, id))
  <2>1. PICK i \in 2 .. n : routerQueue[r][i].type = "GetPublisher" /\ routerQueue[r][i].lookup = q
    BY <1>4 DEF Unanswered
  <2>2. i \in 1 .. n
    BY <1>3, <2>1
  <2>3. routerQueue[r][i] \in RouterEvents(r)
    BY <1>3, <2>2
  <2>4. PICK c \in Lookups, id \in Ids : routerQueue[r][i] = GetPublisher(c, id)
    BY <2>1, <2>3, EventKinds, EventFields
  <2>5. c = q
    BY <2>1, <2>4, EventFields
  <2> QED BY <2>2, <2>4, <2>5 DEF In
<1>5. ASSUME NEW q \in Lookups, NEW id \in Ids, In(routerQueue[r], GetPublisher(q, id))
      PROVE  q \in Unanswered(r)
  <2>1. PICK i \in 1 .. n : routerQueue[r][i] = GetPublisher(q, id)
    BY <1>5 DEF In
  <2>2. i # 1
    BY <1>2, <2>1, EventFields
  <2>3. i \in 2 .. n
    BY <1>3, <2>2
  <2> QED BY <2>1, <2>3, EventFields DEF Unanswered
<1> QED BY <1>4, <1>5

LEMMA ClosedRequests ==
  ASSUME IInv, RequestsOK, NEW r \in Routers, HandleClosed(r)
  PROVE  RequestsOK'
<1>1. /\ routerLoop' = [routerLoop EXCEPT ![r] = "done"]
      /\ routerQueue' = [routerQueue EXCEPT ![r] = << >>]
      /\ lookup' = [q \in Lookups |-> IF q \in Unanswered(r)
                                     THEN [state |-> "panicked", pub |-> Nobody] ELSE lookup[q]]
  BY DEF HandleClosed
<1>2. /\ routerQueue'[r] = << >> /\ \A u \in Routers \ {r} : routerQueue'[u] = routerQueue[u]
      /\ \A u \in Routers \ {r} : routerLoop'[u] = routerLoop[u]
      /\ \A q \in Lookups : /\ q \notin Unanswered(r) => lookup'[q] = lookup[q]
                            /\ q \in Unanswered(r) => lookup'[q].state = "panicked"
  BY <1>1 DEF IInv, RouterTypes
<1>3. \A f : ~In(routerQueue'[r], f)
  BY <1>2 DEF In
<1>4. \A u \in Routers : routerLoop'[u] = "done" => routerQueue'[u] = << >>
  BY <1>2 DEF RequestsOK
<1>5. ASSUME NEW u \in Routers, NEW q \in Lookups, NEW id \in Ids, In(routerQueue'[u], GetPublisher(q, id))
      PROVE  /\ RouterOf[q] = u /\ lookup'[q].state = "asked"
             /\ OnceIn(routerQueue'[u], GetPublisher(q, id))
             /\ \A other \in Ids : In(routerQueue'[u], GetPublisher(q, other)) => other = id
  <2>1. u # r /\ routerQueue'[u] = routerQueue[u]
    BY <1>2, <1>3, <1>5
  <2>2. /\ RouterOf[q] = u /\ lookup[q].state = "asked" /\ OnceIn(routerQueue[u], GetPublisher(q, id))
        /\ \A other \in Ids : In(routerQueue[u], GetPublisher(q, other)) => other = id
    BY <1>5, <2>1 DEF RequestsOK
  <2>3. q \notin Unanswered(r)
    BY <2>1, <2>2, UnansweredAre DEF RequestsOK
  <2> QED BY <1>2, <2>1, <2>2, <2>3
<1>6. ASSUME NEW q \in Lookups
      PROVE  /\ lookup'[q].state = "asked" =>
                  \E id \in Ids : In(routerQueue'[RouterOf[q]], GetPublisher(q, id))
             /\ lookup'[q].state = "found" => lookup'[q].pub \in Publishers
  <2>1. CASE q \in Unanswered(r)
    BY <1>2, <2>1
  <2>2. CASE q \notin Unanswered(r)
    <3>1. lookup'[q] = lookup[q] /\ RouterOf[q] \in Routers
      BY <1>2, <2>2, Homes
    <3>2. \A id \in Ids : ~In(routerQueue[r], GetPublisher(q, id))
      BY <2>2, UnansweredAre
    <3> QED BY <1>2, <3>1, <3>2 DEF RequestsOK
  <2> QED BY <2>1, <2>2
<1> QED BY <1>4, <1>5, <1>6 DEF RequestsOK, In, OnceIn

\* A lookup that was answered takes the publisher's lock.
LEMMA GetLocalTrackRequests ==
  ASSUME IInv, RequestsOK, NEW q \in Lookups, GetLocalTrack(q)
  PROVE  RequestsOK'
<1>1. /\ lookup[q].state = "found" /\ UNCHANGED <<routerLoop, routerQueue>>
      /\ lookup' = [lookup EXCEPT ![q].state =
                      IF localTracks[lookup[q].pub] = {} THEN "noTrack" ELSE "track"]
  BY DEF GetLocalTrack, routerVars
<1>2. lookup \in [Lookups -> [state : States, pub : Publishers \cup {Nobody}]]
  BY DEF IInv, RouterTypes
<1>3. /\ \A c \in Lookups \ {q} : lookup'[c] = lookup[c]
      /\ lookup'[q].state \in {"noTrack", "track"}
  BY <1>1, <1>2
<1> QED BY <1>1, <1>3 DEF RequestsOK, In, OnceIn

LEMMA StepRequests ==
  ASSUME IInv, RequestsOK, [Next]_vars
  PROVE  RequestsOK'
<1>1. ASSUME UNCHANGED <<routerQueue, lookup>>,
             \A u \in Routers : routerLoop'[u] = "done" => routerLoop[u] = "done"
      PROVE  RequestsOK'
  BY <1>1, RequestsStay DEF RequestsOK
<1>2. ASSUME \/ CloseWorker \/ WorkerHandles \/ UNCHANGED vars
             \/ \E x \in Publishers \cup DataPublishers : BeginRelay(x) \/ EndRelay(x)
      PROVE  RequestsOK'
  BY <1>1, <1>2 DEF CloseWorker, WorkerHandles, BeginRelay, EndRelay, vars, routerVars
<1>3. ASSUME NEW r \in Routers, NewRouter(r)
      PROVE  RequestsOK'
  <2>1. \A u \in Routers : routerLoop'[u] = "done" => routerLoop[u] = "done"
    BY <1>3 DEF NewRouter, IInv, RouterTypes
  <2> QED BY <1>1, <1>3, <2>1 DEF NewRouter
<1>4. ASSUME NEW r \in Routers, CloseRouter(r)
      PROVE  RequestsOK'
  <2>1. /\ routerQueue' = Sent(r, Closed) /\ UNCHANGED lookup
        /\ \A u \in Routers : routerLoop'[u] = "done" => routerLoop[u] = "done"
    BY <1>4 DEF CloseRouter, IInv, RouterTypes
  <2>2. Closed \in RouterEvents(r) /\ \A q \in Lookups, id \in Ids : Closed # GetPublisher(q, id)
    BY Homes, EventFields
  <2> QED BY <2>1, <2>2, SentRequests
<1>5. ASSUME NEW r \in Routers, HandleMediaPublished(r) \/ HandlePublisherRemoved(r)
                                \/ HandleDataPublished(r) \/ HandleDataRemoved(r)
      PROVE  RequestsOK'
  <2>1. /\ Handled(r) /\ UNCHANGED <<routerLoop, lookup>>
        /\ \/ Next2(r, "MediaPublished") \/ Next2(r, "PublisherRemoved")
           \/ Next2(r, "DataPublished") \/ Next2(r, "DataRemoved")
    BY <1>5 DEF HandleMediaPublished, HandlePublisherRemoved, HandleDataPublished, HandleDataRemoved
  <2> QED BY <2>1, HandledRequests
<1>6. ASSUME NEW p \in Publishers,
             \/ OnTrack(p) \/ TrackEnds(p) \/ ClosePublisher(p) \/ HandleTrackOpened(p)
             \/ HandleClose(p) \/ \E s \in Ssrcs : TrackOpens(p, s)
      PROVE  RequestsOK'
  BY <1>1, <1>6 DEF OnTrack, TrackEnds, ClosePublisher, HandleTrackOpened, HandleClose, TrackOpens,
                    routerVars
<1>7. ASSUME NEW p \in Publishers, HandleTrackAdded(p) \/ Leave(p)
      PROVE  RequestsOK'
  <2>1. /\ UNCHANGED <<routerLoop, lookup>>
        /\ \/ routerQueue' = Sent(RouterOf[p], MediaPublished(p))
           \/ routerQueue' = Sent(RouterOf[p], PublisherRemoved(p))
           \/ routerQueue' = routerQueue
    BY <1>7 DEF HandleTrackAdded, Leave, Removal
  <2>2. \A q \in Lookups, id \in Ids :
          MediaPublished(p) # GetPublisher(q, id) /\ PublisherRemoved(p) # GetPublisher(q, id)
    BY EventFields
  <2> QED BY <1>1, <2>1, <2>2, Homes, SentRequests
<1>8. ASSUME NEW d \in DataPublishers, OnDataChannel(d) \/ Announce(d) \/ DataChannelCloses(d)
      PROVE  RequestsOK'
  <2>1. /\ UNCHANGED <<routerLoop, lookup>>
        /\ \/ routerQueue' = Sent(RouterOf[d], DataPublished(d))
           \/ routerQueue' = Sent(RouterOf[d], DataRemoved(d))
           \/ routerQueue' = routerQueue
    BY <1>8 DEF OnDataChannel, Announce, DataChannelCloses, routerVars
  <2>2. \A q \in Lookups, id \in Ids :
          DataPublished(d) # GetPublisher(q, id) /\ DataRemoved(d) # GetPublisher(q, id)
    BY EventFields
  <2> QED BY <1>1, <2>1, <2>2, Homes, SentRequests
<1> QED BY <1>2, <1>3, <1>4, <1>5, <1>6, <1>7, <1>8, AskRequests, AnswerRequests, ClosedRequests,
           GetLocalTrackRequests DEF Next, RouterHandles, PublisherHandles

\* A publisher's tracks go when it closes, and only its loop makes others.
LEMMA StepTracksGone ==
  ASSUME IInv, TracksGone, [Next]_vars
  PROVE  TracksGone'
<1>0. localTracks \in [Publishers -> SUBSET Ssrcs] /\ loop \in [Publishers -> {"none", "running", "closing", "done"}]
  BY DEF IInv, LoopTypes
<1>1. ASSUME UNCHANGED <<loop, localTracks>> PROVE TracksGone'
  BY <1>1 DEF TracksGone
<1>2. CASE \/ CloseWorker \/ WorkerHandles \/ UNCHANGED vars
           \/ \E x \in Publishers \cup DataPublishers : BeginRelay(x) \/ EndRelay(x)
  BY <1>1, <1>2 DEF CloseWorker, WorkerHandles, BeginRelay, EndRelay, vars, publisherVars
<1>3. ASSUME NEW r \in Routers, NewRouter(r) \/ CloseRouter(r)
      PROVE  TracksGone'
  BY <1>1, <1>3 DEF NewRouter, CloseRouter, publisherVars, relayVars
<1>4. ASSUME NEW r \in Routers, RouterHandles(r)
      PROVE  TracksGone'
  BY <1>1, <1>4 DEF RouterHandles, HandleMediaPublished, HandlePublisherRemoved, HandleDataPublished,
                    HandleDataRemoved, HandleGetPublisher, HandleClosed, publisherVars, relayVars
<1>5. ASSUME NEW p \in Publishers, OnTrack(p)
      PROVE  TracksGone'
  BY <1>0, <1>5 DEF OnTrack, TracksGone
<1>6. ASSUME NEW p \in Publishers,
             TrackEnds(p) \/ ClosePublisher(p) \/ HandleTrackAdded(p) \/ \E s \in Ssrcs : TrackOpens(p, s)
      PROVE  TracksGone'
  BY <1>1, <1>6 DEF TrackEnds, ClosePublisher, HandleTrackAdded, TrackOpens
<1>7. ASSUME NEW p \in Publishers, HandleTrackOpened(p)
      PROVE  TracksGone'
  <2>1. loop[p] = "running" /\ UNCHANGED loop
        /\ \A u \in Publishers \ {p} : localTracks'[u] = localTracks[u]
    BY <1>0, <1>7 DEF HandleTrackOpened, Next1
  <2> QED BY <2>1 DEF TracksGone
<1>8. ASSUME NEW p \in Publishers, HandleClose(p) \/ Leave(p)
      PROVE  TracksGone'
  <2>1. /\ localTracks'[p] = {} \/ (loop[p] = "closing" /\ localTracks' = localTracks)
        /\ \A u \in Publishers \ {p} : localTracks'[u] = localTracks[u] /\ loop'[u] = loop[u]
    BY <1>0, <1>8 DEF HandleClose, Leave
  <2> QED BY <2>1 DEF TracksGone
<1>9. ASSUME NEW d \in DataPublishers, OnDataChannel(d) \/ Announce(d) \/ DataChannelCloses(d)
      PROVE  TracksGone'
  BY <1>1, <1>9 DEF OnDataChannel, Announce, DataChannelCloses, publisherVars, relayVars
<1>10. ASSUME NEW q \in Lookups, GetLocalTrack(q) \/ \E id \in Ids : Ask(q, id)
       PROVE  TracksGone'
  BY <1>1, <1>10 DEF GetLocalTrack, Ask, publisherVars, relayVars
<1> QED BY <1>2, <1>3, <1>4, <1>5, <1>6, <1>7, <1>8, <1>9, <1>10 DEF Next, PublisherHandles

-----------------------------------------------------------------------------
(* Directory: what it sees of the queues *)

Stages == [p \in Publishers |-> Stage(p)]
Over == {p \in Publishers : loop[p] \in {"closing", "done"}}
Gone == {r \in Routers : routerLoop[r] = "done"}
Asked == [q \in Lookups |-> {id \in Ids : GetPublisher(q, id) \in Events(RouterOf[q])}]

StagesAre ==
  \A p \in Publishers :
    /\ Stages[p] \in {"new", "announced", "listed", "gone"}
    /\ Stages[p] = "new" <=> p \notin published
    /\ Stages[p] = "announced" <=> In(routerQueue[RouterOf[p]], MediaPublished(p))
    /\ Stages[p] = "listed" <=> p \in Listed(RouterOf[p])
AskedAre ==
  \A q \in Lookups :
    Asked[q] = {id \in Ids : In(routerQueue[RouterOf[q]], GetPublisher(q, id))}
View == StagesAre /\ AskedAre

LEMMA ViewIs == IInv => View
<1> SUFFICES ASSUME IInv PROVE View
  OBVIOUS
<1>1. ASSUME NEW p \in Publishers
      PROVE  /\ Stages[p] \in {"new", "announced", "listed", "gone"}
             /\ Stages[p] = "new" <=> p \notin published
             /\ Stages[p] = "announced" <=> In(routerQueue[RouterOf[p]], MediaPublished(p))
             /\ Stages[p] = "listed" <=> p \in Listed(RouterOf[p])
  <2>1. RouterOf[p] \in Routers
    BY Homes
  <2>2. MediaPublished(p) \in Events(RouterOf[p]) <=> In(routerQueue[RouterOf[p]], MediaPublished(p))
    BY <2>1, EventsAreIn
  <2>3. /\ In(routerQueue[RouterOf[p]], MediaPublished(p)) => p \in published /\ p \notin Listed(RouterOf[p])
        /\ p \in Listed(RouterOf[p]) => p \in published
    BY <2>1 DEF IInv, RouterSide, AnnouncedOnce
  <2>4. Stages[p] = IF p \notin published THEN "new"
                    ELSE IF MediaPublished(p) \in Events(RouterOf[p]) THEN "announced"
                    ELSE IF p \in Listed(RouterOf[p]) THEN "listed" ELSE "gone"
    BY DEF Stages, Stage
  <2> QED BY <2>2, <2>3, <2>4
<1>2. ASSUME NEW q \in Lookups
      PROVE  Asked[q] = {id \in Ids : In(routerQueue[RouterOf[q]], GetPublisher(q, id))}
  <2>1. RouterOf[q] \in Routers
    BY Homes
  <2>2. \A id \in Ids : GetPublisher(q, id) \in Events(RouterOf[q]) <=>
                          In(routerQueue[RouterOf[q]], GetPublisher(q, id))
    BY <2>1, EventsAreIn
  <2> QED BY <2>2 DEF Asked
<1> QED BY <1>1, <1>2 DEF View, StagesAre, AskedAre

LEMMA ViewIsNext == IInv' => View'
BY ViewIs, PTL

\* The stage of a publisher after a step ...
LEMMA NextStage ==
  ASSUME View', NEW p \in Publishers
  PROVE  /\ Stages'[p] \in {"new", "announced", "listed", "gone"}
         /\ Stages'[p] = "new" <=> p \notin published'
         /\ Stages'[p] = "announced" <=> In(routerQueue'[RouterOf[p]], MediaPublished(p))
         /\ Stages'[p] = "listed" <=> p \in Listed(RouterOf[p])'
BY DEF View, StagesAre, In

\* ... is what it was where the announcement and the list are.
LEMMA StageStays ==
  ASSUME View, View', NEW p \in Publishers, p \in published' <=> p \in published,
         In(routerQueue'[RouterOf[p]], MediaPublished(p)) <=>
           In(routerQueue[RouterOf[p]], MediaPublished(p)),
         p \in Listed(RouterOf[p])' <=> p \in Listed(RouterOf[p])
  PROVE  Stages'[p] = Stages[p]
<1>1. /\ Stages[p] \in {"new", "announced", "listed", "gone"}
      /\ Stages[p] = "new" <=> p \notin published
      /\ Stages[p] = "announced" <=> In(routerQueue[RouterOf[p]], MediaPublished(p))
      /\ Stages[p] = "listed" <=> p \in Listed(RouterOf[p])
  BY DEF View, StagesAre
<1> QED BY <1>1, NextStage

LEMMA AskedStays ==
  ASSUME View, View',
         \A q \in Lookups, id \in Ids :
           In(routerQueue'[RouterOf[q]], GetPublisher(q, id)) <=>
             In(routerQueue[RouterOf[q]], GetPublisher(q, id))
  PROVE  UNCHANGED Asked
<1>1. ASSUME NEW q \in Lookups PROVE Asked'[q] = Asked[q]
  <2>1. Asked[q] = {id \in Ids : In(routerQueue[RouterOf[q]], GetPublisher(q, id))}
    BY DEF View, AskedAre
  <2>2. Asked'[q] = {id \in Ids : In(routerQueue'[RouterOf[q]], GetPublisher(q, id))}
    BY DEF View, AskedAre, In
  <2> QED BY <2>1, <2>2
<1> QED BY <1>1 DEF Asked

\* An event that is neither announcement nor request changes nothing that can be seen.
LEMMA SentView ==
  ASSUME IInv, View, View', NEW r \in Routers, NEW e \in RouterEvents(r), routerQueue' = Sent(r, e),
         UNCHANGED <<publishers, published>>,
         \A p \in Publishers : e # MediaPublished(p),
         \A q \in Lookups, id \in Ids : e # GetPublisher(q, id)
  PROVE  UNCHANGED <<Stages, Asked>>
<1>1. \A u \in Routers : \A f : f # e => (In(routerQueue'[u], f) <=> In(routerQueue[u], f))
  BY SentNews
<1>2. ASSUME NEW p \in Publishers PROVE Stages'[p] = Stages[p]
  BY <1>1, Homes, StageStays DEF Listed
<1>3. UNCHANGED Stages
  BY <1>2 DEF Stages
<1> QED BY <1>1, <1>3, Homes, AskedStays

\* So does one that a router handles, but for the announcements and lists.
LEMMA HandledView ==
  ASSUME IInv, View, View', NEW r \in Routers, NEW type, Next2(r, type), Handled(r),
         type # "GetPublisher"
  PROVE  /\ UNCHANGED Asked
         /\ \A u \in Routers : \A p \in Publishers :
              Head(routerQueue[r]) # MediaPublished(p) =>
                (In(routerQueue'[u], MediaPublished(p)) <=> In(routerQueue[u], MediaPublished(p)))
<1>1. \A u \in Routers : \A f : f # Head(routerQueue[r]) =>
        (In(routerQueue'[u], f) <=> In(routerQueue[u], f))
  BY HandledNews, Zenon
<1>2. \A q \in Lookups, id \in Ids : Head(routerQueue[r]) # GetPublisher(q, id)
  BY RouterHead, EventFields
<1> QED BY <1>1, <1>2, Homes, AskedStays

\* A step that changes neither is no step of Directory.
LEMMA Unseen ==
  UNCHANGED <<Stages, Over, Gone, lookup, Asked>> => UNCHANGED Directed!vars
BY DEF Stages, Over, Gone, Asked, Directed!vars

LEMMA QuietQueues ==
  ASSUME View, View', UNCHANGED <<routerQueue, publishers, published>>
  PROVE  UNCHANGED <<Stages, Asked>>
<1>1. ASSUME NEW p \in Publishers PROVE Stages'[p] = Stages[p]
  BY StageStays DEF Listed
<1>2. UNCHANGED Stages
  BY <1>1 DEF Stages
<1> QED BY <1>2, AskedStays

-----------------------------------------------------------------------------
(* Directory: the steps *)

\* The first track of a publisher announces it.
LEMMA Announces ==
  ASSUME IInv, View, View', NEW p \in Publishers, HandleTrackAdded(p)
  PROVE  [Directed!Next]_(Directed!vars)
<1>1. /\ loop[p] = "running" /\ published' = published \cup {p}
      /\ routerQueue' = IF FirstTrack(p) THEN Sent(RouterOf[p], MediaPublished(p)) ELSE routerQueue
      /\ UNCHANGED <<routerLoop, publishers, loop, lookup>>
  BY DEF HandleTrackAdded, Next1
<1>2. UNCHANGED <<Over, Gone>>
  BY <1>1 DEF Over, Gone
<1>3. CASE ~FirstTrack(p)
  <2>1. UNCHANGED <<routerQueue, publishers, published>>
    BY <1>1, <1>3 DEF FirstTrack
  <2> QED BY <1>1, <1>2, <2>1, QuietQueues, Unseen
<1>4. CASE FirstTrack(p)
  <2> DEFINE r == RouterOf[p]
             e == MediaPublished(p)
  <2>1. r \in Routers /\ e \in RouterEvents(r) /\ routerQueue' = Sent(r, e) /\ p \notin published
    BY <1>1, <1>4, Homes DEF FirstTrack
  <2>2. \A u \in Publishers : MediaPublished(u) = e => u = p
    BY EventFields
  <2>3. \A q \in Lookups, id \in Ids : GetPublisher(q, id) # e
    BY EventFields
  <2> HIDE DEF r, e
  <2>4. \A u \in Routers : \A f :
          In(routerQueue'[u], f) <=> In(routerQueue[u], f) \/ (u = r /\ f = e /\ routerLoop[r] # "done")
    BY <2>1, SentNews
  <2>5. UNCHANGED Asked
    BY <2>3, <2>4, Homes, AskedStays
  <2>6. \A u \in Publishers \ {p} : Stages'[u] = Stages[u]
    <3> SUFFICES ASSUME NEW u \in Publishers \ {p} PROVE Stages'[u] = Stages[u]
      OBVIOUS
    <3>1. In(routerQueue'[RouterOf[u]], MediaPublished(u)) <=> In(routerQueue[RouterOf[u]], MediaPublished(u))
      BY <2>2, <2>4, Homes
    <3>2. (u \in published' <=> u \in published) /\ Listed(RouterOf[u])' = Listed(RouterOf[u])
      BY <1>1 DEF Listed
    <3> QED BY <3>1, <3>2, StageStays
  <2>7. Stages[p] = "new" /\ ~In(routerQueue[r], e) /\ p \notin Listed(r)
    BY <2>1 DEF View, StagesAre, r, e
  <2>8. Stages'[p] = IF r \in Gone THEN "gone" ELSE "announced"
    <3>1. In(routerQueue'[r], e) <=> r \notin Gone
      BY <2>1, <2>4, <2>7 DEF Gone
    <3>2. p \in published' /\ p \notin Listed(r)'
      BY <1>1, <2>7 DEF Listed
    <3> QED BY <3>1, <3>2, NextStage DEF r, e
  <2>9. Stages' = [Stages EXCEPT ![p] = IF r \in Gone THEN "gone" ELSE "announced"]
    BY <2>6, <2>8 DEF Stages
  <2>10. p \notin Over
    BY <1>1 DEF Over
  <2>11. Directed!Announce(p)
    BY <1>1, <1>2, <2>5, <2>7, <2>9, <2>10 DEF Directed!Announce, Stages, Over, Gone, Asked, r
  <2> QED BY <2>11 DEF Directed!Next
<1> QED BY <1>3, <1>4

\* The router reads the announcement.
LEMMA Lists ==
  ASSUME IInv, View, View', NEW r \in Routers, HandleMediaPublished(r)
  PROVE  [Directed!Next]_(Directed!vars)
<1> DEFINE e == Head(routerQueue[r])
<1>1. /\ Next2(r, "MediaPublished") /\ Handled(r)
      /\ publishers' = [publishers EXCEPT ![r] = Registered(@, e.pub)]
      /\ UNCHANGED <<routerLoop, publisherVars, relayVars, lookup>>
  BY DEF HandleMediaPublished
<1>2. PICK p \in Publishers : RouterOf[p] = r /\ e = MediaPublished(p) /\ e.pub = p
  BY <1>1, RouterHeadKind
<1>3. routerLoop[r] # "done" /\ In(routerQueue[r], e)
  BY <1>1, RouterHead
<1>4. UNCHANGED <<Over, Gone, published>>
  BY <1>1 DEF Over, Gone, publisherVars, relayVars
<1> DEFINE n == Newest(publishers[r]) + 1
<1>5. /\ publishers'[r] = publishers[r] \cup {<<n, p>>}
      /\ \A u \in Routers \ {r} : publishers'[u] = publishers[u]
  BY <1>1, <1>2 DEF Registered, IInv, RouterTypes
<1>6. \A u \in Publishers : MediaPublished(u) = e => u = p
  BY <1>2, EventFields
<1> HIDE DEF n
<1>7. Listed(r)' = Listed(r) \cup {p} /\ \A u \in Routers \ {r} : Listed(u)' = Listed(u)
  <2>1. <<n, p>>[2] = p
    OBVIOUS
  <2>2. {x[2] : x \in publishers'[r]} = {x[2] : x \in publishers[r]} \cup {p}
    BY <1>5, <2>1, Zenon
  <2> QED BY <1>5, <2>2 DEF Listed
<1>8. UNCHANGED Asked /\
      \A u \in Publishers \ {p} :
        In(routerQueue'[RouterOf[u]], MediaPublished(u)) <=> In(routerQueue[RouterOf[u]], MediaPublished(u))
  BY <1>1, <1>6, Homes, HandledView
<1> HIDE DEF e
<1>9. \A u \in Publishers \ {p} : Stages'[u] = Stages[u]
  <2> SUFFICES ASSUME NEW u \in Publishers \ {p} PROVE Stages'[u] = Stages[u]
    OBVIOUS
  <2>1. u \in Listed(RouterOf[u])' <=> u \in Listed(RouterOf[u])
    BY <1>7, Homes
  <2> QED BY <1>4, <1>8, <2>1, StageStays
<1>10. Stages[p] = "announced"
  BY <1>2, <1>3 DEF View, StagesAre
<1>11. Stages'[p] = "listed"
  BY <1>2, <1>7, NextStage
<1>12. Stages' = [Stages EXCEPT ![p] = "listed"]
  BY <1>9, <1>11 DEF Stages
<1>13. Directed!List(p)
  BY <1>1, <1>2, <1>3, <1>4, <1>8, <1>10, <1>12 DEF Directed!List, Stages, Over, Gone, Asked
<1> QED BY <1>13 DEF Directed!Next

\* The router reads a removal: somebody of that id has closed.
LEMMA Removes ==
  ASSUME IInv, View, View', NEW r \in Routers, HandlePublisherRemoved(r)
  PROVE  [Directed!Next]_(Directed!vars)
<1> DEFINE e == Head(routerQueue[r])
<1>1. /\ Next2(r, "PublisherRemoved") /\ Handled(r)
      /\ publishers' = [publishers EXCEPT ![r] = Retained(@, e.id)]
      /\ UNCHANGED <<routerLoop, publisherVars, relayVars, lookup>>
  BY DEF HandlePublisherRemoved
<1>2. PICK t \in Publishers : e = PublisherRemoved(t) /\ e.id = IdOf[t]
  BY <1>1, RouterHeadKind
<1>3. In(routerQueue[r], PublisherRemoved(t))
  BY <1>1, <1>2, RouterHead
<1>4. PICK p \in Publishers : IdOf[p] = IdOf[t] /\ RouterOf[p] = r /\ loop[p] = "done"
  BY <1>3 DEF IInv, RouterSide, RemovedAreDone
<1>5. UNCHANGED <<Over, Gone, published>> /\ p \in Over
  BY <1>1, <1>4 DEF Over, Gone, publisherVars, relayVars
<1>6. /\ publishers'[r] = {x \in publishers[r] : IdOf[x[2]] # IdOf[p]}
      /\ \A u \in Routers \ {r} : publishers'[u] = publishers[u]
  BY <1>1, <1>2, <1>4 DEF Retained, IInv, RouterTypes
<1>7. \A u \in Publishers : MediaPublished(u) # e
  BY <1>2, EventFields
<1>8. /\ \A u \in Publishers : u \in Listed(r)' <=> u \in Listed(r) /\ IdOf[u] # IdOf[p]
      /\ \A u \in Routers \ {r} : Listed(u)' = Listed(u)
  BY <1>6 DEF Listed
<1>9. UNCHANGED Asked /\
      \A u \in Publishers :
        In(routerQueue'[RouterOf[u]], MediaPublished(u)) <=> In(routerQueue[RouterOf[u]], MediaPublished(u))
  BY <1>1, <1>7, Homes, HandledView
<1> HIDE DEF e
<1> DEFINE L == {u \in Publishers : Stages[u] = "listed" /\ RouterOf[u] = r /\ IdOf[u] = IdOf[p]}
<1>10. ASSUME NEW u \in Publishers PROVE Stages'[u] = IF u \in L THEN "gone" ELSE Stages[u]
  <2>1. CASE u \in L
    <3>1. u \in published /\ ~In(routerQueue[r], MediaPublished(u))
      BY <2>1 DEF View, StagesAre
    <3>2. u \notin Listed(r)'
      BY <1>8, <2>1
    <3> QED BY <1>5, <1>9, <2>1, <3>1, <3>2, NextStage
  <2>2. CASE u \notin L
    <3>1. u \in Listed(RouterOf[u]) <=> Stages[u] = "listed"
      BY DEF View, StagesAre
    <3>2. u \in Listed(RouterOf[u])' <=> u \in Listed(RouterOf[u])
      BY <1>8, <2>2, <3>1, Homes
    <3> QED BY <1>5, <1>9, <2>2, <3>2, StageStays
  <2> QED BY <2>1, <2>2
<1>11. Stages' = [u \in Publishers |-> IF u \in L THEN "gone" ELSE Stages[u]]
  BY <1>10 DEF Stages
<1>12. Directed!Remove(p)
  BY <1>1, <1>4, <1>5, <1>9, <1>11
     DEF Directed!Remove, Directed!ListedAs, Stages, Over, Gone, Asked
<1> QED BY <1>12 DEF Directed!Next

\* A publisher closes.
LEMMA Closes ==
  ASSUME IInv, View, View', NEW p \in Publishers, HandleClose(p)
  PROVE  [Directed!Next]_(Directed!vars)
<1>1. /\ loop' = [loop EXCEPT ![p] = "closing"]
      /\ UNCHANGED <<routerVars, published, lookup>>
  BY DEF HandleClose
<1>2. UNCHANGED <<Stages, Asked>>
  BY <1>1, QuietQueues DEF routerVars
<1>3. Over' = Over \cup {p} /\ UNCHANGED Gone
  BY <1>1 DEF Over, Gone, IInv, LoopTypes, routerVars
<1>4. Directed!Close(p)
  BY <1>1, <1>2, <1>3 DEF Directed!Close, Stages, Over, Gone, Asked
<1> QED BY <1>4 DEF Directed!Next

\* A router returns: what is queued, announcements and requests, is dropped.
LEMMA Stops ==
  ASSUME IInv, RequestsOK, View, View', NEW r \in Routers, HandleClosed(r)
  PROVE  [Directed!Next]_(Directed!vars)
<1>1. /\ routerLoop[r] # "done" /\ routerLoop' = [routerLoop EXCEPT ![r] = "done"]
      /\ routerQueue' = [routerQueue EXCEPT ![r] = << >>]
      /\ lookup' = [q \in Lookups |-> IF q \in Unanswered(r)
                                     THEN [state |-> "panicked", pub |-> Nobody] ELSE lookup[q]]
      /\ UNCHANGED <<publishers, publisherVars, relayVars>>
  BY DEF HandleClosed, Next2
<1>2. /\ \A f : ~In(routerQueue'[r], f)
      /\ \A u \in Routers \ {r} : routerQueue'[u] = routerQueue[u]
  <2>1. routerQueue'[r] = << >> /\ \A u \in Routers \ {r} : routerQueue'[u] = routerQueue[u]
    BY <1>1 DEF IInv, RouterTypes
  <2> QED BY <2>1 DEF In
<1>3. UNCHANGED <<Over, published>> /\ Gone' = Gone \cup {r} /\ r \notin Gone
  BY <1>1 DEF Over, Gone, publisherVars, relayVars, IInv, RouterTypes
<1>4. ASSUME NEW p \in Publishers
      PROVE  Stages'[p] = IF Stages[p] = "announced" /\ RouterOf[p] = r THEN "gone" ELSE Stages[p]
  <2>1. /\ Stages[p] = "new" <=> p \notin published
        /\ Stages[p] = "announced" <=> In(routerQueue[RouterOf[p]], MediaPublished(p))
        /\ Stages[p] = "listed" <=> p \in Listed(RouterOf[p])
    BY DEF View, StagesAre
  <2>2. Listed(RouterOf[p])' = Listed(RouterOf[p])
    BY <1>1 DEF Listed
  <2>3. CASE Stages[p] = "announced" /\ RouterOf[p] = r
    BY <1>2, <1>3, <2>1, <2>2, <2>3, NextStage
  <2>4. CASE ~(Stages[p] = "announced" /\ RouterOf[p] = r)
    <3>1. In(routerQueue'[RouterOf[p]], MediaPublished(p)) <=> In(routerQueue[RouterOf[p]], MediaPublished(p))
      <4>1. CASE RouterOf[p] = r
        BY <1>2, <2>1, <2>4, <4>1
      <4>2. CASE RouterOf[p] # r
        <5>1. routerQueue'[RouterOf[p]] = routerQueue[RouterOf[p]]
          BY <1>2, <4>2, Homes
        <5> QED BY <5>1
      <4> QED BY <4>1, <4>2
    <3>2. Stages'[p] = Stages[p]
      BY <1>3, <2>2, <3>1, StageStays
    <3> QED BY <2>4, <3>2
  <2> QED BY <2>3, <2>4
<1>5. Stages' = [p \in Publishers |-> IF Stages[p] = "announced" /\ RouterOf[p] = r THEN "gone"
                                      ELSE Stages[p]]
  BY <1>4 DEF Stages
<1>6. ASSUME NEW q \in Lookups
      PROVE  /\ q \in Unanswered(r) <=> Asked[q] # {} /\ RouterOf[q] = r
             /\ Asked'[q] = IF RouterOf[q] = r THEN {} ELSE Asked[q]
  <2>1. Asked[q] = {id \in Ids : In(routerQueue[RouterOf[q]], GetPublisher(q, id))}
    BY DEF View, AskedAre
  <2>2. Asked'[q] = {id \in Ids : In(routerQueue'[RouterOf[q]], GetPublisher(q, id))}
    BY DEF View, AskedAre, In
  <2>3. q \in Unanswered(r) <=> \E id \in Ids : In(routerQueue[r], GetPublisher(q, id))
    BY UnansweredAre
  <2>4. q \in Unanswered(r) => RouterOf[q] = r
    BY <2>3 DEF RequestsOK
  <2>5. q \in Unanswered(r) <=> Asked[q] # {} /\ RouterOf[q] = r
    BY <2>1, <2>3, <2>4
  <2>6. CASE RouterOf[q] = r
    BY <1>2, <2>2, <2>5, <2>6
  <2>7. CASE RouterOf[q] # r
    <3>1. routerQueue'[RouterOf[q]] = routerQueue[RouterOf[q]]
      BY <1>2, <2>7, Homes
    <3> QED BY <2>1, <2>2, <2>5, <2>7, <3>1
  <2> QED BY <2>6, <2>7
<1>7. Asked' = [q \in Lookups |-> IF RouterOf[q] = r THEN {} ELSE Asked[q]]
  BY <1>6 DEF Asked
<1>8. lookup' = [q \in Lookups |-> IF Asked[q] # {} /\ RouterOf[q] = r
                                  THEN [state |-> "panicked", pub |-> Nobody] ELSE lookup[q]]
  BY <1>1, <1>6
<1>9. Directed!Stop(r)
  BY <1>3, <1>5, <1>7, <1>8 DEF Directed!Stop, Stages, Over, Gone, Asked
<1> QED BY <1>9 DEF Directed!Next

\* A lookup asks.
LEMMA Asks ==
  ASSUME IInv, RequestsOK, View, View', NEW q \in Lookups, NEW id \in Ids, Ask(q, id)
  PROVE  [Directed!Next]_(Directed!vars)
<1> DEFINE r == RouterOf[q]
           e == GetPublisher(q, id)
<1>1. /\ lookup[q].state = "idle" /\ routerQueue' = Sent(r, e)
      /\ lookup' = [lookup EXCEPT ![q].state = IF routerLoop[r] = "done" THEN "panicked" ELSE "asked"]
      /\ UNCHANGED <<routerLoop, publishers, publisherVars, relayVars>>
  BY DEF Ask
<1>2. /\ r \in Routers /\ e \in RouterEvents(r) /\ \A p \in Publishers : MediaPublished(p) # e
      /\ \A c \in Lookups, a \in Ids : GetPublisher(c, a) = e => c = q /\ a = id
  BY Homes, EventFields
<1>3. \A a \in Ids : ~In(routerQueue[r], GetPublisher(q, a))
  BY <1>1, <1>2 DEF RequestsOK
<1> HIDE DEF e
<1>4. \A u \in Routers : \A f :
        In(routerQueue'[u], f) <=> In(routerQueue[u], f) \/ (u = r /\ f = e /\ routerLoop[r] # "done")
  BY <1>1, <1>2, SentNews
<1>5. UNCHANGED <<Over, Gone, published>>
  BY <1>1 DEF Over, Gone, publisherVars, relayVars
<1>6. ASSUME NEW p \in Publishers PROVE Stages'[p] = Stages[p]
  BY <1>1, <1>2, <1>4, <1>5, Homes, StageStays DEF Listed
<1>7. UNCHANGED Stages
  BY <1>6 DEF Stages
<1>8. CASE routerLoop[r] = "done"
  <2>1. UNCHANGED Asked
    BY <1>4, <1>8, Homes, AskedStays
  <2>2. r \in Gone
    BY <1>2, <1>8 DEF Gone
  <2>3. lookup' = [lookup EXCEPT ![q].state = "panicked"]
    BY <1>1, <1>8
  <2>4. Directed!Ask(q, id)
    BY <1>1, <1>5, <1>7, <2>1, <2>2, <2>3 DEF Directed!Ask, Stages, Over, Gone, Asked
  <2> QED BY <2>4 DEF Directed!Next
<1>9. CASE routerLoop[r] # "done"
  <2>1. ASSUME NEW c \in Lookups PROVE Asked'[c] = IF c = q THEN {id} ELSE Asked[c]
    <3>1. Asked[c] = {a \in Ids : In(routerQueue[RouterOf[c]], GetPublisher(c, a))}
      BY DEF View, AskedAre
    <3>2. Asked'[c] = {a \in Ids : In(routerQueue'[RouterOf[c]], GetPublisher(c, a))}
      BY DEF View, AskedAre, In
    <3>3. CASE c = q
      <4>1. \A a \in Ids : In(routerQueue'[r], GetPublisher(q, a)) <=> GetPublisher(q, a) = e
        BY <1>2, <1>3, <1>4, <1>9
      <4>2. \A a \in Ids : GetPublisher(q, a) = e <=> a = id
        BY <1>2 DEF e
      <4> QED BY <3>2, <3>3, <4>1, <4>2
    <3>4. CASE c # q
      <4>1. \A a \in Ids : GetPublisher(c, a) # e
        BY <1>2, <3>4
      <4> QED BY <1>4, <3>1, <3>2, <3>4, <4>1, Homes
    <3> QED BY <3>3, <3>4
  <2>2. Asked' = [Asked EXCEPT ![q] = {id}]
    BY <2>1 DEF Asked
  <2>3. r \notin Gone
    BY <1>9 DEF Gone
  <2>4. lookup' = [lookup EXCEPT ![q].state = "asked"]
    BY <1>1, <1>9
  <2>5. Directed!Ask(q, id)
    BY <1>1, <1>5, <1>7, <2>2, <2>3, <2>4 DEF Directed!Ask, Stages, Over, Gone, Asked
  <2> QED BY <2>5 DEF Directed!Next
<1> QED BY <1>8, <1>9

\* The router answers with one that it lists under the id, or with nobody.
LEMMA Answers ==
  ASSUME IInv, RequestsOK, View, View', NEW r \in Routers, HandleGetPublisher(r)
  PROVE  [Directed!Next]_(Directed!vars)
<1>1. PICK c \in Lookups, id \in Ids :
        /\ Head(routerQueue[r]) = GetPublisher(c, id) /\ RouterOf[c] = r
        /\ lookup[c].state = "asked"
        /\ \A a \in Ids : /\ In(routerQueue[r], GetPublisher(c, a)) <=> a = id
                          /\ ~In(routerQueue'[r], GetPublisher(c, a))
        /\ LET found == {x \in publishers[r] : IdOf[x[2]] = id} IN
             \/ found = {} /\ lookup' = [lookup EXCEPT ![c] = [state |-> "unknown", pub |-> Nobody]]
             \/ \E x \in found : lookup' = [lookup EXCEPT ![c] = [state |-> "found", pub |-> x[2]]]
  BY AnswerRequests
<1>2. /\ Next2(r, "GetPublisher") /\ Handled(r)
      /\ UNCHANGED <<routerLoop, publishers, publisherVars, relayVars>>
  BY DEF HandleGetPublisher
<1>3. UNCHANGED <<Over, Gone, published>>
  BY <1>2 DEF Over, Gone, publisherVars, relayVars
<1>4. \A u \in Routers : \A f : f # Head(routerQueue[r]) =>
        (In(routerQueue'[u], f) <=> In(routerQueue[u], f))
  BY <1>2, HandledNews, Zenon
<1>5. \A p \in Publishers : MediaPublished(p) # Head(routerQueue[r])
  BY <1>1, EventFields
<1>6. ASSUME NEW p \in Publishers PROVE Stages'[p] = Stages[p]
  BY <1>2, <1>3, <1>4, <1>5, Homes, StageStays DEF Listed
<1>7. UNCHANGED Stages
  BY <1>6 DEF Stages
<1>8. ASSUME NEW q \in Lookups PROVE Asked'[q] = IF q = c THEN {} ELSE Asked[q]
  <2>1. Asked[q] = {a \in Ids : In(routerQueue[RouterOf[q]], GetPublisher(q, a))}
    BY DEF View, AskedAre
  <2>2. Asked'[q] = {a \in Ids : In(routerQueue'[RouterOf[q]], GetPublisher(q, a))}
    BY DEF View, AskedAre, In
  <2>3. CASE q = c
    BY <1>1, <2>2, <2>3
  <2>4. CASE q # c
    <3>1. \A a \in Ids : GetPublisher(q, a) # Head(routerQueue[r])
      BY <1>1, <2>4, EventFields
    <3> QED BY <1>4, <2>1, <2>2, <2>4, <3>1, Homes
  <2> QED BY <2>3, <2>4
<1>9. Asked' = [Asked EXCEPT ![c] = {}]
  BY <1>8 DEF Asked
<1>10. Asked[c] = {id}
  BY <1>1 DEF View, AskedAre
<1> DEFINE L == {p \in Publishers : Stages[p] = "listed" /\ RouterOf[p] = RouterOf[c] /\ IdOf[p] = id}
<1>11. \A p : p \in L <=> \E x \in publishers[r] : x[2] = p /\ IdOf[x[2]] = id
  <2>1. \A x \in publishers[r] : x[2] \in Publishers /\ RouterOf[x[2]] = r
    BY DEF IInv, RouterTypes, RouterSide, AnnouncedOnce, Listed
  <2>2. \A p \in Publishers : RouterOf[p] = r =>
          (Stages[p] = "listed" <=> \E x \in publishers[r] : x[2] = p)
    BY DEF View, StagesAre, Listed
  <2> QED BY <1>1, <2>1, <2>2
<1> HIDE DEF L
<1>12. \/ L = {} /\ lookup' = [lookup EXCEPT ![c] = [state |-> "unknown", pub |-> Nobody]]
       \/ \E p \in L : lookup' = [lookup EXCEPT ![c] = [state |-> "found", pub |-> p]]
  BY <1>1, <1>11
<1>13. Directed!Answer(c, id)
  BY <1>1, <1>3, <1>7, <1>9, <1>10, <1>12
     DEF Directed!Answer, Directed!ListedAs, Stages, Over, Gone, Asked, L
<1> QED BY <1>13 DEF Directed!Next

\* Whoever was found has a track, unless it has closed.
LEMMA GetsTrack ==
  ASSUME IInv, DInv, View, View', NEW q \in Lookups, GetLocalTrack(q)
  PROVE  [Directed!Next]_(Directed!vars)
<1>1. /\ lookup[q].state = "found" /\ UNCHANGED <<routerVars, publisherVars, relayVars>>
      /\ lookup' = [lookup EXCEPT ![q].state =
                      IF localTracks[lookup[q].pub] = {} THEN "noTrack" ELSE "track"]
  BY DEF GetLocalTrack
<1>2. UNCHANGED <<Stages, Asked>>
  BY <1>1, QuietQueues DEF routerVars, publisherVars, relayVars
<1>3. UNCHANGED <<Over, Gone>>
  BY <1>1 DEF Over, Gone, routerVars, publisherVars, relayVars
<1> DEFINE p == lookup[q].pub
<1>4. p \in Publishers /\ p \in published
  BY <1>1, RegistryAssumption DEF DInv, RequestsOK, IInv, FoundArePublished
<1>5. localTracks[p] = {} <=> p \in Over
  BY <1>4 DEF DInv, TracksGone, IInv, LoopTypes, TracksOK, Over
<1>6. lookup' = [lookup EXCEPT ![q].state = IF p \in Over THEN "noTrack" ELSE "track"]
  BY <1>1, <1>5
<1>7. Directed!GetTrack(q)
  BY <1>1, <1>2, <1>3, <1>6 DEF Directed!GetTrack, Stages, Over, Gone, Asked
<1> QED BY <1>7 DEF Directed!Next

LEMMA StepDirected ==
  ASSUME IInv, IInv', DInv, [Next]_vars
  PROVE  [Directed!Next]_(Directed!vars)
<1>1. View /\ View'
  BY ViewIs, ViewIsNext
<1>2. ASSUME UNCHANGED <<routerQueue, publishers, published, lookup, Over, Gone>>
      PROVE  [Directed!Next]_(Directed!vars)
  BY <1>1, <1>2, QuietQueues, Unseen
<1>3. ASSUME NEW r \in Routers, NEW e \in RouterEvents(r), routerQueue' = Sent(r, e),
             e = Closed \/ \E d \in DataPublishers : e = DataPublished(d) \/ e = DataRemoved(d),
             UNCHANGED <<publishers, published, lookup, Over, Gone>>
      PROVE  [Directed!Next]_(Directed!vars)
  <2>1. /\ \A p \in Publishers : e # MediaPublished(p)
        /\ \A q \in Lookups, id \in Ids : e # GetPublisher(q, id)
    BY <1>3, EventFields
  <2> QED BY <1>1, <1>3, <2>1, SentView, Unseen
<1>4. CASE \/ CloseWorker \/ WorkerHandles \/ UNCHANGED vars
           \/ \E x \in Publishers \cup DataPublishers : BeginRelay(x) \/ EndRelay(x)
  BY <1>2, <1>4 DEF CloseWorker, WorkerHandles, BeginRelay, EndRelay, vars, routerVars, publisherVars,
                    Over, Gone
<1>5. ASSUME NEW r \in Routers, NewRouter(r)
      PROVE  [Directed!Next]_(Directed!vars)
  <2>1. UNCHANGED Gone
    BY <1>5 DEF NewRouter, Gone, IInv, RouterTypes
  <2> QED BY <1>2, <1>5, <2>1 DEF NewRouter, publisherVars, relayVars, Over
<1>6. ASSUME NEW r \in Routers, CloseRouter(r)
      PROVE  [Directed!Next]_(Directed!vars)
  <2>1. UNCHANGED <<Over, Gone>>
    BY <1>6 DEF CloseRouter, Over, Gone, IInv, RouterTypes, publisherVars, relayVars
  <2> QED BY <1>3, <1>6, <2>1, Homes DEF CloseRouter, publisherVars, relayVars
<1>7. ASSUME NEW r \in Routers, HandleDataPublished(r) \/ HandleDataRemoved(r)
      PROVE  [Directed!Next]_(Directed!vars)
  <2>1. /\ Handled(r) /\ UNCHANGED <<publishers, published, lookup, Over, Gone>>
        /\ Next2(r, "DataPublished") \/ Next2(r, "DataRemoved")
    BY <1>7 DEF HandleDataPublished, HandleDataRemoved, publisherVars, relayVars, Over, Gone
  <2>2. \A p \in Publishers : Head(routerQueue[r]) # MediaPublished(p)
    BY <2>1, RouterHead, EventFields
  <2>3. /\ UNCHANGED Asked
        /\ \A u \in Routers, p \in Publishers :
             In(routerQueue'[u], MediaPublished(p)) <=> In(routerQueue[u], MediaPublished(p))
    BY <1>1, <2>1, <2>2, HandledView
  <2>4. ASSUME NEW p \in Publishers PROVE Stages'[p] = Stages[p]
    BY <1>1, <2>1, <2>3, Homes, StageStays DEF Listed
  <2>5. UNCHANGED Stages
    BY <2>4 DEF Stages
  <2> QED BY <2>1, <2>3, <2>5, Unseen
<1>8. ASSUME NEW p \in Publishers,
             \/ OnTrack(p) \/ TrackEnds(p) \/ ClosePublisher(p) \/ HandleTrackOpened(p)
             \/ \E s \in Ssrcs : TrackOpens(p, s)
      PROVE  [Directed!Next]_(Directed!vars)
  <2>1. UNCHANGED <<routerVars, published, lookup>> /\ (OnTrack(p) \/ UNCHANGED loop)
    BY <1>8 DEF OnTrack, TrackEnds, ClosePublisher, HandleTrackOpened, TrackOpens
  <2>2. UNCHANGED Over
    BY <2>1 DEF OnTrack, Over, IInv, LoopTypes
  <2> QED BY <1>2, <2>1, <2>2 DEF routerVars, Gone
<1>9. ASSUME NEW d \in DataPublishers, OnDataChannel(d) \/ Announce(d) \/ DataChannelCloses(d)
      PROVE  [Directed!Next]_(Directed!vars)
  <2>1. /\ UNCHANGED <<publishers, published, lookup, Over, Gone>>
        /\ \/ routerQueue' = Sent(RouterOf[d], DataPublished(d))
           \/ routerQueue' = Sent(RouterOf[d], DataRemoved(d))
           \/ routerQueue' = routerQueue
    BY <1>9 DEF OnDataChannel, Announce, DataChannelCloses, routerVars, publisherVars, relayVars, Over, Gone
  <2> QED BY <1>2, <1>3, <2>1, Homes
<1>10. ASSUME NEW p \in Publishers, Leave(p)
       PROVE  [Directed!Next]_(Directed!vars)
  <2> DEFINE e == PublisherRemoved(p)
  <2>1. /\ routerQueue' = Sent(RouterOf[p], e) /\ loop[p] = "closing"
        /\ loop' = [loop EXCEPT ![p] = "done"]
        /\ UNCHANGED <<routerLoop, publishers, published, lookup>>
    BY <1>10 DEF Leave, Removal
  <2>2. UNCHANGED <<Over, Gone>>
    BY <2>1 DEF Over, Gone, IInv, LoopTypes
  <2>3. /\ \A u \in Publishers : e # MediaPublished(u)
        /\ \A q \in Lookups, id \in Ids : e # GetPublisher(q, id)
    BY EventFields
  <2> QED BY <1>1, <2>1, <2>2, <2>3, Homes, SentView, Unseen
<1> QED BY <1>1, <1>4, <1>5, <1>6, <1>7, <1>8, <1>9, <1>10, Announces, Lists, Removes, Closes, Stops, Asks,
           Answers, GetsTrack DEF Next, RouterHandles, PublisherHandles, DInv

LEMMA InitDirected == Init => DInv /\ Directed!Init
<1> SUFFICES ASSUME Init PROVE DInv /\ Directed!Init
  OBVIOUS
<1>1. \A r \in Routers : routerQueue[r] = << >> /\ \A f : ~In(routerQueue[r], f)
  BY DEF Init, In
<1>2. DInv
  BY <1>1, RegistryAssumption DEF Init, DInv, RequestsOK, TracksGone
<1>3. Stages = [p \in Publishers |-> "new"] /\ Over = {} /\ Gone = {}
  BY DEF Stages, Stage, Over, Gone, Init
<1>4. Asked = [q \in Lookups |-> {}]
  <2>1. \A q \in Lookups : routerQueue[RouterOf[q]] = << >>
    BY <1>1, Homes
  <2> QED BY <2>1 DEF Asked, Events
<1>5. lookup = [q \in Lookups |-> [state |-> "idle", pub |-> Nobody]]
  BY DEF Init
<1> QED BY <1>2, <1>3, <1>4, <1>5 DEF Directed!Init, Stages, Over, Gone, Asked

\* The routers, with the queues between them and the publishers, are a Directory: nobody
\* is listed twice or again, nobody leaves the list unless one of its id has closed, and
\* a lookup is told the truth, for any routers, publishers, lookups and ids, shared or not.
THEOREM DirectoryKept == Spec => KeepsDirectory
<1>1. Init => IInv /\ DInv /\ Directed!Init
  BY InitInv, InitDirected
<1>2. IInv /\ DInv /\ [Next]_vars => IInv' /\ DInv'
  BY StepInv, StepRequests, StepTracksGone DEF DInv
<1>3. IInv /\ DInv /\ [Next]_vars => [Directed!Next]_(Directed!vars)
  BY StepInv, StepDirected
<1> QED BY <1>1, <1>2, <1>3, PTL DEF Spec, KeepsDirectory, Directed!Spec

=============================================================================
