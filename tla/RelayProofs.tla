-------------------------------- MODULE RelayProofs --------------------------------
(***************************************************************************)
(* For any publishers, routers, tracks and calls of relay_to: the router's *)
(* list and the relay server's agree, a publisher that sends packets has   *)
(* somebody to receive them, and one that closed leaves every router.      *)
(***************************************************************************)
EXTENDS Relay, TLAPS

Events == Ssrcs \cup {Close}
Asked == Nat \X Events \X Routers
Jobs ==
  [kind : {"idle", "relay", "added", "close"}, to : Routers \cup {NoTarget},
   state : {"ask", "sent", "answered"}, todo : SUBSET Asked, ask : Asked \cup {<< >>},
   reply : {"none", "ok", "error"}]

\* The publisher's variables.
SourceTypes ==
  /\ localTracks \in [Publishers -> SUBSET Ssrcs]
  /\ mail \in [Publishers -> Seq(Events)]
  /\ loop \in [Publishers -> {"running", "done"}]
  /\ job \in [Publishers -> Jobs]
  /\ targets \in [Publishers -> Seq(Routers)]
  /\ relayedTo \in [Publishers -> [Ssrcs -> Routers \cup {NoTarget}]]
  /\ senders \in [Publishers -> [Ssrcs \X Routers -> Nat]]

\* The target server's.
TargetTypes ==
  /\ server \in {"up", "stuck", "panicked", "stopped"}
  /\ entries \subseteq Routers
  /\ served \in [Routers -> SUBSET Publishers]
  /\ listed \in [Routers -> SUBSET Publishers]
  /\ rtp \in [Routers -> {"none", "starting", "running", "dead"}]
  /\ router \in [Routers -> {"open", "closed", "forgotten"}]
  /\ inbox \in [Pairs -> Seq(Events)]
  /\ relayed \in [Pairs -> SUBSET Events]
  /\ \A x \in Pairs : relayed[x] \subseteq Ssrcs \/ relayed[x] = {Close}

\* What a job asks for: relays are of tracks, and relay_to knows its target.
OfTracks == Nat \X Ssrcs \X Routers
JobOK(j) ==
  /\ j.kind = "relay" => j.to \in Routers
  /\ j.kind \in {"relay", "added"} => j.todo \subseteq OfTracks
  /\ j.kind # "idle" /\ j.state # "ask" =>
       /\ j.ask \in Asked
       /\ j.kind \in {"relay", "added"} => j.ask \in OfTracks
JobsOK == \A p \in Publishers : JobOK(job[p])

\* An entry of the relay server is never empty.
Entered == server # "panicked" => entries = {r \in Routers : served[r] # {}}

\* A publisher that handles Close or has handled it relays nothing any more.
Over(p) == job[p].kind = "close" \/ loop[p] = "done"
OverIsSilent ==
  \A p \in Publishers : Over(p) =>
    /\ ~Relays(p) /\ localTracks[p] = {}
    /\ \A s \in Ssrcs, r \in Routers : senders[p][<<s, r>>] = 0

\* A RelayedPublisher is told to close by its publisher, its router or its server.
Open(r) == router[r] = "open" /\ server # "stopped"
CloseSaid(x) == relayed[x] = {Close} \/ Contains(inbox[x], Close)
ClosedByAReason ==
  \A p \in Publishers, r \in Routers : CloseSaid(<<p, r>>) /\ Open(r) => Over(p)

\* What a sender loop needs at the target.
There(p, s, r) ==
  /\ p \in served[r] /\ rtp[r] # "none"
  /\ s \in relayed[<<p, r>>] \/ Contains(inbox[<<p, r>>], s)

\* A reply with a port is only given where it is.
PortIsThere ==
  \A p \in Publishers :
    Relays(p) /\ job[p].state = "answered" /\ job[p].reply = "ok" /\ Open(job[p].ask[3]) =>
      There(p, job[p].ask[2], job[p].ask[3])

\* relay_to asks its one target, TrackAdded the targets that are remembered.
Remembers(p, r) == \E i \in 1 .. Len(targets[p]) : targets[p][i] = r
Aimed(p, j, r) == IF j.kind = "relay" THEN j.to = r ELSE Remembers(p, r)
JobAims(p, j) ==
  j.kind \in {"relay", "added"} =>
    /\ \A q \in j.todo : Aimed(p, j, q[3])
    /\ j.state # "ask" => Aimed(p, j, j.ask[3])
JobsAim == \A p \in Publishers : JobAims(p, job[p])

\* A router does not have the publisher, or is gone, or never got a UDP server for it.
Gone(p, r) == p \notin listed[r] \/ router[r] # "open" \/ server # "up" \/ rtp[r] = "none"

\* The publisher will tell a router that has it: it knows the router, and once closed
\* it has the removal still to ask for.
Knows(p, j, r) == Remembers(p, r) \/ (j.kind = "relay" /\ j.to = r)
Removes(j, r) ==
  (\E i \in Nat : <<i, Close, r>> \in j.todo) \/ (j.state = "sent" /\ j.ask[3] = r)
WillTell(p, j, r) ==
  loop[p] # "done" /\ IF j.kind = "close" THEN Removes(j, r) ELSE Knows(p, j, r)
Failed(p, r) ==
  Relays(p) /\ job[p].state = "answered" /\ job[p].reply # "ok" /\ job[p].ask[3] = r
RemovalsGo ==
  \A p \in Publishers, r \in Routers :
    /\ ~Gone(p, r) => WillTell(p, job[p], r)
    /\ Failed(p, r) => Gone(p, r)

\* What the properties need of the source's steps and of the target's.
AtSource == SourceTypes /\ JobsOK /\ JobsAim /\ OverIsSilent
AtTarget == TargetTypes /\ Entered /\ OneView
Between == ClosedByAReason /\ ForwardedIsReceived /\ PortIsThere /\ RemovalsGo
RInv == AtSource /\ AtTarget /\ Between

\* The initial state satisfies it.
LEMMA InitRelay == Init => RInv
<1> SUFFICES ASSUME Init PROVE RInv
  OBVIOUS
<1>1. << >> \in Seq(Events) /\ << >> \in Seq(Routers) /\ Len(<< >>) = 0
  OBVIOUS
<1>2. Idle \in Jobs /\ Idle.kind = "idle"
  BY DEF Idle, Jobs
<1>3. SourceTypes
  BY <1>1, <1>2 DEF Init, SourceTypes
<1>4. \A p \in Publishers : job[p] = Idle /\ loop[p] = "running" /\ targets[p] = << >>
  BY DEF Init
<1>5. JobsOK /\ JobsAim /\ OverIsSilent
  BY <1>2, <1>4 DEF JobsOK, JobOK, JobsAim, JobAims, OverIsSilent, Relays, Over
<1>6. TargetTypes /\ Entered /\ OneView
  BY <1>1 DEF Init, TargetTypes, Entered, OneView
<1>7. \A x \in Pairs : relayed[x] = {} /\ inbox[x] = << >>
  BY DEF Init
<1>8. \A x \in Pairs : ~CloseSaid(x)
  BY <1>1, <1>7 DEF CloseSaid, Contains
<1>9. ClosedByAReason
  BY <1>8 DEF ClosedByAReason, Pairs
<1>10. ForwardedIsReceived
  BY DEF Init, ForwardedIsReceived
<1>11. PortIsThere /\ RemovalsGo
  <2>1. \A r \in Routers : listed[r] = {}
    BY DEF Init
  <2> QED BY <1>2, <1>4, <2>1 DEF PortIsThere, RemovalsGo, Relays, Gone, Failed
<1> QED BY <1>3, <1>5, <1>6, <1>9, <1>10, <1>11 DEF RInv, AtSource, AtTarget, Between

-----------------------------------------------------------------------------
(* The publisher's steps *)

\* Its steps change nothing at the target but what the publisher may expect of it.
LEMMA SourceStep ==
  ASSUME RInv, target' = target, AtSource',
         \A p \in Publishers : Over(p) => Over(p)',
         ForwardedIsReceived', PortIsThere', RemovalsGo'
  PROVE  RInv'
<1>1. AtTarget'
  BY DEF RInv, target, registry, AtTarget, TargetTypes, Entered, OneView
<1>2. ClosedByAReason'
  BY DEF RInv, Between, target, ClosedByAReason, CloseSaid, Open
<1> QED BY <1>1, <1>2 DEF RInv, Between

\* A step that leaves jobs, sender loops and targets alone.
LEMMA QuietStep ==
  ASSUME RInv, target' = target, SourceTypes', UNCHANGED <<loop, job, targets, senders>>,
         \A q \in Publishers : Over(q) => localTracks'[q] = localTracks[q]
  PROVE  RInv'
<1>1. AtSource' /\ \A p \in Publishers : Over(p) => Over(p)'
  BY DEF RInv, AtSource, JobsOK, JobsAim, JobAims, Aimed, Remembers, OverIsSilent, Over, Relays
<1>2. ForwardedIsReceived' /\ PortIsThere'
  BY DEF RInv, Between, target, registry, ForwardedIsReceived, PortIsThere, Relays, Open, There
<1>3. RemovalsGo'
  BY DEF RInv, Between, target, registry, RemovalsGo, Relays, Gone, Failed, WillTell, Knows,
     Remembers
<1> QED BY <1>1, <1>2, <1>3, SourceStep

\* A track opens, or somebody closes the publisher: an event is queued.
LEMMA EventsInv ==
  ASSUME RInv, NEW p \in Publishers,
         ClosePublisher(p) \/ \E s \in Ssrcs : TrackOpens(p, s)
  PROVE  RInv'
<1>1. PICK e \in Events, s \in SUBSET Ssrcs :
        /\ mail' = [mail EXCEPT ![p] = Append(@, e)]
        /\ localTracks' = [localTracks EXCEPT ![p] = @ \cup s]
        /\ UNCHANGED <<loop, job, targets, relayedTo, senders, target>>
        /\ Over(p) => s = {}
  <2>1. ASSUME NEW s \in Ssrcs, TrackOpens(p, s)
        PROVE  /\ mail' = [mail EXCEPT ![p] = Append(@, s)]
               /\ localTracks' = [localTracks EXCEPT ![p] = @ \cup {s}]
               /\ UNCHANGED <<loop, job, targets, relayedTo, senders, target>>
               /\ s \in Events /\ {s} \in SUBSET Ssrcs /\ ~Over(p)
    BY <2>1 DEF TrackOpens, Events, Over, Free
  <2>2. ASSUME ClosePublisher(p)
        PROVE  /\ mail' = [mail EXCEPT ![p] = Append(@, Close)]
               /\ localTracks' = [localTracks EXCEPT ![p] = @ \cup {}]
               /\ UNCHANGED <<loop, job, targets, relayedTo, senders, target>>
               /\ Close \in Events /\ {} \in SUBSET Ssrcs
    BY <2>2 DEF ClosePublisher, Events, RInv, AtSource, SourceTypes
  <2> QED BY <2>1, <2>2
<1>2. Append(mail[p], e) \in Seq(Events)
  BY DEF RInv, AtSource, SourceTypes
<1>3. SourceTypes'
  BY <1>1, <1>2 DEF RInv, AtSource, SourceTypes
<1>4. \A q \in Publishers : Over(q) => localTracks'[q] = localTracks[q]
  BY <1>1 DEF RInv, AtSource, SourceTypes
<1> QED BY <1>1, <1>3, <1>4, QuietStep

\* The publisher's job changes, and is still one that can be.
LEMMA JobStep ==
  ASSUME RInv, target' = target, SourceTypes', UNCHANGED <<loop, targets, localTracks>>,
         NEW p \in Publishers, NEW j, job' = [job EXCEPT ![p] = j], JobOK(j), JobAims(p, j),
         \A q \in Publishers : Over(q) => senders'[q] = senders[q], ForwardedIsReceived',
         job[p].kind = "close" <=> j.kind = "close",
         loop[p] = "done" => j.kind \notin {"relay", "added"},
         j.kind # "idle" => j.state # "answered",
         \A r \in Routers : ~Gone(p, r) => WillTell(p, j, r)
  PROVE  RInv'
<1>1. job'[p] = j /\ \A q \in Publishers \ {p} : job'[q] = job[q]
  BY DEF RInv, AtSource, SourceTypes
<1>2. \A q \in Publishers : Over(q) <=> Over(q)'
  BY <1>1 DEF Over
<1>3. JobsOK' /\ JobsAim'
  BY <1>1 DEF RInv, AtSource, JobsOK, JobsAim, JobAims, Aimed, Remembers
<1>4. OverIsSilent'
  BY <1>1, <1>2 DEF RInv, AtSource, OverIsSilent, Relays, Over
<1>5. PortIsThere'
  <2> SUFFICES ASSUME NEW q \in Publishers,
                      (Relays(q) /\ job[q].state = "answered" /\ job[q].reply = "ok"
                       /\ Open(job[q].ask[3]))'
               PROVE  There(q, job[q].ask[2], job[q].ask[3])'
    BY DEF PortIsThere
  <2>1. q # p /\ job'[q] = job[q]
    BY <1>1 DEF Relays
  <2> QED BY <2>1 DEF RInv, Between, PortIsThere, Relays, Open, There, target, registry
<1>6. RemovalsGo'
  <2>1. \A q \in Publishers, r \in Routers :
          /\ Gone(q, r) <=> Gone(q, r)'
          /\ WillTell(q, job'[q], r) <=> WillTell(q, job[q], r)'
          /\ Failed(q, r)' => Failed(q, r)
    BY <1>1 DEF Gone, WillTell, Knows, Remembers, Failed, Relays, target, registry
  <2> QED BY <1>1, <2>1 DEF RInv, Between, RemovalsGo
<1> QED BY <1>2, <1>3, <1>4, <1>5, <1>6, SourceStep DEF AtSource

\* No sender loop begins, and the target is as it was.
LEMMA SendersStay ==
  ASSUME RInv, target' = target, UNCHANGED senders
  PROVE  ForwardedIsReceived'
BY DEF RInv, Between, ForwardedIsReceived, target, registry

\* A target's request names the publisher's own position, track and router.
LEMMA TargetsAsked ==
  ASSUME RInv, NEW p \in Publishers, NEW e \in Events
  PROVE  /\ ToTargets(p, e) \subseteq Asked
         /\ e # Close => ToTargets(p, e) \subseteq OfTracks
         /\ \A q \in ToTargets(p, e) : Remembers(p, q[3])
         /\ \A i \in 1 .. Len(targets[p]) : <<i, e, targets[p][i]>> \in ToTargets(p, e)
<1>1. targets[p] \in Seq(Routers) /\ DOMAIN targets[p] = 1 .. Len(targets[p])
  BY DEF RInv, AtSource, SourceTypes
<1>2. \A i \in DOMAIN targets[p] : i \in Nat /\ targets[p][i] \in Routers
  BY <1>1
<1>3. ASSUME NEW q \in ToTargets(p, e)
      PROVE  q \in Asked /\ (e # Close => q \in OfTracks) /\ Remembers(p, q[3])
  <2>1. PICK i \in DOMAIN targets[p] : q = <<i, e, targets[p][i]>>
    BY <1>3 DEF ToTargets
  <2> QED BY <2>1, <1>1, <1>2 DEF Asked, OfTracks, Events, Remembers
<1>4. \A i \in 1 .. Len(targets[p]) : <<i, e, targets[p][i]>> \in ToTargets(p, e)
  BY <1>1 DEF ToTargets
<1> QED BY <1>3, <1>4

\* The type of a job that Job makes, and its fields.
LEMMA JobMade ==
  ASSUME NEW kind \in {"relay", "added", "close"}, NEW todo \in SUBSET Asked
  PROVE  /\ Job(kind, todo) \in Jobs
         /\ Job(kind, todo).kind = kind /\ Job(kind, todo).todo = todo
         /\ Job(kind, todo).state = "ask"
BY DEF Job, Idle, Jobs

\* A publisher whose mutex is free remembers every router that has it.
LEMMA FreeRemembers ==
  ASSUME RInv, NEW p \in Publishers, Free(p), NEW r \in Routers, ~Gone(p, r)
  PROVE  loop[p] # "done" /\ Remembers(p, r)
BY DEF RInv, Between, RemovalsGo, WillTell, Knows, Free

\* TrackAdded is handled: a job for every target, if there is one.
LEMMA TrackAddedInv ==
  ASSUME RInv, NEW p \in Publishers, HandleTrackAdded(p)
  PROVE  RInv'
<1> DEFINE e == Head(mail[p])
           j == Job("added", ToTargets(p, e))
<1>1. e \in Events /\ e # Close /\ Tail(mail[p]) \in Seq(Events)
  <2>1. mail[p] \in Seq(Events) /\ mail[p] # << >>
    BY DEF RInv, AtSource, SourceTypes, HandleTrackAdded
  <2> QED BY <2>1 DEF HandleTrackAdded
<1>2. /\ ToTargets(p, e) \subseteq Asked /\ ToTargets(p, e) \subseteq OfTracks
      /\ \A q \in ToTargets(p, e) : Remembers(p, q[3])
  BY <1>1, TargetsAsked
<1>3. j \in Jobs /\ j.kind = "added" /\ j.todo = ToTargets(p, e) /\ j.state = "ask"
  BY <1>2, JobMade
<1> HIDE DEF j
<1>4. UNCHANGED <<localTracks, loop, targets, relayedTo, senders>> /\ target' = target
  BY DEF HandleTrackAdded
<1>5. mail' = [mail EXCEPT ![p] = Tail(@)]
  BY DEF HandleTrackAdded
<1>6. CASE targets[p] = << >>
  <2>1. job' = job
    BY <1>6 DEF HandleTrackAdded
  <2>2. SourceTypes'
    BY <1>1, <1>4, <1>5, <2>1 DEF RInv, AtSource, SourceTypes
  <2> QED BY <1>4, <2>1, <2>2, QuietStep
<1>7. CASE targets[p] # << >>
  <2>1. job' = [job EXCEPT ![p] = j]
    BY <1>7 DEF HandleTrackAdded, j
  <2>2. SourceTypes'
    BY <1>1, <1>3, <1>4, <1>5, <2>1 DEF RInv, AtSource, SourceTypes
  <2>3. JobOK(j)
    BY <1>2, <1>3 DEF JobOK
  <2>4. job[p].kind # "close" /\ loop[p] # "done" /\ Free(p)
    BY DEF HandleTrackAdded, Free
  <2>5. JobAims(p, j)
    BY <1>2, <1>3 DEF JobAims, Aimed
  <2>6. \A r \in Routers : ~Gone(p, r) => WillTell(p, j, r)
    BY <1>3, <2>4, FreeRemembers DEF WillTell, Knows
  <2> QED BY <1>3, <1>4, <2>1, <2>2, <2>3, <2>4, <2>5, <2>6, JobStep, SendersStay
<1> QED BY <1>6, <1>7

\* relay_to is called.
LEMMA RelayToInv ==
  ASSUME RInv, NEW p \in Publishers, NEW r \in Routers, RelayTo(p, r)
  PROVE  RInv'
<1> DEFINE todo == {<<0, s, r>> : s \in localTracks[p]}
           j == [Job("relay", todo) EXCEPT !.to = r]
<1>1. todo \subseteq OfTracks /\ todo \subseteq Asked
  BY DEF RInv, AtSource, SourceTypes, OfTracks, Asked, Events
<1>2. j \in Jobs /\ j.kind = "relay" /\ j.todo = todo /\ j.state = "ask" /\ j.to = r
  <2> HIDE DEF todo
  <2> QED BY <1>1, JobMade DEF Jobs
<1>3. job' = [job EXCEPT ![p] = j]
  BY DEF RelayTo
<1> HIDE DEF j, todo
<1>4. UNCHANGED <<localTracks, mail, loop, targets, relayedTo, senders>> /\ target' = target
  BY DEF RelayTo
<1>5. SourceTypes'
  BY <1>2, <1>3, <1>4 DEF RInv, AtSource, SourceTypes
<1>6. JobOK(j)
  BY <1>1, <1>2 DEF JobOK
<1>7. job[p].kind # "close" /\ loop[p] # "done" /\ Free(p)
  BY DEF RelayTo, Free, RInv, AtSource, OverIsSilent, Over
<1>8. JobAims(p, j)
  BY <1>2 DEF JobAims, Aimed, todo
<1>9. \A u \in Routers : ~Gone(p, u) => WillTell(p, j, u)
  BY <1>2, <1>7, FreeRemembers DEF WillTell, Knows
<1> QED BY <1>2, <1>3, <1>4, <1>5, <1>6, <1>7, <1>8, <1>9, JobStep, SendersStay

\* relay_to finds no track: one more target is remembered.
LEMMA RelayNothingInv ==
  ASSUME RInv, NEW p \in Publishers, NEW r \in Routers, RelayNothing(p, r)
  PROVE  RInv'
<1>1. /\ targets' = [targets EXCEPT ![p] = Append(@, r)] /\ Free(p)
      /\ UNCHANGED <<localTracks, mail, loop, job, relayedTo, senders>> /\ target' = target
  BY DEF RelayNothing
<1>2. targets[p] \in Seq(Routers) /\ Append(targets[p], r) \in Seq(Routers)
  BY DEF RInv, AtSource, SourceTypes
<1>3. /\ targets'[p] = Append(targets[p], r)
      /\ \A q \in Publishers \ {p} : targets'[q] = targets[q]
  BY <1>1 DEF RInv, AtSource, SourceTypes
<1>4. SourceTypes'
  BY <1>1, <1>2 DEF RInv, AtSource, SourceTypes
<1>5. \A q \in Publishers, u \in Routers : Remembers(q, u) => Remembers(q, u)'
  <2>1. \A u \in Routers : Remembers(p, u) => Remembers(p, u)'
    BY <1>2, <1>3 DEF Remembers
  <2> QED BY <1>3, <2>1 DEF Remembers
<1>6. JobsOK' /\ OverIsSilent' /\ \A q \in Publishers : Over(q) => Over(q)'
  BY <1>1 DEF RInv, AtSource, JobsOK, OverIsSilent, Over, Relays
<1>7. JobsAim'
  <2>1. \A q \in Publishers : q # p => JobAims(q, job[q])'
    BY <1>1, <1>3 DEF RInv, AtSource, JobsAim, JobAims, Aimed, Remembers
  <2>2. JobAims(p, job[p])'
    BY <1>1 DEF JobAims, Free
  <2> QED BY <2>1, <2>2 DEF JobsAim
<1>8. ForwardedIsReceived' /\ PortIsThere'
  BY <1>1 DEF RInv, Between, target, registry, ForwardedIsReceived, PortIsThere, Relays, Open, There
<1>9. RemovalsGo'
  <2>1. \A q \in Publishers, u \in Routers :
          /\ Gone(q, u) <=> Gone(q, u)'
          /\ WillTell(q, job[q], u) => WillTell(q, job[q], u)'
          /\ Failed(q, u)' => Failed(q, u)
    BY <1>1, <1>5 DEF Gone, WillTell, Knows, Failed, Relays, target, registry
  <2> QED BY <2>1 DEF RInv, Between, RemovalsGo
<1> QED BY <1>1, <1>4, <1>6, <1>7, <1>8, <1>9, SourceStep DEF AtSource

\* A request is written.
LEMMA AskInv ==
  ASSUME RInv, NEW p \in Publishers, Ask(p)
  PROVE  RInv'
<1>1. PICK q \in job[p].todo :
        job' = [job EXCEPT ![p].state = "sent", ![p].ask = q, ![p].todo = @ \ {q}]
  BY DEF Ask
<1> DEFINE j == [job[p] EXCEPT !.state = "sent", !.ask = q, !.todo = @ \ {q}]
<1>2. job[p] \in Jobs /\ job[p].kind # "idle" /\ job[p].state = "ask" /\ q \in Asked
  BY DEF RInv, AtSource, SourceTypes, Jobs, Ask, Asking
<1>3. job' = [job EXCEPT ![p] = j]
  BY <1>1, <1>2 DEF RInv, AtSource, SourceTypes, Jobs
<1>4. /\ j \in Jobs /\ j.kind = job[p].kind /\ j.to = job[p].to /\ j.todo = job[p].todo \ {q}
      /\ j.state = "sent" /\ j.ask = q
  BY <1>2 DEF Jobs
<1> HIDE DEF j
<1>5. UNCHANGED <<localTracks, mail, loop, targets, relayedTo, senders>> /\ target' = target
  BY DEF Ask
<1>6. SourceTypes'
  BY <1>3, <1>4, <1>5 DEF RInv, AtSource, SourceTypes
<1>7. JobOK(job[p])
  BY DEF RInv, AtSource, JobsOK
<1>8. JobOK(j)
  BY <1>2, <1>4, <1>7 DEF JobOK
<1>9. loop[p] = "done" => j.kind \notin {"relay", "added"}
  BY <1>4 DEF RInv, AtSource, OverIsSilent, Over, Relays
<1>10. JobAims(p, j)
  BY <1>1, <1>2, <1>4 DEF RInv, AtSource, JobsAim, JobAims, Aimed
<1>11. ASSUME NEW r \in Routers, ~Gone(p, r) PROVE WillTell(p, j, r)
  <2>1. WillTell(p, job[p], r)
    BY <1>11 DEF RInv, Between, RemovalsGo
  <2> QED BY <1>2, <1>4, <2>1 DEF WillTell, Knows, Removes
<1> QED BY <1>3, <1>4, <1>5, <1>6, <1>8, <1>9, <1>10, <1>11, JobStep, SendersStay

\* The job that goes on with its next request can be.
LEMMA GoesOn ==
  ASSUME RInv, NEW p \in Publishers, Answered(p)
  PROVE  /\ Going(p) \in Jobs /\ JobOK(Going(p))
         /\ Going(p).kind = job[p].kind /\ Going(p).state = "ask" /\ Going(p).todo = job[p].todo
         /\ loop[p] = "done" => ~Relays(p)
         /\ JobAims(p, Going(p))
         /\ \A r \in Routers : ~Gone(p, r) => WillTell(p, Going(p), r)
<1>1. job[p] \in Jobs /\ JobOK(job[p]) /\ job[p].state = "answered"
  BY DEF RInv, AtSource, SourceTypes, JobsOK, Answered
<1>2. /\ Going(p) \in Jobs /\ Going(p).kind = job[p].kind /\ Going(p).to = job[p].to
      /\ Going(p).todo = job[p].todo /\ Going(p).state = "ask"
  BY <1>1 DEF Jobs, Going
<1>3. JobOK(Going(p))
  BY <1>1, <1>2 DEF JobOK
<1>4. loop[p] = "done" => ~Relays(p)
  BY DEF RInv, AtSource, OverIsSilent, Over
<1>5. JobAims(p, Going(p))
  BY <1>2 DEF RInv, AtSource, JobsAim, JobAims, Aimed
<1>6. ASSUME NEW r \in Routers, ~Gone(p, r) PROVE WillTell(p, Going(p), r)
  <2>1. WillTell(p, job[p], r)
    BY <1>6 DEF RInv, Between, RemovalsGo
  <2> QED BY <1>1, <1>2, <2>1 DEF WillTell, Knows, Removes
<1> QED BY <1>2, <1>3, <1>4, <1>5, <1>6

\* What the steps that take an answer have in common.
LEMMA NextRequestInv ==
  ASSUME RInv, NEW p \in Publishers, Answered(p), NextRequest(p),
         UNCHANGED <<localTracks, mail, loop, targets, calls, target>>,
         relayedTo' \in [Publishers -> [Ssrcs -> Routers \cup {NoTarget}]],
         senders' \in [Publishers -> [Ssrcs \X Routers -> Nat]],
         \A q \in Publishers : Over(q) => senders'[q] = senders[q], ForwardedIsReceived'
  PROVE  RInv'
<1>1. job' = [job EXCEPT ![p] = Going(p)]
  BY DEF NextRequest
<1>2. SourceTypes'
  BY <1>1, GoesOn DEF RInv, AtSource, SourceTypes
<1>3. loop[p] = "done" => Going(p).kind \notin {"relay", "added"}
  BY GoesOn DEF Relays
<1> QED BY <1>1, <1>2, <1>3, GoesOn, JobStep

\* A port came back, from a target that is ready for packets.
LEMMA StartSenderInv ==
  ASSUME RInv, NEW p \in Publishers, StartSender(p)
  PROVE  RInv'
<1>1. PICK s, r : s = job[p].ask[2] /\ r = job[p].ask[3]
  OBVIOUS
<1>2. s \in Ssrcs /\ r \in Routers
  BY <1>1 DEF RInv, AtSource, JobsOK, JobOK, OfTracks, StartSender, Answered, Relays
<1>3. relayedTo' = [relayedTo EXCEPT ![p][s] = r]
  BY <1>1 DEF StartSender
<1>4. senders' = senders \/ senders' = [senders EXCEPT ![p][<<s, r>>] = @ + 1]
  BY <1>1 DEF StartSender
<1>5. /\ relayedTo \in [Publishers -> [Ssrcs -> Routers \cup {NoTarget}]]
      /\ senders \in [Publishers -> [Ssrcs \X Routers -> Nat]]
  BY DEF RInv, AtSource, SourceTypes
<1>6. /\ relayedTo' \in [Publishers -> [Ssrcs -> Routers \cup {NoTarget}]]
      /\ senders' \in [Publishers -> [Ssrcs \X Routers -> Nat]]
  <2>1. relayedTo[p] \in [Ssrcs -> Routers \cup {NoTarget}]
    BY <1>5
  <2>2. [relayedTo[p] EXCEPT ![s] = r] \in [Ssrcs -> Routers \cup {NoTarget}]
    BY <1>2, <2>1
  <2>3. relayedTo' \in [Publishers -> [Ssrcs -> Routers \cup {NoTarget}]]
    BY <1>3, <1>5, <2>2
  <2>4. senders[p] \in [Ssrcs \X Routers -> Nat] /\ <<s, r>> \in Ssrcs \X Routers
    BY <1>2, <1>5
  <2>5. [senders[p] EXCEPT ![<<s, r>>] = @ + 1] \in [Ssrcs \X Routers -> Nat]
    BY <2>4
  <2>6. senders' \in [Publishers -> [Ssrcs \X Routers -> Nat]]
    BY <1>4, <1>5, <2>5
  <2> QED BY <2>3, <2>6
<1>7. \A q \in Publishers : Over(q) => senders'[q] = senders[q]
  <2>1. ~Over(p)
    BY DEF RInv, AtSource, OverIsSilent, StartSender
  <2> QED BY <1>4, <1>5, <2>1
<1>8. Open(r) => There(p, s, r)
  BY <1>1 DEF RInv, Between, PortIsThere, StartSender, Answered, GotPort
<1>9. ForwardedIsReceived'
  <2> SUFFICES ASSUME NEW q \in Publishers, NEW t \in Ssrcs, NEW u \in Routers,
                      senders'[q][<<t, u>>] > 0, Open(u)
               PROVE  There(q, t, u)
    BY DEF ForwardedIsReceived, There, Open, StartSender, target, registry
  <2>1. CASE senders[q][<<t, u>>] > 0
    BY <2>1 DEF RInv, Between, ForwardedIsReceived, There, Open
  <2>2. CASE ~(senders[q][<<t, u>>] > 0)
    <3>1. q = p /\ t = s /\ u = r
      BY <1>2, <1>4, <1>5, <2>2
    <3> QED BY <3>1, <1>8
  <2> QED BY <2>1, <2>2
<1>10. Answered(p) /\ NextRequest(p) /\ UNCHANGED <<localTracks, mail, loop, targets, calls, target>>
  BY DEF StartSender
<1> QED BY <1>6, <1>7, <1>9, <1>10, NextRequestInv

\* Another answer came back.
LEMMA RelayFailsInv ==
  ASSUME RInv, NEW p \in Publishers, RelayFails(p) \/ RemovalAnswered(p)
  PROVE  RInv'
<1>1. /\ Answered(p) /\ UNCHANGED <<localTracks, mail, loop, targets, relayedTo, senders, calls>>
      /\ target' = target
  BY DEF RelayFails, RemovalAnswered
<1>2. CASE NextRequest(p)
  BY <1>1, <1>2, NextRequestInv, SendersStay DEF RInv, AtSource, SourceTypes
<1>3. CASE job' = [job EXCEPT ![p] = Idle] /\ job[p].kind = "relay"
  <2>1. Idle \in Jobs /\ Idle.kind = "idle" /\ JobOK(Idle)
    BY DEF Idle, Jobs, JobOK
  <2>2. SourceTypes'
    BY <1>1, <1>3, <2>1 DEF RInv, AtSource, SourceTypes
  <2>3. ~GotPort(p) /\ Relays(p)
    BY <1>3 DEF RelayFails, RemovalAnswered
  <2>4. JobAims(p, Idle)
    BY <2>1 DEF JobAims
  <2>5. ASSUME NEW r \in Routers, ~Gone(p, r) PROVE WillTell(p, Idle, r)
    <3>1. WillTell(p, job[p], r) /\ ~Failed(p, r)
      BY <2>5 DEF RInv, Between, RemovalsGo
    <3>2. job[p].to # r
      BY <1>1, <1>3, <2>3, <3>1
         DEF RInv, AtSource, JobsAim, JobAims, Aimed, Failed, GotPort, Answered
    <3> QED BY <1>3, <2>1, <3>1, <3>2 DEF WillTell, Knows
  <2> QED BY <1>1, <1>3, <2>1, <2>2, <2>4, <2>5, JobStep, SendersStay
<1> QED BY <1>2, <1>3 DEF RelayFails, RemovalAnswered

\* Close is handled: no loop sends any more, and every target is to be asked.
LEMMA HandleCloseInv ==
  ASSUME RInv, NEW p \in Publishers, HandleClose(p)
  PROVE  RInv'
<1> DEFINE j == Job("close", ToTargets(p, Close))
<1>1. /\ j \in Jobs /\ j.kind = "close" /\ j.state = "ask" /\ j.todo = ToTargets(p, Close)
      /\ \A i \in 1 .. Len(targets[p]) : <<i, Close, targets[p][i]>> \in j.todo
  <2>1. Close \in Events
    BY DEF Events
  <2>2. /\ ToTargets(p, Close) \in SUBSET Asked
        /\ \A i \in 1 .. Len(targets[p]) : <<i, Close, targets[p][i]>> \in ToTargets(p, Close)
    BY <2>1, TargetsAsked
  <2> QED BY <2>2, JobMade
<1>2. job' = [job EXCEPT ![p] = j]
  BY DEF HandleClose
<1> HIDE DEF j
<1>3. /\ mail' = [mail EXCEPT ![p] = << >>] /\ localTracks' = [localTracks EXCEPT ![p] = {}]
      /\ senders' = [senders EXCEPT ![p] = [x \in Ssrcs \X Routers |-> 0]]
      /\ UNCHANGED <<loop, targets, relayedTo>> /\ target' = target /\ loop[p] = "running"
      /\ Free(p)
  BY DEF HandleClose
<1>4. << >> \in Seq(Events)
  OBVIOUS
<1>5. SourceTypes'
  BY <1>1, <1>2, <1>3, <1>4 DEF RInv, AtSource, SourceTypes
<1>6. \A q \in Publishers \ {p} : job'[q] = job[q] /\ senders'[q] = senders[q]
  BY <1>2, <1>3 DEF RInv, AtSource, SourceTypes
<1>7. job'[p] = j /\ \A x \in Ssrcs \X Routers : senders'[p][x] = 0
  BY <1>2, <1>3 DEF RInv, AtSource, SourceTypes
<1>8. JobsOK' /\ JobsAim'
  BY <1>1, <1>3, <1>6, <1>7
     DEF RInv, AtSource, JobsOK, JobOK, JobsAim, JobAims, Aimed, Remembers
<1>9. OverIsSilent'
  <2>1. /\ localTracks'[p] = {}
        /\ \A q \in Publishers \ {p} : localTracks'[q] = localTracks[q]
    BY <1>3 DEF RInv, AtSource, SourceTypes
  <2> QED BY <1>1, <1>3, <1>6, <1>7, <2>1 DEF RInv, AtSource, OverIsSilent, Over, Relays
<1>10. \A q \in Publishers : Over(q) => Over(q)'
  BY <1>1, <1>3, <1>6, <1>7 DEF Over
<1>11. ForwardedIsReceived'
  BY <1>3, <1>6, <1>7 DEF RInv, Between, ForwardedIsReceived, target, registry
<1>12. PortIsThere'
  BY <1>1, <1>3, <1>6, <1>7
     DEF RInv, Between, PortIsThere, Relays, Open, There, target, registry
<1>13. RemovalsGo'
  <2> SUFFICES ASSUME NEW q \in Publishers, NEW r \in Routers
               PROVE  /\ ~Gone(q, r) => WillTell(q, job[q], r)'
                      /\ Failed(q, r)' => Gone(q, r)
    BY <1>3 DEF RemovalsGo, Gone, target, registry
  <2>1. CASE q # p
    BY <1>3, <1>6, <2>1
       DEF RInv, Between, RemovalsGo, WillTell, Knows, Remembers, Failed, Relays
  <2>2. CASE q = p
    <3>1. ASSUME ~Gone(p, r) PROVE Removes(j, r)
      <4>1. PICK i \in 1 .. Len(targets[p]) : targets[p][i] = r
        BY <1>3, <3>1, FreeRemembers DEF Remembers
      <4> QED BY <1>1, <4>1 DEF Removes
    <3> QED BY <1>1, <1>3, <1>7, <2>2, <3>1 DEF WillTell, Failed, Relays
  <2> QED BY <2>1, <2>2
<1> QED BY <1>3, <1>5, <1>8, <1>9, <1>10, <1>11, <1>12, <1>13, SourceStep DEF AtSource

\* A job ends: the target is remembered, or the event loop is done.
LEMMA FinishInv ==
  ASSUME RInv, NEW p \in Publishers, Finish(p)
  PROVE  RInv'
<1>1. job' = [job EXCEPT ![p] = Idle] /\ job[p].todo = {} /\ job[p].state = "ask"
  BY DEF Finish, Asking
<1>2. UNCHANGED <<localTracks, mail, relayedTo, senders>> /\ target' = target
  BY DEF Finish
<1>3. Idle \in Jobs /\ Idle.kind = "idle" /\ JobOK(Idle)
  BY DEF Idle, Jobs, JobOK
<1>4. loop' = IF job[p].kind = "close" THEN [loop EXCEPT ![p] = "done"] ELSE loop
  BY DEF Finish
<1>5. CASE job[p].kind = "relay"
  <2>1. Remembered(p) \in Seq(Routers)
    BY <1>5 DEF RInv, AtSource, SourceTypes, JobsOK, JobOK, Remembered
  <2>2. targets' = [targets EXCEPT ![p] = Remembered(p)] /\ loop' = loop
    BY <1>4, <1>5 DEF Finish
  <2>3. SourceTypes'
    BY <1>1, <1>2, <1>3, <2>1, <2>2 DEF RInv, AtSource, SourceTypes
  <2>4. job'[p] = Idle /\ \A q \in Publishers \ {p} : job'[q] = job[q] /\ targets'[q] = targets[q]
    BY <1>1, <2>2 DEF RInv, AtSource, SourceTypes
  <2>5. loop[p] # "done"
    BY <1>5 DEF RInv, AtSource, OverIsSilent, Over, Relays
  <2>6. JobsOK' /\ JobsAim' /\ OverIsSilent' /\ \A q \in Publishers : Over(q) => Over(q)'
    BY <1>2, <1>3, <1>5, <2>2, <2>4, <2>5
       DEF RInv, AtSource, JobsOK, JobsAim, JobAims, Aimed, Remembers, OverIsSilent, Over, Relays
  <2>7. PortIsThere'
    BY <1>2, <1>3, <2>4 DEF RInv, Between, PortIsThere, Relays, Open, There, target, registry
  <2>8. RemovalsGo'
    <3> SUFFICES ASSUME NEW q \in Publishers, NEW r \in Routers
                 PROVE  /\ ~Gone(q, r) => WillTell(q, job[q], r)'
                        /\ Failed(q, r)' => Gone(q, r)
      BY <1>2 DEF RemovalsGo, Gone, target, registry
    <3>1. CASE q # p
      BY <2>2, <2>4, <3>1
         DEF RInv, Between, RemovalsGo, WillTell, Knows, Remembers, Failed, Relays
    <3>2. CASE q = p
      <4>1. ~Gone(p, r) => Remembers(p, r) \/ job[p].to = r
        BY <1>5 DEF RInv, Between, RemovalsGo, WillTell, Knows
      <4>2. targets'[p] = Append(targets[p], job[p].to) /\ targets[p] \in Seq(Routers)
        BY <2>2 DEF RInv, AtSource, SourceTypes, Remembered
      <4>3. job[p].to \in Routers
        BY <1>5 DEF RInv, AtSource, JobsOK, JobOK
      <4>4. ~Gone(p, r) => Remembers(p, r)'
        BY <4>1, <4>2, <4>3 DEF Remembers
      <4> QED BY <1>3, <2>2, <2>4, <2>5, <3>2, <4>4 DEF WillTell, Knows, Failed, Relays
    <3> QED BY <3>1, <3>2
  <2> QED BY <1>2, <2>3, <2>6, <2>7, <2>8, SourceStep, SendersStay DEF AtSource
<1>6. CASE job[p].kind # "relay"
  <2>1. targets' = targets
    BY <1>6 DEF Finish
  <2>2. SourceTypes'
    BY <1>1, <1>2, <1>3, <1>4, <2>1 DEF RInv, AtSource, SourceTypes
  <2>3. job'[p] = Idle /\ \A q \in Publishers \ {p} : job'[q] = job[q] /\ loop'[q] = loop[q]
    BY <1>1, <1>4 DEF RInv, AtSource, SourceTypes
  <2>4. loop'[p] = IF job[p].kind = "close" THEN "done" ELSE loop[p]
    BY <1>4 DEF RInv, AtSource, SourceTypes
  <2>5. JobsOK' /\ JobsAim'
    BY <1>3, <2>1, <2>3 DEF RInv, AtSource, JobsOK, JobsAim, JobAims, Aimed, Remembers
  <2>6. \A q \in Publishers : Over(q) <=> Over(q)'
    BY <1>3, <2>3, <2>4 DEF Over
  <2>7. OverIsSilent'
    <3>1. \A q \in Publishers : Relays(q)' => Relays(q)
      BY <1>3, <2>3 DEF Relays
    <3> QED BY <1>2, <2>6, <3>1 DEF RInv, AtSource, OverIsSilent
  <2>8. PortIsThere'
    BY <1>2, <1>3, <2>3 DEF RInv, Between, PortIsThere, Relays, Open, There, target, registry
  <2>9. RemovalsGo'
    <3> SUFFICES ASSUME NEW q \in Publishers, NEW r \in Routers
                 PROVE  /\ ~Gone(q, r) => WillTell(q, job[q], r)'
                        /\ Failed(q, r)' => Gone(q, r)
      BY <1>2 DEF RemovalsGo, Gone, target, registry
    <3>1. CASE q # p
      BY <2>1, <2>3, <3>1
         DEF RInv, Between, RemovalsGo, WillTell, Knows, Remembers, Failed, Relays
    <3>2. CASE q = p
      <4>1. ASSUME ~Gone(p, r) PROVE job[p].kind # "close" /\ WillTell(p, job[p], r)
        BY <1>1, <4>1 DEF RInv, Between, RemovalsGo, WillTell, Removes
      <4>2. ~Gone(p, r) => loop[p] # "done" /\ Remembers(p, r)
        BY <1>6, <4>1 DEF WillTell, Knows
      <4> QED BY <1>3, <2>1, <2>3, <2>4, <3>2, <4>1, <4>2
              DEF WillTell, Knows, Remembers, Failed, Relays
    <3> QED BY <3>1, <3>2
  <2> QED BY <1>2, <2>2, <2>5, <2>6, <2>7, <2>8, <2>9, SourceStep, SendersStay DEF AtSource
<1> QED BY <1>5, <1>6

-----------------------------------------------------------------------------
(* The target's steps *)

\* What a queue contains after an event was added ...
LEMMA ContainsAppend ==
  ASSUME NEW q \in Seq(Events), NEW e \in Events, NEW f
  PROVE  /\ Append(q, e) \in Seq(Events)
         /\ Contains(Append(q, e), f) <=> Contains(q, f) \/ f = e
<1>1. /\ Append(q, e) \in Seq(Events) /\ Len(Append(q, e)) = Len(q) + 1 /\ Len(q) \in Nat
      /\ Append(q, e)[Len(q) + 1] = e /\ \A i \in 1 .. Len(q) : Append(q, e)[i] = q[i]
  OBVIOUS
<1>2. ASSUME Contains(Append(q, e), f) PROVE Contains(q, f) \/ f = e
  <2>1. PICK i \in 1 .. Len(q) + 1 : Append(q, e)[i] = f
    BY <1>1, <1>2 DEF Contains
  <2> QED BY <1>1, <2>1 DEF Contains
<1>3. ASSUME Contains(q, f) PROVE Contains(Append(q, e), f)
  BY <1>1, <1>3 DEF Contains
<1>4. ASSUME f = e PROVE Contains(Append(q, e), f)
  BY <1>1, <1>4 DEF Contains
<1> QED BY <1>1, <1>2, <1>3, <1>4

\* ... and after the first one was taken.
LEMMA ContainsTail ==
  ASSUME NEW q \in Seq(Events), q # << >>, NEW f
  PROVE  /\ Tail(q) \in Seq(Events) /\ Head(q) \in Events
         /\ Contains(q, f) <=> Contains(Tail(q), f) \/ f = Head(q)
<1>1. /\ Tail(q) \in Seq(Events) /\ Head(q) = q[1] /\ q[1] \in Events /\ Len(q) \in Nat \ {0}
      /\ Len(Tail(q)) = Len(q) - 1 /\ \A i \in 1 .. Len(q) - 1 : Tail(q)[i] = q[i + 1]
  OBVIOUS
<1>2. ASSUME Contains(q, f) PROVE Contains(Tail(q), f) \/ f = Head(q)
  <2>1. PICK i \in 1 .. Len(q) : q[i] = f
    BY <1>2 DEF Contains
  <2>2. CASE i = 1
    BY <1>1, <2>1, <2>2
  <2>3. CASE i # 1
    <3>1. i - 1 \in 1 .. Len(Tail(q)) /\ Tail(q)[i - 1] = f
      BY <1>1, <2>1, <2>3
    <3> QED BY <3>1 DEF Contains
  <2> QED BY <2>2, <2>3
<1>3. ASSUME Contains(Tail(q), f) PROVE Contains(q, f)
  <2>1. PICK i \in 1 .. Len(q) - 1 : Tail(q)[i] = f
    BY <1>1, <1>3 DEF Contains
  <2>2. i + 1 \in 1 .. Len(q) /\ q[i + 1] = f
    BY <1>1, <2>1
  <2> QED BY <2>2 DEF Contains
<1>4. ASSUME f = Head(q) PROVE Contains(q, f)
  BY <1>1, <1>4 DEF Contains
<1> QED BY <1>1, <1>2, <1>3, <1>4

\* The request of a relay that a router is asked to serve.
Asks(p, r) == Relays(p) /\ Request(p) /\ job[p].ask[3] = r

\* What a target's step may do to a publisher that is over and to one that is not.
\* A router takes in nobody but the publisher whose request it serves.
TargetKeeps ==
  /\ \A r \in Routers : Open(r)' => Open(r)
  /\ \A p \in Publishers, r \in Routers :
       CloseSaid(<<p, r>>)' /\ Open(r)' => CloseSaid(<<p, r>>) \/ Over(p)
  /\ \A p \in Publishers, s \in Ssrcs, r \in Routers :
       There(p, s, r) /\ ~Over(p) /\ Open(r)' => There(p, s, r)'
  /\ \A p \in Publishers, r \in Routers : Gone(p, r) => Gone(p, r)' \/ Asks(p, r)

\* A publisher that asks a router to relay knows it.
LEMMA AsksKnows ==
  ASSUME RInv, NEW p \in Publishers, NEW r \in Routers, Asks(p, r)
  PROVE  WillTell(p, job[p], r) /\ job[p].kind # "close"
<1>1. ~Over(p) /\ JobAims(p, job[p])
  BY DEF RInv, AtSource, OverIsSilent, JobsAim, Asks
<1> QED BY <1>1 DEF Asks, Relays, Request, JobAims, Aimed, WillTell, Knows, Over

\* A step that is no reply.
LEMMA TargetStep ==
  ASSUME RInv, UNCHANGED source, AtTarget', TargetKeeps
  PROVE  RInv'
<1>1. AtSource' /\ \A p \in Publishers : Over(p)' <=> Over(p)
  <2>1. JobsAim'
    BY DEF RInv, AtSource, JobsAim, JobAims, Aimed, Remembers, source
  <2>2. SourceTypes' /\ JobsOK' /\ OverIsSilent' /\ \A p \in Publishers : Over(p)' <=> Over(p)
    BY DEF RInv, AtSource, SourceTypes, JobsOK, OverIsSilent, Over, Relays, source
  <2> QED BY <2>1, <2>2 DEF AtSource
<1>2. ClosedByAReason'
  BY <1>1 DEF RInv, Between, ClosedByAReason, TargetKeeps
<1>3. ForwardedIsReceived'
  <2> SUFFICES ASSUME NEW p \in Publishers, NEW s \in Ssrcs, NEW r \in Routers,
                      senders[p][<<s, r>>] > 0, Open(r)'
               PROVE  There(p, s, r)'
    BY DEF ForwardedIsReceived, There, Open, source
  <2>1. ~Over(p)
    BY DEF RInv, AtSource, OverIsSilent
  <2>2. There(p, s, r)
    BY DEF TargetKeeps, RInv, Between, ForwardedIsReceived, There, Open
  <2> QED BY <2>1, <2>2 DEF TargetKeeps
<1>4. PortIsThere'
  <2> SUFFICES ASSUME NEW p \in Publishers,
                      Relays(p)', job[p].state = "answered", job[p].reply = "ok",
                      NEW s, s = job[p].ask[2], NEW r, r = job[p].ask[3], Open(r)'
               PROVE  There(p, s, r)'
    BY DEF PortIsThere, There, Open, source
  <2>1. Relays(p) /\ ~Over(p) /\ job[p].ask \in OfTracks
    BY DEF RInv, AtSource, OverIsSilent, JobsOK, JobOK, Relays, source
  <2>2. s \in Ssrcs /\ r \in Routers
    BY <2>1 DEF OfTracks
  <2>3. There(p, s, r)
    BY <2>1, <2>2 DEF TargetKeeps, RInv, Between, PortIsThere
  <2> QED BY <2>1, <2>2, <2>3 DEF TargetKeeps
<1>5. RemovalsGo'
  <2> SUFFICES ASSUME NEW p \in Publishers, NEW r \in Routers
               PROVE  /\ ~Gone(p, r)' => WillTell(p, job[p], r)
                      /\ Failed(p, r) => Gone(p, r)'
    BY DEF RemovalsGo, WillTell, Knows, Remembers, Failed, Relays, source
  <2>1. ~Gone(p, r)' => WillTell(p, job[p], r)
    BY AsksKnows DEF RInv, Between, RemovalsGo, TargetKeeps
  <2>2. Failed(p, r) => ~Asks(p, r)
    BY DEF Failed, Asks, Request
  <2> QED BY <2>1, <2>2 DEF RInv, Between, RemovalsGo, TargetKeeps
<1> QED BY <1>1, <1>2, <1>3, <1>4, <1>5 DEF RInv, Between

\* A reply: with a port, the target has what the publisher expects; with an error or
\* to a removal, it does not have the publisher to stay.
LEMMA ReplyStep ==
  ASSUME RInv, NEW p \in Publishers, Request(p), NEW what \in {"ok", "error"}, Reply(p, what),
         UNCHANGED sourceButJob, AtTarget', TargetKeeps,
         NEW s, s = job[p].ask[2], NEW r, r = job[p].ask[3],
         what = "ok" /\ Relays(p) /\ Open(r)' => There(p, s, r)',
         what # "ok" \/ job[p].kind = "close" => Gone(p, r)'
  PROVE  RInv'
<1> DEFINE j == [job[p] EXCEPT !.state = "answered", !.reply = what]
<1>1. job[p] \in Jobs /\ JobOK(job[p]) /\ job[p].kind # "idle" /\ job[p].state = "sent"
  BY DEF RInv, AtSource, SourceTypes, JobsOK, Request
<1>2. job' = [job EXCEPT ![p] = j]
  BY <1>1 DEF Reply, RInv, AtSource, SourceTypes, Jobs
<1>3. /\ j \in Jobs /\ j.kind = job[p].kind /\ j.to = job[p].to /\ j.todo = job[p].todo
      /\ j.state = "answered" /\ j.ask = job[p].ask /\ j.reply = what
  BY <1>1 DEF Jobs
<1> HIDE DEF j
<1>4. job'[p] = j /\ \A q \in Publishers \ {p} : job'[q] = job[q]
  BY <1>2 DEF RInv, AtSource, SourceTypes
<1>5. UNCHANGED <<localTracks, mail, loop, targets, relayedTo, senders>>
  BY DEF sourceButJob
<1>6. JobOK(j)
  BY <1>1, <1>3 DEF JobOK
<1>7. SourceTypes'
  BY <1>2, <1>3, <1>5 DEF RInv, AtSource, SourceTypes
<1>8. JobsOK' /\ JobsAim'
  BY <1>1, <1>3, <1>4, <1>5, <1>6
     DEF RInv, AtSource, JobsOK, JobsAim, JobAims, Aimed, Remembers
<1>9. \A q \in Publishers : job'[q].kind = job[q].kind
  BY <1>3, <1>4
<1>10. \A q \in Publishers : (Over(q)' <=> Over(q)) /\ (Relays(q)' <=> Relays(q))
  BY <1>5, <1>9 DEF Over, Relays
<1>11. OverIsSilent'
  BY <1>5, <1>10 DEF RInv, AtSource, OverIsSilent
<1>12. ClosedByAReason'
  BY <1>10 DEF RInv, Between, ClosedByAReason, TargetKeeps
<1>13. ForwardedIsReceived'
  <2> SUFFICES ASSUME NEW q \in Publishers, NEW t \in Ssrcs, NEW u \in Routers,
                      senders[q][<<t, u>>] > 0, Open(u)'
               PROVE  There(q, t, u)'
    BY <1>5 DEF ForwardedIsReceived, There, Open
  <2>1. ~Over(q)
    BY DEF RInv, AtSource, OverIsSilent
  <2>2. There(q, t, u)
    BY DEF TargetKeeps, RInv, Between, ForwardedIsReceived, There, Open
  <2> QED BY <2>1, <2>2 DEF TargetKeeps
<1>14. PortIsThere'
  <2> SUFFICES ASSUME NEW q \in Publishers,
                      Relays(q)', job'[q].state = "answered", job'[q].reply = "ok",
                      NEW t, t = job'[q].ask[2], NEW u, u = job'[q].ask[3], Open(u)'
               PROVE  There(q, t, u)'
    BY DEF PortIsThere, There, Open
  <2>1. CASE q = p
    BY <1>3, <1>4, <1>10, <2>1
  <2>2. CASE q # p
    <3>1. Relays(q) /\ ~Over(q) /\ job[q].ask \in OfTracks /\ job'[q] = job[q]
      BY <1>4, <1>10, <2>2 DEF RInv, AtSource, OverIsSilent, JobsOK, JobOK, Relays
    <3>2. t \in Ssrcs /\ u \in Routers
      BY <3>1 DEF OfTracks
    <3>3. There(q, t, u)
      BY <3>1, <3>2 DEF TargetKeeps, RInv, Between, PortIsThere
    <3> QED BY <3>1, <3>2, <3>3 DEF TargetKeeps
  <2> QED BY <2>1, <2>2
<1>15. RemovalsGo'
  <2> SUFFICES ASSUME NEW q \in Publishers, NEW u \in Routers
               PROVE  /\ ~Gone(q, u)' => WillTell(q, job'[q], u)
                      /\ Failed(q, u)' => Gone(q, u)'
    BY <1>5 DEF RemovalsGo, WillTell, Knows, Remembers
  <2>1. ~Gone(q, u)' => WillTell(q, job[q], u)
    BY AsksKnows DEF RInv, Between, RemovalsGo, TargetKeeps
  <2>2. CASE q # p
    <3>1. job'[q] = job[q] /\ (Failed(q, u)' => Failed(q, u) /\ ~Asks(q, u))
      BY <1>4, <2>2 DEF Failed, Relays, Asks, Request
    <3> QED BY <2>1, <3>1 DEF RInv, Between, RemovalsGo, TargetKeeps
  <2>3. CASE q = p
    <3>1. ~Gone(p, u)' => WillTell(p, j, u)
      BY <1>1, <1>3, <2>1, <2>3 DEF WillTell, Knows, Removes
    <3>2. Failed(p, u)' => what # "ok" /\ u = r
      BY <1>3, <1>4 DEF Failed
    <3> QED BY <1>4, <2>3, <3>1, <3>2
  <2> QED BY <2>2, <2>3
<1> QED BY <1>7, <1>8, <1>11, <1>12, <1>13, <1>14, <1>15 DEF RInv, AtSource, Between

\* A reply that changes nothing else.
LEMMA TargetStays ==
  ASSUME RInv, UNCHANGED target
  PROVE  AtTarget' /\ TargetKeeps
<1>1. AtTarget'
  BY DEF RInv, target, registry, AtTarget, TargetTypes, Entered, OneView
<1>2. TargetKeeps
  BY DEF TargetKeeps, target, registry, Open, CloseSaid, There, Gone
<1> QED BY <1>1, <1>2

\* A request is answered with an error that changes nothing at the target.
LEMMA RefusedInv ==
  ASSUME RInv, NEW p \in Publishers,
         Refuse(p) \/ \E r \in Routers : RouterUnknown(p, r) \/ NoPublisher(p, r)
  PROVE  RInv'
<1>1. PICK s, r : s = job[p].ask[2] /\ r = job[p].ask[3]
  OBVIOUS
<1>2. Request(p) /\ Reply(p, "error") /\ UNCHANGED sourceButJob /\ UNCHANGED target
  BY DEF Refuse, RouterUnknown, NoPublisher, Serving
<1>3. Gone(p, r)'
  <2>1. ASSUME Refuse(p) \/ RouterUnknown(p, r) PROVE Gone(p, r)'
    BY <2>1 DEF Refuse, RouterUnknown, Gone, target
  <2>2. ASSUME NoPublisher(p, r) PROVE Gone(p, r)'
    <3>1. r \in Routers /\ r \notin entries /\ server = "up"
      BY <2>2 DEF NoPublisher, Serving, RInv, AtSource, JobsOK, JobOK, OfTracks, Relays, Request
    <3>2. served[r] = {} /\ listed[r] = served[r]
      BY <3>1 DEF RInv, AtTarget, Entered, OneView
    <3> QED BY <2>2, <3>2 DEF NoPublisher, Gone, target, registry
  <2> QED BY <1>1, <2>1, <2>2 DEF RouterUnknown, NoPublisher, Serving
<1> QED BY <1>1, <1>2, <1>3, TargetStays, ReplyStep

\* What an event sent to a RelayedPublisher does to the inboxes.
LEMMA ToldSays ==
  ASSUME RInv, NEW x \in Pairs, NEW e \in Events
  PROVE  /\ Told(x, e) \in [Pairs -> Seq(Events)]
         /\ relayed[x] # {Close} => Contains(Told(x, e)[x], e)
         /\ \A y \in Pairs : \A f :
              /\ Contains(inbox[y], f) => Contains(Told(x, e)[y], f)
              /\ Contains(Told(x, e)[y], f) => Contains(inbox[y], f) \/ (y = x /\ f = e)
<1>1. inbox \in [Pairs -> Seq(Events)] /\ inbox[x] \in Seq(Events)
  BY DEF RInv, AtTarget, TargetTypes
<1>2. /\ Append(inbox[x], e) \in Seq(Events)
      /\ \A f : Contains(Append(inbox[x], e), f) <=> Contains(inbox[x], f) \/ f = e
  BY <1>1, ContainsAppend
<1>3. CASE relayed[x] = {Close}
  <2>1. Told(x, e) = inbox
    BY <1>3 DEF Told
  <2> QED BY <1>1, <1>3, <2>1
<1>4. CASE relayed[x] # {Close}
  <2>1. Told(x, e) = [inbox EXCEPT ![x] = Append(@, e)]
    BY <1>4 DEF Told
  <2>2. Told(x, e)[x] = Append(inbox[x], e) /\ \A y \in Pairs \ {x} : Told(x, e)[y] = inbox[y]
    BY <1>1, <2>1
  <2>3. Told(x, e) \in [Pairs -> Seq(Events)]
    BY <1>1, <1>2, <2>1
  <2>4. \A f : Contains(Told(x, e)[x], f) <=> Contains(inbox[x], f) \/ f = e
    BY <1>2, <2>2, Zenon
  <2>5. \A y \in Pairs : y = x \/ Told(x, e)[y] = inbox[y]
    BY <2>2
  <2> QED BY <2>3, <2>4, <2>5, Zenon
<1> QED BY <1>3, <1>4, Zenon

\* A UDP server goes on, or the worker forgets a router that has closed.
LEMMA UdpInv ==
  ASSUME RInv, NEW r \in Routers, UdpSubscribes(r) \/ UdpFails(r) \/ WorkerForgets(r)
  PROVE  RInv'
<1>1. UNCHANGED <<source, server, entries, served, listed, inbox, relayed>>
  BY DEF UdpSubscribes, UdpFails, WorkerForgets, registry
<1>2. PICK u \in {"running", "dead"} :
        \/ rtp' = [rtp EXCEPT ![r] = u] /\ rtp[r] # "none" /\ router' = router
        \/ rtp' = rtp /\ router[r] = "closed" /\ router' = [router EXCEPT ![r] = "forgotten"]
  BY DEF UdpSubscribes, UdpFails, WorkerForgets, registry
<1>3. /\ \A q \in Routers : rtp'[q] # "none" <=> rtp[q] # "none"
      /\ \A q \in Routers : router'[q] = "open" <=> router[q] = "open"
      /\ rtp' \in [Routers -> {"none", "starting", "running", "dead"}]
      /\ router' \in [Routers -> {"open", "closed", "forgotten"}]
  BY <1>2 DEF RInv, AtTarget, TargetTypes
<1>4. AtTarget'
  BY <1>1, <1>3 DEF RInv, AtTarget, TargetTypes, Entered, OneView
<1>5. TargetKeeps
  BY <1>1, <1>3 DEF TargetKeeps, Open, CloseSaid, There, Gone
<1> QED BY <1>1, <1>4, <1>5, TargetStep

\* The server stops, or a router closes: the RelayedPublishers told of it are no
\* longer at an open router.
LEMMA ClosesInv ==
  ASSUME RInv, StopServer \/ \E r \in Routers : RouterCloses(r)
  PROVE  RInv'
<1>1. UNCHANGED <<source, registry, relayed>>
  BY DEF StopServer, RouterCloses
<1>2. PICK told \in SUBSET Pairs :
        inbox' = [x \in Pairs |-> IF x \in told THEN Append(inbox[x], Close) ELSE inbox[x]]
  <2>1. ASSUME StopServer
        PROVE  \E told \in SUBSET Pairs :
                 inbox' = [x \in Pairs |-> IF x \in told THEN Append(inbox[x], Close) ELSE inbox[x]]
    <3> DEFINE T == {x \in Pairs : x[1] \in served[x[2]] /\ relayed[x] # {Close}}
    <3>1. inbox' = [x \in Pairs |-> IF x \in T THEN Append(inbox[x], Close) ELSE inbox[x]]
      BY <2>1 DEF StopServer
    <3> QED BY <3>1
  <2>2. ASSUME NEW r \in Routers, RouterCloses(r)
        PROVE  \E told \in SUBSET Pairs :
                 inbox' = [x \in Pairs |-> IF x \in told THEN Append(inbox[x], Close) ELSE inbox[x]]
    <3> DEFINE T == {x \in Pairs : x[2] = r /\ x[1] \in listed[r] /\ relayed[x] # {Close}}
    <3>1. inbox' = [x \in Pairs |-> IF x \in T THEN Append(inbox[x], Close) ELSE inbox[x]]
      BY <2>2 DEF RouterCloses
    <3> QED BY <3>1
  <2> QED BY <2>1, <2>2
<1>3. inbox \in [Pairs -> Seq(Events)] /\ Close \in Events
  BY DEF RInv, AtTarget, TargetTypes, Events
<1>4. inbox' \in [Pairs -> Seq(Events)]
  <2>1. \A x \in Pairs : Append(inbox[x], Close) \in Seq(Events)
    BY <1>3, ContainsAppend
  <2> QED BY <1>2, <1>3, <2>1
<1>5. \A x \in Pairs : \A f : Contains(inbox[x], f) => Contains(inbox'[x], f)
  <2>1. \A x \in Pairs : \A f : Contains(inbox[x], f) => Contains(Append(inbox[x], Close), f)
    BY <1>3, ContainsAppend
  <2> QED BY <1>2, <2>1
<1>6. /\ server' \in {"up", "stuck", "panicked", "stopped"}
      /\ router' \in [Routers -> {"open", "closed", "forgotten"}]
      /\ server' = "panicked" <=> server = "panicked"
      /\ server' = "up" => server = "up"
      /\ \A r \in Routers : router[r] # "open" => router'[r] # "open"
  BY DEF RInv, AtTarget, TargetTypes, StopServer, RouterCloses
<1>7. AtTarget'
  BY <1>1, <1>4, <1>6 DEF RInv, AtTarget, TargetTypes, Entered, OneView, registry
<1>8. \A r \in Routers : Open(r)' => Open(r) /\ \A p \in Publishers : inbox'[<<p, r>>] = inbox[<<p, r>>]
  <2>1. ASSUME StopServer, NEW r \in Routers PROVE ~Open(r)'
    BY <2>1 DEF StopServer, Open
  <2>2. ASSUME NEW u \in Routers, RouterCloses(u), NEW r \in Routers, Open(r)'
        PROVE  Open(r) /\ \A p \in Publishers : inbox'[<<p, r>>] = inbox[<<p, r>>]
    <3>1. server' = server /\ router' = [router EXCEPT ![u] = "closed"]
      BY <2>2 DEF RouterCloses
    <3>2. r # u
      BY <2>2, <3>1 DEF RInv, AtTarget, TargetTypes, Open
    <3>3. Open(r)
      BY <2>2, <3>1, <3>2 DEF RInv, AtTarget, TargetTypes, Open
    <3>4. \A p \in Publishers : <<p, r>> \in Pairs /\ <<p, r>>[2] = r
      BY DEF Pairs
    <3> QED BY <2>2, <3>2, <3>3, <3>4 DEF RouterCloses
  <2> QED BY <2>1, <2>2
<1>9. TargetKeeps
  <2>1. \A p \in Publishers, r \in Routers : <<p, r>> \in Pairs
    BY DEF Pairs
  <2> QED BY <1>1, <1>5, <1>6, <1>8, <2>1 DEF TargetKeeps, CloseSaid, There, Gone, registry
<1> QED BY <1>1, <1>7, <1>9, TargetStep

\* The relay server is stuck: nothing it knows changes.
LEMMA ServeAnotherInv ==
  ASSUME RInv, NEW p \in Publishers, NEW r \in Routers, ServeAnother(p, r)
  PROVE  RInv'
<1>1. /\ UNCHANGED <<source, entries, served, rtp, listed, router, inbox, relayed>>
      /\ server = "up" /\ server' = "stuck"
  BY DEF ServeAnother, Serving, source, sourceButJob, registry
<1>2. AtTarget'
  BY <1>1 DEF RInv, AtTarget, TargetTypes, Entered, OneView
<1>3. TargetKeeps
  BY <1>1 DEF TargetKeeps, Open, CloseSaid, There, Gone
<1> QED BY <1>1, <1>2, <1>3, TargetStep

\* What a server knows of the relay it serves.
LEMMA RelayAsked ==
  ASSUME RInv, NEW p \in Publishers, NEW r \in Routers, Serving(p, r), Relays(p)
  PROVE  /\ job[p].ask[2] \in Ssrcs /\ job[p].ask[2] \in Events /\ job[p].ask[2] # Close
         /\ job[p].kind # "close" /\ ~Over(p)
         /\ Open(r) => relayed[<<p, r>>] # {Close}
<1>1. job[p].ask \in OfTracks
  BY DEF RInv, AtSource, JobsOK, JobOK, Serving, Request, Relays
<1>2. job[p].ask[2] \in Ssrcs
  BY <1>1 DEF OfTracks
<1>3. ~Over(p)
  BY DEF RInv, AtSource, OverIsSilent
<1>4. job[p].ask[2] # Close /\ job[p].ask[2] \in Events
  BY <1>2, RelayAssumption DEF Events
<1>5. Open(r) => relayed[<<p, r>>] # {Close}
  BY <1>3 DEF RInv, Between, ClosedByAReason, CloseSaid
<1> QED BY <1>2, <1>3, <1>4, <1>5 DEF Over

\* The first publisher of a router is entered.
LEMMA ServeFirstInv ==
  ASSUME RInv, NEW p \in Publishers, NEW r \in Routers, NEW up \in BOOLEAN, ServeFirst(p, r, up)
  PROVE  RInv'
<1>1. PICK s : s = job[p].ask[2]
  OBVIOUS
<1>2. PICK what \in {"ok", "error"} : what = IF up THEN "ok" ELSE "error"
  OBVIOUS
<1>3. /\ Serving(p, r) /\ Relays(p) /\ Request(p) /\ Reply(p, what) /\ UNCHANGED sourceButJob
      /\ r = job[p].ask[3] /\ server = "up" /\ r \notin entries
      /\ UNCHANGED <<server, router, relayed>>
  BY <1>2 DEF ServeFirst, Serving
<1>4. /\ s \in Ssrcs /\ s \in Events /\ s # Close /\ job[p].kind # "close" /\ ~Over(p)
      /\ Open(r) => relayed[<<p, r>>] # {Close}
  BY <1>1, <1>3, RelayAsked
<1>5. /\ entries' = entries \cup {r} /\ served' = [served EXCEPT ![r] = {p}]
      /\ listed' = [listed EXCEPT ![r] = @ \cup {p}] /\ inbox' = Told(<<p, r>>, s)
      /\ rtp' = IF up THEN [rtp EXCEPT ![r] = "starting"] ELSE rtp
  BY <1>1 DEF ServeFirst
<1>6. /\ served[r] = {} /\ listed[r] = {}
  BY <1>3 DEF RInv, AtTarget, Entered, OneView
<1>7. /\ served' \in [Routers -> SUBSET Publishers] /\ listed' \in [Routers -> SUBSET Publishers]
      /\ rtp' \in [Routers -> {"none", "starting", "running", "dead"}]
      /\ served'[r] = {p} /\ listed'[r] = {p}
      /\ \A q \in Routers \ {r} : /\ served'[q] = served[q] /\ listed'[q] = listed[q]
                                  /\ rtp'[q] = rtp[q]
  BY <1>5, <1>6 DEF RInv, AtTarget, TargetTypes
<1>8. <<p, r>> \in Pairs /\ \A q \in Publishers, u \in Routers : <<q, u>> \in Pairs
  BY DEF Pairs
<1>9. /\ inbox' \in [Pairs -> Seq(Events)]
      /\ relayed[<<p, r>>] # {Close} => Contains(inbox'[<<p, r>>], s)
      /\ \A y \in Pairs : \A f : Contains(inbox[y], f) => Contains(inbox'[y], f)
      /\ \A y \in Pairs : Contains(inbox'[y], Close) => Contains(inbox[y], Close)
  <2>1. /\ Told(<<p, r>>, s) \in [Pairs -> Seq(Events)]
        /\ relayed[<<p, r>>] # {Close} => Contains(Told(<<p, r>>, s)[<<p, r>>], s)
        /\ \A y \in Pairs : \A f :
             /\ Contains(inbox[y], f) => Contains(Told(<<p, r>>, s)[y], f)
             /\ Contains(Told(<<p, r>>, s)[y], f) => Contains(inbox[y], f) \/ (y = <<p, r>> /\ f = s)
    BY <1>4, <1>8, ToldSays
  <2>2. inbox' = Told(<<p, r>>, s)
    BY <1>5
  <2> QED BY <1>4, <2>1, <2>2, Zenon
<1>10. TargetTypes'
  BY <1>3, <1>5, <1>7, <1>9 DEF RInv, AtTarget, TargetTypes
<1>11. Entered'
  BY <1>3, <1>5, <1>7 DEF RInv, AtTarget, Entered
<1>12. OneView'
  BY <1>3, <1>7 DEF RInv, AtTarget, OneView
<1>13. \A q \in Routers : Open(q)' <=> Open(q)
  BY <1>3 DEF Open
<1>14. TargetKeeps
  <2>1. \A q \in Publishers, u \in Routers : CloseSaid(<<q, u>>)' => CloseSaid(<<q, u>>)
    BY <1>3, <1>8, <1>9 DEF CloseSaid
  <2>2. ASSUME NEW q \in Publishers, NEW t \in Ssrcs, NEW u \in Routers, There(q, t, u)
        PROVE  There(q, t, u)'
    <3>1. u # r
      BY <1>6, <2>2 DEF There
    <3> QED BY <1>3, <1>7, <1>8, <1>9, <2>2, <3>1 DEF There
  <2>3. ASSUME NEW q \in Publishers, NEW u \in Routers, Gone(q, u), ~Asks(q, u)
        PROVE  Gone(q, u)'
    <3>1. q # p \/ u # r
      BY <1>3, <2>3 DEF Asks
    <3> QED BY <1>3, <1>7, <2>3, <3>1 DEF Gone
  <2> QED BY <1>13, <2>1, <2>2, <2>3 DEF TargetKeeps
<1>15. what = "ok" /\ Open(r)' => There(p, s, r)'
  <2> SUFFICES ASSUME what = "ok", Open(r) PROVE There(p, s, r)'
    BY <1>13
  <2>1. rtp'[r] = "starting"
    BY <1>2, <1>5 DEF RInv, AtTarget, TargetTypes
  <2> QED BY <1>4, <1>7, <1>9, <2>1 DEF There
<1>16. what # "ok" => Gone(p, r)'
  <2>1. rtp[r] = "none"
    BY <1>3, <1>6 DEF RInv, AtTarget, OneView
  <2> QED BY <1>2, <1>5, <2>1 DEF Gone
<1> QED BY <1>1, <1>3, <1>4, <1>10, <1>11, <1>12, <1>14, <1>15, <1>16, ReplyStep DEF AtTarget

\* Another track of a publisher that is there.
LEMMA ServeTrackInv ==
  ASSUME RInv, NEW p \in Publishers, NEW r \in Routers, ServeTrack(p, r)
  PROVE  RInv'
<1>1. PICK s : s = job[p].ask[2]
  OBVIOUS
<1>2. PICK what \in {"ok", "error"} : what = IF rtp[r] = "none" THEN "error" ELSE "ok"
  OBVIOUS
<1>3. /\ Serving(p, r) /\ Relays(p) /\ Request(p) /\ Reply(p, what) /\ UNCHANGED sourceButJob
      /\ r = job[p].ask[3] /\ p \in served[r]
      /\ UNCHANGED <<server, entries, served, rtp, listed, router, relayed>>
  BY <1>2 DEF ServeTrack, Serving, WhileAbsent, registry
<1>4. /\ s \in Ssrcs /\ s \in Events /\ s # Close /\ job[p].kind # "close" /\ ~Over(p)
      /\ Open(r) => relayed[<<p, r>>] # {Close}
  BY <1>1, <1>3, RelayAsked
<1>5. (inbox' = inbox /\ s \in relayed[<<p, r>>]) \/ inbox' = Told(<<p, r>>, s)
  BY <1>1 DEF ServeTrack
<1>6. <<p, r>> \in Pairs /\ \A q \in Publishers, u \in Routers : <<q, u>> \in Pairs
  BY DEF Pairs
<1>7. /\ inbox' \in [Pairs -> Seq(Events)]
      /\ relayed[<<p, r>>] # {Close} =>
           s \in relayed[<<p, r>>] \/ Contains(inbox'[<<p, r>>], s)
      /\ \A y \in Pairs : \A f : Contains(inbox[y], f) => Contains(inbox'[y], f)
      /\ \A y \in Pairs : Contains(inbox'[y], Close) => Contains(inbox[y], Close)
  <2>1. /\ Told(<<p, r>>, s) \in [Pairs -> Seq(Events)]
        /\ relayed[<<p, r>>] # {Close} => Contains(Told(<<p, r>>, s)[<<p, r>>], s)
        /\ \A y \in Pairs : \A f :
             /\ Contains(inbox[y], f) => Contains(Told(<<p, r>>, s)[y], f)
             /\ Contains(Told(<<p, r>>, s)[y], f) => Contains(inbox[y], f) \/ (y = <<p, r>> /\ f = s)
    BY <1>4, <1>6, ToldSays
  <2>2. inbox \in [Pairs -> Seq(Events)]
    BY DEF RInv, AtTarget, TargetTypes
  <2>3. CASE inbox' = inbox /\ s \in relayed[<<p, r>>]
    BY <2>2, <2>3, Zenon
  <2>4. CASE inbox' = Told(<<p, r>>, s)
    BY <1>4, <2>1, <2>4, Zenon
  <2> QED BY <1>5, <2>3, <2>4
<1>8. AtTarget'
  BY <1>3, <1>7 DEF RInv, AtTarget, TargetTypes, Entered, OneView
<1>9. TargetKeeps
  BY <1>3, <1>6, <1>7 DEF TargetKeeps, Open, CloseSaid, There, Gone
<1>10. what = "ok" /\ Open(r)' => There(p, s, r)'
  BY <1>2, <1>3, <1>4, <1>7 DEF There, Open
<1>11. what # "ok" => Gone(p, r)'
  BY <1>2, <1>3 DEF Gone
<1> QED BY <1>1, <1>3, <1>4, <1>8, <1>9, <1>10, <1>11, ReplyStep

\* A publisher is removed; it is over, so nothing is sent any more.
LEMMA ServeRemovalInv ==
  ASSUME RInv, NEW p \in Publishers, NEW r \in Routers, ServeRemoval(p, r)
  PROVE  RInv'
<1> DEFINE last == r \in entries /\ served[r] \subseteq {p}
           panics == last /\ rtp[r] \in {"starting", "dead"}
<1>1. PICK s : s = job[p].ask[2]
  OBVIOUS
<1>2. PICK what \in {"ok", "error"} : what = IF panics THEN "error" ELSE "ok"
  OBVIOUS
<1>3. /\ Request(p) /\ Reply(p, what) /\ UNCHANGED sourceButJob
      /\ r = job[p].ask[3] /\ server = "up" /\ job[p].kind = "close"
      /\ UNCHANGED <<router, relayed>>
  BY <1>2 DEF ServeRemoval, Serving
<1>4. /\ listed' = [listed EXCEPT ![r] = @ \ {p}] /\ served' = [served EXCEPT ![r] = @ \ {p}]
      /\ inbox' = IF p \in served[r] THEN Told(<<p, r>>, Close) ELSE inbox
      /\ server' = IF panics THEN "panicked" ELSE server
      /\ entries' = IF last /\ ~panics THEN entries \ {r} ELSE entries
      /\ rtp' = IF last /\ ~panics THEN [rtp EXCEPT ![r] = "none"] ELSE rtp
  BY DEF ServeRemoval, SayClose, Unlisted, DropEntry
<1>5. Over(p) /\ ~Relays(p)
  BY <1>3 DEF Over, Relays
<1>6. /\ served' \in [Routers -> SUBSET Publishers] /\ listed' \in [Routers -> SUBSET Publishers]
      /\ served'[r] = served[r] \ {p} /\ listed'[r] = listed[r] \ {p}
      /\ \A q \in Routers \ {r} : served'[q] = served[q] /\ listed'[q] = listed[q]
  BY <1>4 DEF RInv, AtTarget, TargetTypes
<1>7. /\ rtp' \in [Routers -> {"none", "starting", "running", "dead"}]
      /\ \A q \in Routers \ {r} : rtp'[q] = rtp[q]
      /\ rtp'[r] = IF last /\ ~panics THEN "none" ELSE rtp[r]
  BY <1>4 DEF RInv, AtTarget, TargetTypes
<1>8. /\ r \notin entries => served[r] = {}
      /\ listed[r] = served[r]
      /\ rtp[r] # "none" => served[r] # {}
  BY <1>3 DEF RInv, AtTarget, Entered, OneView
<1>9. Close \in Events /\ <<p, r>> \in Pairs /\ \A q \in Publishers, u \in Routers : <<q, u>> \in Pairs
  BY DEF Pairs, Events
<1>10. /\ inbox' \in [Pairs -> Seq(Events)]
       /\ \A y \in Pairs : \A f :
            /\ Contains(inbox[y], f) => Contains(inbox'[y], f)
            /\ Contains(inbox'[y], f) => Contains(inbox[y], f) \/ (y = <<p, r>> /\ f = Close)
  <2>1. /\ Told(<<p, r>>, Close) \in [Pairs -> Seq(Events)]
        /\ \A y \in Pairs : \A f :
             /\ Contains(inbox[y], f) => Contains(Told(<<p, r>>, Close)[y], f)
             /\ Contains(Told(<<p, r>>, Close)[y], f) =>
                  Contains(inbox[y], f) \/ (y = <<p, r>> /\ f = Close)
    BY <1>9, ToldSays
  <2>2. inbox \in [Pairs -> Seq(Events)]
    BY DEF RInv, AtTarget, TargetTypes
  <2>3. CASE p \in served[r]
    BY <1>4, <2>1, <2>3, Zenon
  <2>4. CASE p \notin served[r]
    BY <1>4, <2>2, <2>4, Zenon
  <2> QED BY <2>3, <2>4
<1>11. TargetTypes'
  BY <1>3, <1>4, <1>6, <1>7, <1>10 DEF RInv, AtTarget, TargetTypes
<1>12. Entered'
  BY <1>3, <1>4, <1>6, <1>8 DEF RInv, AtTarget, TargetTypes, Entered
<1>13. OneView'
  <2> SUFFICES ASSUME NEW q \in Routers
               PROVE  /\ listed'[q] = served'[q]
                      /\ rtp'[q] # "none" /\ server' # "panicked" => served'[q] # {}
    BY DEF OneView
  <2>1. CASE q = r
    BY <1>3, <1>4, <1>6, <1>7, <1>8, <2>1
  <2>2. CASE q # r
    BY <1>3, <1>6, <1>7, <2>2 DEF RInv, AtTarget, OneView
  <2> QED BY <2>1, <2>2
<1>14. TargetKeeps
  <2>1. /\ \A q \in Routers : router'[q] = router[q] /\ server # "stopped"
        /\ server' = "up" => server = "up"
    BY <1>3
  <2>2. \A q \in Routers : Open(q)' => Open(q)
    BY <2>1 DEF Open
  <2>3. ASSUME NEW q \in Publishers, NEW u \in Routers, CloseSaid(<<q, u>>)'
        PROVE  CloseSaid(<<q, u>>) \/ Over(q)
    <3>1. CASE q = p
      BY <1>5, <3>1
    <3>2. CASE q # p
      <4>1. <<q, u>> \in Pairs /\ <<q, u>> # <<p, r>>
        BY <1>9, <3>2
      <4> QED BY <1>3, <1>10, <2>3, <4>1 DEF CloseSaid
    <3> QED BY <3>1, <3>2
  <2>4. ASSUME NEW q \in Publishers, NEW t \in Ssrcs, NEW u \in Routers, There(q, t, u), ~Over(q)
        PROVE  There(q, t, u)'
    <3>1. q # p /\ q \in served[u] /\ rtp[u] # "none"
      BY <1>5, <2>4 DEF There
    <3>2. q \in served'[u] /\ rtp'[u] # "none"
      <4>1. CASE u = r
        BY <1>6, <1>7, <3>1, <4>1
      <4>2. CASE u # r
        BY <1>6, <1>7, <3>1, <4>2
      <4> QED BY <4>1, <4>2
    <3>3. <<q, u>> \in Pairs
      BY <1>9
    <3>4. t \in relayed'[<<q, u>>] \/ Contains(inbox'[<<q, u>>], t)
      BY <1>3, <1>10, <2>4, <3>3 DEF There
    <3> QED BY <3>2, <3>4 DEF There
  <2>5. ASSUME NEW q \in Publishers, NEW u \in Routers, Gone(q, u)
        PROVE  Gone(q, u)'
    <3>1. (q \in listed'[u] => q \in listed[u]) /\ (rtp[u] = "none" => rtp'[u] = "none")
      BY <1>6, <1>7
    <3> QED BY <2>1, <2>5, <3>1 DEF Gone
  <2> QED BY <2>2, <2>3, <2>4, <2>5 DEF TargetKeeps
<1>15. Gone(p, r)'
  BY <1>6 DEF Gone
<1> QED BY <1>1, <1>3, <1>5, <1>11, <1>12, <1>13, <1>14, <1>15, ReplyStep DEF AtTarget

\* A RelayedPublisher takes an event: a track is kept, or it was closed for a reason.
LEMMA HandlesInv ==
  ASSUME RInv, NEW x \in Pairs, RelayedPublisherHandles(x)
  PROVE  RInv'
<1> DEFINE h == Head(inbox[x])
<1>1. /\ UNCHANGED <<source, server, entries, served, rtp, listed, router>>
      /\ inbox[x] # << >> /\ relayed[x] # {Close}
  BY DEF RelayedPublisherHandles, registry
<1>2. /\ inbox \in [Pairs -> Seq(Events)] /\ relayed \in [Pairs -> SUBSET Events]
      /\ \A y \in Pairs : relayed[y] \subseteq Ssrcs \/ relayed[y] = {Close}
  BY DEF RInv, AtTarget, TargetTypes
<1>3. /\ Tail(inbox[x]) \in Seq(Events) /\ h \in Events
      /\ \A f : Contains(inbox[x], f) <=> Contains(Tail(inbox[x]), f) \/ f = h
  BY <1>1, <1>2, ContainsTail
<1>4. relayed[x] \subseteq Ssrcs /\ Close \notin Ssrcs
  BY <1>1, <1>2, RelayAssumption
<1>5. CASE h = Close
  <2>1. /\ relayed' = [relayed EXCEPT ![x] = {Close}] /\ inbox' = [inbox EXCEPT ![x] = << >>]
    BY <1>5 DEF RelayedPublisherHandles
  <2>2. << >> \in Seq(Events) /\ {Close} \in SUBSET Events
    BY DEF Events
  <2>3. /\ inbox' \in [Pairs -> Seq(Events)] /\ relayed' \in [Pairs -> SUBSET Events]
        /\ relayed'[x] = {Close}
        /\ \A y \in Pairs \ {x} : relayed'[y] = relayed[y] /\ inbox'[y] = inbox[y]
    BY <1>2, <2>1, <2>2
  <2>4. AtTarget'
    BY <1>1, <1>2, <2>3 DEF RInv, AtTarget, TargetTypes, Entered, OneView
  <2>5. CloseSaid(x)
    BY <1>3, <1>5 DEF CloseSaid
  <2>6. TargetKeeps
    <3>1. \A r \in Routers : Open(r)' <=> Open(r)
      BY <1>1 DEF Open
    <3>2. ASSUME NEW p \in Publishers, NEW r \in Routers, CloseSaid(<<p, r>>)'
          PROVE  CloseSaid(<<p, r>>)
      <4>1. <<p, r>> \in Pairs
        BY DEF Pairs
      <4> QED BY <2>3, <2>5, <3>2, <4>1 DEF CloseSaid
    <3>3. ASSUME NEW p \in Publishers, NEW s \in Ssrcs, NEW r \in Routers,
                 There(p, s, r), ~Over(p), Open(r)
          PROVE  There(p, s, r)'
      <4>1. ~CloseSaid(<<p, r>>)
        BY <3>3 DEF RInv, Between, ClosedByAReason
      <4>2. <<p, r>> \in Pairs /\ <<p, r>> # x
        BY <2>5, <4>1 DEF Pairs
      <4> QED BY <1>1, <2>3, <3>3, <4>2 DEF There
    <3>4. \A p \in Publishers, r \in Routers : Gone(p, r) => Gone(p, r)'
      BY <1>1 DEF Gone
    <3> QED BY <3>1, <3>2, <3>3, <3>4 DEF TargetKeeps
  <2> QED BY <1>1, <2>4, <2>6, TargetStep
<1>6. CASE h # Close
  <2>1. /\ relayed' = [relayed EXCEPT ![x] = @ \cup {h}] /\ inbox' = [inbox EXCEPT ![x] = Tail(@)]
    BY <1>6 DEF RelayedPublisherHandles
  <2>2. h \in Ssrcs
    BY <1>3, <1>6 DEF Events
  <2>3. /\ inbox' \in [Pairs -> Seq(Events)] /\ relayed' \in [Pairs -> SUBSET Events]
        /\ relayed'[x] = relayed[x] \cup {h} /\ inbox'[x] = Tail(inbox[x])
        /\ \A y \in Pairs \ {x} : relayed'[y] = relayed[y] /\ inbox'[y] = inbox[y]
    BY <1>2, <1>3, <2>1
  <2>4. relayed'[x] \subseteq Ssrcs
    BY <1>4, <2>2, <2>3
  <2>5. AtTarget'
    BY <1>1, <1>2, <2>3, <2>4 DEF RInv, AtTarget, TargetTypes, Entered, OneView
  <2>6. TargetKeeps
    <3>1. \A r \in Routers : Open(r)' <=> Open(r)
      BY <1>1 DEF Open
    <3>2. ASSUME NEW p \in Publishers, NEW r \in Routers, CloseSaid(<<p, r>>)'
          PROVE  CloseSaid(<<p, r>>)
      <4>1. <<p, r>> \in Pairs
        BY DEF Pairs
      <4>2. relayed'[x] # {Close}
        BY <1>4, <2>4
      <4> QED BY <1>3, <2>3, <3>2, <4>1, <4>2 DEF CloseSaid
    <3>3. ASSUME NEW p \in Publishers, NEW s \in Ssrcs, NEW r \in Routers, There(p, s, r)
          PROVE  There(p, s, r)'
      <4>1. <<p, r>> \in Pairs
        BY DEF Pairs
      <4>2. s \in relayed'[<<p, r>>] \/ Contains(inbox'[<<p, r>>], s)
        BY <1>3, <2>3, <3>3, <4>1 DEF There
      <4> QED BY <1>1, <3>3, <4>2 DEF There
    <3>4. \A p \in Publishers, r \in Routers : Gone(p, r) => Gone(p, r)'
      BY <1>1 DEF Gone
    <3> QED BY <3>1, <3>2, <3>3, <3>4 DEF TargetKeeps
  <2> QED BY <1>1, <2>5, <2>6, TargetStep
<1> QED BY <1>5, <1>6

-----------------------------------------------------------------------------
(* The specification *)

\* Every step preserves RInv.
LEMMA StepRelay == RInv /\ [Next]_vars => RInv'
<1> SUFFICES ASSUME RInv, [Next]_vars PROVE RInv'
  OBVIOUS
<1>1. ASSUME NEW p \in Publishers, PublisherSteps(p) PROVE RInv'
  BY <1>1, TrackAddedInv, HandleCloseInv, AskInv, StartSenderInv, RelayFailsInv, FinishInv
     DEF PublisherSteps
<1>2. ASSUME NEW p \in Publishers, NEW r \in Routers, Serve(p, r) PROVE RInv'
  BY <1>2, RefusedInv, ServeFirstInv, ServeTrackInv, ServeAnotherInv, ServeRemovalInv DEF Serve
<1>3. ASSUME NEW p \in Publishers,
             ClosePublisher(p) \/ Refuse(p) \/ (\E s \in Ssrcs : TrackOpens(p, s))
             \/ \E r \in Routers : RelayTo(p, r) \/ RelayNothing(p, r)
      PROVE  RInv'
  BY <1>3, EventsInv, RefusedInv, RelayToInv, RelayNothingInv
<1>4. ASSUME StopServer PROVE RInv'
  BY <1>4, ClosesInv
<1>5. ASSUME NEW r \in Routers,
             UdpSubscribes(r) \/ UdpFails(r) \/ RouterCloses(r) \/ WorkerForgets(r)
      PROVE  RInv'
  BY <1>5, UdpInv, ClosesInv
<1>6. ASSUME NEW x \in Pairs, RelayedPublisherHandles(x) PROVE RInv'
  BY <1>6, HandlesInv
<1>7. ASSUME UNCHANGED vars PROVE RInv'
  BY <1>7, TargetStays, TargetStep DEF vars
<1> QED BY <1>1, <1>2, <1>3, <1>4, <1>5, <1>6, <1>7 DEF Next

\* RInv holds in every reachable state.
THEOREM Inductive == Spec => []RInv
<1> QED BY InitRelay, StepRelay, PTL DEF Spec

\* The types of the publisher's and of the relay server's state; an entry of
\* RelayServer.publishers is never empty unless the server's task has panicked.
THEOREM TypeCorrect == Spec => []TypeOK
<1>1. RInv => TypeOK
  <2> SUFFICES ASSUME RInv PROVE TypeOK
    OBVIOUS
  <2>1. SourceTypes /\ TargetTypes /\ Entered
    BY DEF RInv, AtSource, AtTarget
  <2> QED BY <2>1 DEF SourceTypes, TargetTypes, Entered, TypeOK
<1> QED BY <1>1, Inductive, PTL

\* The router's list of relayed publishers and the relay server's entries agree
\* after every request, and a router's UDP server runs for somebody.
THEOREM RouterAndServerAgree == Spec => []OneView
<1>1. RInv => OneView
  BY DEF RInv, AtTarget
<1> QED BY <1>1, Inductive, PTL

\* Whoever sends a track's packets to an open router, after whatever failures of
\* earlier requests, has a RelayedPublisher and a UDP server there.
THEOREM SendersHaveReceivers == Spec => []ForwardedIsReceived
<1>1. RInv => ForwardedIsReceived
  BY DEF RInv, Between
<1> QED BY <1>1, Inductive, PTL

\* When the event loop of a closed publisher ends, no open router of a server that is up
\* has it any more, whatever relay_to calls failed, were repeated or found no track; only
\* a router whose UDP server found no port keeps it.
THEOREM ClosedPublishersGo == Spec => []ClosedIsForgotten
<1>1. RInv => ClosedIsForgotten
  <2> SUFFICES ASSUME RInv, NEW p \in Publishers, NEW r \in Routers, loop[p] = "done"
               PROVE  Gone(p, r)
    BY DEF ClosedIsForgotten, Gone
  <2>1. ~Gone(p, r) => WillTell(p, job[p], r)
    BY DEF RInv, Between, RemovalsGo
  <2> QED BY <2>1 DEF WillTell
<1> QED BY <1>1, Inductive, PTL

=============================================================================
