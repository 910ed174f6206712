------------------------------ MODULE Negotiation ------------------------------
(***************************************************************************)
(* Server-initiated (re)negotiation of one SubscribeTransport              *)
(* (src/sfu/src/subscribe_transport.rs): the Signaling state machine, the  *)
(* negotiate() calls that contend for the callback lock, the retry timer   *)
(* each round spawns, the offers and answers that travel through the       *)
(* application, and the offers that bypass Signaling (data_subscribe,      *)
(* restart_ice) or come from the client (get_answer).                      *)
(*                                                                         *)
(* An offer is the number of the local description it carries; what it     *)
(* contains is the number of tracks it covers.  The peer connection is     *)
(* external: it raises one negotiation-needed event per added track, and   *)
(* it accepts any answer while it has a local offer.  (A peer connection   *)
(* may raise the event again when it is stable; nothing here counts on it.)*)
(***************************************************************************)
EXTENDS Naturals, FiniteSets

CONSTANTS
  MaxAttempts,  \* negotiation_max_attempts of WebRTCTransportConfig
  MaxRounds,    \* bound: generations a behaviour may use
  MaxTracks,    \* bound: tracks a behaviour may add
  MaxDirect     \* bound: offers made outside Signaling

ASSUME NegotiationAssumption ==
  /\ MaxAttempts \in Nat /\ MaxRounds \in Nat
  /\ MaxTracks \in Nat /\ MaxDirect \in Nat

Rounds == 1 .. MaxRounds
Versions == 1 .. (MaxRounds + MaxDirect)

VARIABLES
  phase, attempt, renego, generation, \* Signaling
  owner,      \* the task of each generation: its negotiate() call or its timer
  acquired,   \* history: the generation that task acquired its first round with
  guard,      \* generation whose negotiate() holds on_negotiation_needed_fn, or 0
  events,     \* negotiation-needed events raised and not yet handled
  waiting,    \* negotiate() calls waiting for the callback lock
  releasing,  \* set_answer() calls between set_remote_description and release
  sdp,        \* signaling state of the peer connection
  seenRemote, \* the cached signaling state is HaveRemoteOffer
  seenClosed, \* the cached connection state is Closed
  whep, dropped,
  version,    \* local descriptions made so far
  local,      \* the offer that is the local description, or 0
  covers,     \* tracks each offer covers
  asked,      \* tracks the client's own offer covers
  wanted,     \* tracks added to the peer connection
  negotiated, \* tracks the client has answered for
  offered,    \* offers handed to the application that may be answered
  direct,     \* data_subscribe/restart_ice calls gathering candidates
  directs,    \* such calls so far
  excused     \* history: tracks added when a need was last lost for a named cause

signaling == <<phase, attempt, renego, generation>>
peer == <<sdp, version, local, covers, asked>>
tracks == <<wanted, negotiated>>
modes == <<seenRemote, seenClosed, whep, dropped>>
directVars == <<direct, directs>>
calls == <<events, waiting, releasing>>
owners == <<owner, acquired>>
vars == <<signaling, owners, guard, calls, peer, modes, tracks, offered, directVars,
          excused>>

Live == {"creating", "gathering", "sleeping"}

Init ==
  /\ phase = "idle" /\ attempt = 0 /\ renego = FALSE /\ generation = 0
  /\ owner = [g \in Rounds |-> "none"] /\ guard = 0
  /\ acquired = [g \in Rounds |-> 0]
  /\ events = 0 /\ waiting = 0 /\ releasing = 0
  /\ sdp = "stable" /\ version = 0 /\ local = 0
  /\ covers = [v \in Versions |-> 0] /\ asked = 0
  /\ seenRemote = FALSE /\ seenClosed = FALSE /\ whep = FALSE /\ dropped = FALSE
  /\ wanted = 0 /\ negotiated = 0
  /\ offered = {} /\ direct = 0 /\ directs = 0
  /\ excused = 0

-----------------------------------------------------------------------------
(* Signaling *)

\* The round is over and nobody holds it (Phase::Idle).
Release == phase' = "idle" /\ attempt' = 0 /\ renego' = FALSE /\ UNCHANGED generation

\* What a loop `while negotiate()` adds to the calls waiting for the lock: a
\* call returns before it when the session is WHEP or the connection is gone.
Entering == IF whep \/ dropped THEN 0 ELSE 1

\* What the transport may lose, by cause: NeedIsTracked says no more of the tracks
\* there are now.  The causes: an offer that fails (negotiate() or its timer), a
\* round that is given up, an older answer taken for the newest offer, and a call
\* that is skipped because of a remote offer.
Excused == excused' = wanted

\* The calls a released round starts: release() says whether one was deferred.
NoneRelaunched == 0 \* mutation: the result of release() is ignored
Relaunched == IF phase = "offering" /\ renego THEN Entering ELSE 0

\* on_timeout may offer again.
OneMoreAttempt == attempt <= MaxAttempts \* mutation: off by one
AttemptsLeft == attempt < MaxAttempts

\* What a timer finds when it wakes up: its round is over or another one is on.
IdleOnly(g) == phase = "idle" \* mutation: the generation is not compared
Stale(g) == phase = "idle" \/ generation # g

\* Generations a new round may need (the bound on rounds).
RoundLength == IF MaxAttempts = 0 THEN 1 ELSE MaxAttempts
Room == generation + RoundLength <= MaxRounds

\* A negotiate() call gets the callback lock.
LockIgnored == waiting > 0 \* mutation: the lock is taken after acquire_or_defer
HasLock == waiting > 0 /\ guard = 0

\* A timer whose retry failed.
Broken == "done" \* mutation: break instead of continue
AfterFailedRetry == "sleeping"

-----------------------------------------------------------------------------
(* negotiate() *)

\* subscribe_track or add_probe adds a transceiver.
AddTrack ==
  /\ ~dropped /\ sdp # "closed" /\ wanted < MaxTracks
  /\ wanted' = wanted + 1
  /\ events' = events + 1
  /\ UNCHANGED <<signaling, owners, guard, waiting, releasing, peer, modes,
                 negotiated, offered, directVars, excused>>

\* on_negotiation_needed spawns `while negotiate() {}`.
OnNegotiationNeeded ==
  /\ events > 0
  /\ events' = events - 1
  /\ waiting' = waiting + Entering
  /\ UNCHANGED <<signaling, owners, guard, releasing, peer, modes, tracks, offered,
                 directVars, excused>>

\* A call that has the lock finds the connection closed or a remote offer, by
\* what the callbacks said last, which may be over: its need is dropped.
Skip ==
  /\ HasLock
  /\ seenClosed \/ seenRemote
  /\ waiting' = waiting - 1
  /\ Excused
  /\ UNCHANGED <<signaling, owners, guard, events, releasing, peer, modes, tracks,
                 offered, directVars>>

\* acquire_or_defer on an idle Signaling: the call keeps the lock.
Acquire ==
  /\ HasLock /\ ~seenClosed /\ ~seenRemote
  /\ phase = "idle"
  /\ Room
  /\ phase' = "offering" /\ attempt' = 1 /\ renego' = FALSE
  /\ generation' = generation + 1
  /\ guard' = generation'
  /\ acquired' = [acquired EXCEPT ![generation'] = generation']
  /\ owner' = [owner EXCEPT ![generation'] = "creating"]
  /\ waiting' = waiting - 1
  /\ UNCHANGED <<events, releasing, peer, modes, tracks, offered, directVars,
                 excused>>

\* acquire_or_defer while a round is on: the round must be followed by another.
Defer ==
  /\ HasLock /\ ~seenClosed /\ ~seenRemote
  /\ phase = "offering"
  /\ renego' = TRUE
  /\ waiting' = waiting - 1
  /\ UNCHANGED <<phase, attempt, generation, owners, guard, events, releasing,
                 peer, modes, tracks, offered, directVars, excused>>

-----------------------------------------------------------------------------
(* create_and_send_offer, for a negotiate() call or for a timer *)

\* pc.create_offer and pc.set_local_description.
SetLocalOffer ==
  /\ sdp \in {"stable", "haveLocal"}
  /\ version + 1 \in Versions \* bound: one offer per generation or direct call
  /\ sdp' = "haveLocal"
  /\ version' = version + 1
  /\ local' = version'
  /\ covers' = [covers EXCEPT ![version'] = wanted] /\ UNCHANGED asked

SetLocal(g) ==
  /\ owner[g] = "creating"
  /\ SetLocalOffer
  /\ owner' = [owner EXCEPT ![g] = "gathering"]
  /\ UNCHANGED <<signaling, acquired, guard, calls, modes, tracks, offered, directVars,
                 excused>>

\* Candidates are gathered: the local description as it is now goes to the
\* callback.  A negotiate() call frees the lock and leaves a sleeping timer; a
\* timer takes the lock for the callback only.
Emit(g) ==
  /\ owner[g] = "gathering"
  /\ guard \in {0, g}
  /\ guard' = 0
  /\ offered' = IF local = 0 THEN offered ELSE offered \cup {local}
  /\ owner' = [owner EXCEPT ![g] = "sleeping"]
  /\ UNCHANGED <<signaling, acquired, calls, peer, modes, tracks,
                 directVars, excused>>

\* Any step of create_and_send_offer fails in a negotiate() call: the round is
\* released, and a deferred call would start the next one.
NegotiateFails(g) ==
  /\ guard = g /\ owner[g] \in {"creating", "gathering"}
  /\ Release
  /\ guard' = 0
  /\ owner' = [owner EXCEPT ![g] = "done"]
  /\ waiting' = waiting + Relaunched
  /\ Excused
  /\ UNCHANGED <<acquired, events, releasing, peer, modes, tracks, offered, directVars>>

\* ... or in a timer, which goes back to sleep with the same generation.
RetryFails(g) ==
  /\ guard # g /\ owner[g] \in {"creating", "gathering"}
  /\ owner' = [owner EXCEPT ![g] = AfterFailedRetry]
  /\ Excused
  /\ UNCHANGED <<signaling, acquired, guard, calls, peer, modes, tracks, offered, directVars>>

-----------------------------------------------------------------------------
(* The timer of generation g: on_timeout and what it decides *)

TimeoutStale(g) ==
  /\ owner[g] = "sleeping"
  /\ dropped \/ Stale(g)
  /\ owner' = [owner EXCEPT ![g] = "done"]
  /\ UNCHANGED <<signaling, acquired, guard, calls, peer, modes, tracks, offered, directVars,
                 excused>>

TimeoutRetry(g) ==
  /\ owner[g] = "sleeping" /\ ~dropped /\ ~Stale(g)
  /\ AttemptsLeft
  /\ generation' = generation + 1 /\ attempt' = attempt + 1 /\ renego' = FALSE
  /\ UNCHANGED phase
  /\ owner' = [owner EXCEPT ![g] = "done", ![generation'] = "creating"]
  /\ acquired' = [acquired EXCEPT ![generation'] = acquired[g]]
  /\ UNCHANGED <<guard, calls, peer, modes, tracks, offered, directVars, excused>>

TimeoutGiveUp(g) ==
  /\ owner[g] = "sleeping" /\ ~dropped /\ ~Stale(g)
  /\ ~AttemptsLeft
  /\ Release
  /\ owner' = [owner EXCEPT ![g] = "done"]
  /\ Excused
  /\ UNCHANGED <<acquired, guard, calls, peer, modes, tracks, offered, directVars>>

-----------------------------------------------------------------------------
(* The client and the application between it and the transport *)

\* The first half of set_answer: pc.set_remote_description(answer).  An offer may
\* be answered late, after newer ones, or never.  Without a local offer the call
\* fails and nothing is released.
SetAnswer(v) ==
  /\ ~dropped /\ v \in offered
  /\ sdp = "haveLocal"
  /\ sdp' = "stable"
  /\ negotiated' = IF covers[v] > negotiated THEN covers[v] ELSE negotiated
  /\ releasing' = releasing + 1
  /\ offered' = offered \ {v}
  /\ excused' = IF covers[v] < covers[local] THEN wanted ELSE excused
  /\ UNCHANGED <<signaling, owners, guard, events, waiting, version, local, covers,
                 asked, modes, wanted, directVars>>

\* The second half: the round is released, and a deferred call negotiates again.
FinishAnswer ==
  /\ releasing > 0
  /\ releasing' = releasing - 1
  /\ Release
  /\ waiting' = waiting + Relaunched
  /\ UNCHANGED <<owners, guard, events, peer, modes, tracks, offered, directVars,
                 excused>>

-----------------------------------------------------------------------------
(* Offers outside Signaling, remote offers, and the end of the transport *)

\* data_subscribe's create_offer, or restart_ice: no round is acquired.
DirectOffer ==
  /\ ~dropped /\ directs < MaxDirect
  /\ SetLocalOffer
  /\ direct' = direct + 1 /\ directs' = directs + 1
  /\ UNCHANGED <<signaling, owners, guard, calls, modes, tracks, offered, excused>>

ReturnDirectOffer ==
  /\ direct > 0
  /\ direct' = direct - 1
  /\ offered' = IF local = 0 THEN offered ELSE offered \cup {local}
  /\ UNCHANGED <<signaling, owners, guard, calls, peer, modes, tracks,
                 directs, excused>>

\* subscribe_with_offer marks the transport as WHEP before anything else.
UseWhep ==
  /\ ~whep /\ ~dropped
  /\ whep' = TRUE
  /\ UNCHANGED <<signaling, owners, guard, calls, peer, seenRemote, seenClosed,
                 dropped, tracks, offered, directVars, excused>>

\* get_answer, first await: the client's offer becomes the remote description.  It
\* has a place for some of the tracks added before it.
RemoteOffer ==
  /\ ~dropped /\ sdp \in {"stable", "haveRemote"}
  /\ sdp' = "haveRemote"
  /\ asked' \in negotiated .. wanted
  /\ UNCHANGED <<signaling, owners, guard, calls, version, local, covers, modes,
                 tracks, offered, directVars, excused>>

\* get_answer, the rest: the answer becomes the local description.  It covers what
\* the offer had a place for, whatever was added meanwhile.  It may fail: then the
\* remote offer stays.
LocalAnswer ==
  /\ sdp = "haveRemote"
  /\ sdp' = "stable" /\ local' = 0 /\ asked' = 0
  /\ negotiated' = IF asked > negotiated THEN asked ELSE negotiated
  /\ UNCHANGED <<signaling, owners, guard, calls, version, covers, modes, wanted,
                 offered, directVars, excused>>

\* on_signaling_state_change and on_connection_state_change.
StateCallbacks ==
  /\ ~dropped
  /\ seenRemote' = (sdp = "haveRemote")
  /\ seenClosed' = (sdp = "closed")
  /\ UNCHANGED <<signaling, owners, guard, calls, peer, whep, dropped, tracks, offered,
                 directVars, excused>>

\* close(): the peer connection is closed.
Close ==
  /\ ~dropped /\ sdp # "closed"
  /\ sdp' = "closed"
  /\ UNCHANGED <<signaling, owners, guard, calls, version, local, covers, asked, modes,
                 tracks, offered, directVars, excused>>

\* The application drops the transport; a running set_answer borrows it.
Drop ==
  /\ ~dropped /\ releasing = 0
  /\ dropped' = TRUE
  /\ UNCHANGED <<signaling, owners, guard, calls, peer, seenRemote, seenClosed, whep,
                 tracks, offered, directVars, excused>>

-----------------------------------------------------------------------------
Create(g) == SetLocal(g) \/ NegotiateFails(g) \/ RetryFails(g)
Timeout(g) == TimeoutStale(g) \/ TimeoutRetry(g) \/ TimeoutGiveUp(g)
Negotiate == Skip \/ Acquire \/ Defer

Next ==
  \/ AddTrack \/ OnNegotiationNeeded \/ Negotiate
  \/ \E g \in Rounds : Create(g) \/ Emit(g) \/ Timeout(g)
  \/ \E v \in Versions : SetAnswer(v)
  \/ FinishAnswer
  \/ DirectOffer \/ ReturnDirectOffer
  \/ UseWhep \/ RemoteOffer \/ LocalAnswer
  \/ StateCallbacks \/ Close \/ Drop

\* Tokio runs a task that is ready and a timer that has expired; gathering
\* completes.  Nothing is assumed of the client or of the application.
Fairness ==
  /\ WF_vars(OnNegotiationNeeded) /\ WF_vars(Negotiate) /\ WF_vars(FinishAnswer)
  /\ \A g \in Rounds : WF_vars(Create(g)) /\ SF_vars(Emit(g)) /\ WF_vars(Timeout(g))

Spec == Init /\ [][Next]_vars
FairSpec == Spec /\ Fairness

\* Nothing fails, every offer is answered, before its round's timer fires.
CalmNext ==
  \/ AddTrack \/ OnNegotiationNeeded \/ Negotiate
  \/ \E g \in Rounds : SetLocal(g) \/ Emit(g) \/ TimeoutStale(g)
  \/ \E v \in Versions : SetAnswer(v)
  \/ FinishAnswer
  \/ DirectOffer \/ ReturnDirectOffer

CalmSpec ==
  /\ Init /\ [][CalmNext]_vars /\ Fairness
  /\ WF_vars(ReturnDirectOffer)
  /\ \A v \in Versions : WF_vars(SetAnswer(v))

-----------------------------------------------------------------------------
(* Properties *)

\* The variables have their types, and a round never counts more attempts than
\* negotiation_max_attempts allows (one when that is zero).
TypeOK ==
  /\ phase \in {"idle", "offering"} /\ renego \in BOOLEAN
  /\ attempt \in 0 .. RoundLength /\ generation \in 0 .. MaxRounds
  /\ owner \in [Rounds -> Live \cup {"none", "done"}] /\ guard \in 0 .. MaxRounds
  /\ events \in Nat /\ waiting \in Nat /\ releasing \in Nat
  /\ sdp \in {"stable", "haveLocal", "haveRemote", "closed"}
  /\ version \in 0 .. (MaxRounds + MaxDirect) /\ local \in 0 .. version
  /\ covers \in [Versions -> 0 .. MaxTracks]
  /\ seenRemote \in BOOLEAN /\ seenClosed \in BOOLEAN
  /\ whep \in BOOLEAN /\ dropped \in BOOLEAN
  /\ acquired \in [Rounds -> 0 .. MaxRounds]
  /\ wanted \in 0 .. MaxTracks /\ negotiated \in 0 .. MaxTracks
  /\ asked \in 0 .. MaxTracks /\ excused \in 0 .. MaxTracks
  /\ offered \subseteq Versions
  /\ direct \in Nat /\ directs \in 0 .. MaxDirect

\* A round in progress always has a task that will end it: its negotiate() call
\* or the timer of its current generation.  Without one every later
\* negotiation would be deferred for ever (acquire_or_defer never succeeds).
RoundHasOwner ==
  phase = "offering" /\ ~dropped => owner[generation] \in Live

\* No call is deferred to a round whose negotiate() call still holds the lock:
\* such a deferral could be dropped, or looped on, by the error path of
\* negotiate(), which releases the round it is in.
NoDeferralWhileCreating == renego => guard # generation

\* The tracks added so far are in hand: answered for, about to be negotiated,
\* deferred to a running round, or part of the pending local offer.
InHand ==
  \/ negotiated = wanted
  \/ events > 0 \/ waiting > 0
  \/ phase = "offering" /\ renego
  \/ \E g \in Rounds : owner[g] = "creating"
  \/ sdp = "haveLocal" /\ covers[local] = wanted

\* No added track is forgotten, however calls, timers, retries, answers and the
\* client's own offers interleave, while the transport is there and is not WHEP
\* (which has no path for an offer of the server).  A need may be lost for one of
\* the causes of Excused; what is added after that must be in hand again, and a
\* track the client's offer had no place for is not covered by the answer to it.
NeedIsTracked ==
  \/ InHand
  \/ excused = wanted
  \/ whep \/ dropped \/ sdp = "closed"

\* A round that is given up was offered negotiation_max_attempts times, each time
\* by the task that acquired it: the timer of another round neither uses up its
\* attempts nor gives it up, and its own timer does not stop early.
GivenUpInFull ==
  [][phase = "offering" /\ phase' = "idle" /\ guard' = guard
       /\ releasing' = releasing
     => generation + 1 = acquired[generation] + RoundLength]_vars

\* Every round ends: it is answered, it fails, or its timer gives up.
RoundEnds == phase = "offering" ~> (phase = "idle" \/ dropped)

\* With a client that answers in time every added track gets negotiated,
\* including the ones whose negotiation was deferred, and those that an offer of
\* data_subscribe or restart_ice overtook.
AllNegotiated ==
  \A n \in 1 .. MaxTracks : (wanted >= n) ~> (negotiated >= n \/ excused >= n)
=============================================================================
