--------------------------- MODULE NegotiationProofs ---------------------------
(***************************************************************************)
(* Safety of Negotiation for every number of attempts, rounds, tracks and  *)
(* direct offers.  The inductive invariant adds to the properties that a   *)
(* running round has generations left for its retries, that generations    *)
(* are handed out in order, that the callback lock is held by a call that  *)
(* is still making its offer, and that no offer covers a track that was    *)
(* not added.                                                              *)
(***************************************************************************)
EXTENDS Negotiation, TLAPS

\* The part of TypeOK the argument needs: the flags, and everything else.
Flags ==
  /\ renego \in BOOLEAN
  /\ seenRemote \in BOOLEAN /\ seenClosed \in BOOLEAN
  /\ whep \in BOOLEAN /\ dropped \in BOOLEAN

Types ==
  /\ phase \in {"idle", "offering"}
  /\ attempt \in Nat /\ generation \in 0 .. MaxRounds
  /\ owner \in [Rounds -> Live \cup {"none", "done"}] /\ guard \in 0 .. MaxRounds
  /\ events \in Nat /\ waiting \in Nat /\ releasing \in Nat
  /\ sdp \in {"stable", "haveLocal", "haveRemote", "closed"}
  /\ version \in 0 .. (MaxRounds + MaxDirect) /\ local \in 0 .. version
  /\ covers \in [Versions -> 0 .. MaxTracks]
  /\ wanted \in 0 .. MaxTracks /\ negotiated \in 0 .. MaxTracks
  /\ asked \in 0 .. MaxTracks /\ excused \in 0 .. MaxTracks
  /\ acquired \in [Rounds -> 0 .. MaxRounds]
  /\ offered \subseteq Versions
  /\ direct \in Nat /\ directs \in 0 .. MaxDirect

RoundFits ==
  /\ phase = "idle" => attempt = 0
  /\ phase = "offering" =>
       /\ attempt \in 1 .. RoundLength /\ generation \in Rounds
       /\ generation + (RoundLength - attempt) <= MaxRounds
       /\ acquired[generation] + attempt = generation + 1

OwnersInOrder == \A g \in Rounds : g > generation => owner[g] = "none"

GuardIsCreating == guard # 0 => owner[guard] \in {"creating", "gathering"}

OffersAreReal ==
  /\ negotiated <= wanted /\ asked <= wanted
  /\ \A v \in Versions : covers[v] <= wanted
  /\ sdp = "haveLocal" => local \in Versions

IInv ==
  /\ Flags /\ Types /\ RoundFits /\ OwnersInOrder /\ GuardIsCreating
  /\ RoundHasOwner /\ NoDeferralWhileCreating

\* Nothing is live, deferred or wanted in an initial state.
LEMMA InitInv == Init => IInv /\ OffersAreReal /\ NeedIsTracked
<1> SUFFICES ASSUME Init PROVE IInv /\ OffersAreReal /\ NeedIsTracked
  OBVIOUS
<1> USE NegotiationAssumption DEF Init, Rounds, Versions
<1>1. Types
  BY DEF Types, Live
<1>5. Flags
  BY DEF Flags
<1>2. RoundFits /\ OwnersInOrder /\ GuardIsCreating
  BY DEF RoundFits, OwnersInOrder, GuardIsCreating
<1>3. RoundHasOwner /\ NoDeferralWhileCreating
  BY DEF RoundHasOwner, NoDeferralWhileCreating
<1>4. OffersAreReal /\ NeedIsTracked
  BY DEF OffersAreReal, NeedIsTracked, InHand
<1> QED
  BY <1>1, <1>2, <1>3, <1>4, <1>5 DEF IInv

\* Signaling, its owners and the types: one step per action.
LEMMA StepInv == IInv /\ [Next]_vars => IInv'
<1> SUFFICES ASSUME IInv, [Next]_vars PROVE IInv'
  OBVIOUS
<1> USE NegotiationAssumption
    DEF IInv, Flags, Types, RoundFits, OwnersInOrder, GuardIsCreating, RoundHasOwner,
        NoDeferralWhileCreating, Rounds, Versions, Live, RoundLength,
        signaling, calls, peer, modes, tracks, directVars, owners
<1>1. CASE AddTrack
  BY <1>1 DEF AddTrack
<1>2. CASE OnNegotiationNeeded
  BY <1>2 DEF OnNegotiationNeeded, Entering
<1>3. CASE Skip
  BY <1>3 DEF Skip, HasLock, Excused
<1>4. CASE Acquire
  <2>7. Flags'
    BY <1>4 DEF Acquire, HasLock, Room
  <2>1. Types'
    BY <1>4 DEF Acquire, HasLock, Room
  <2>2. RoundFits'
    BY <1>4 DEF Acquire, HasLock, Room
  <2>3. OwnersInOrder'
    BY <1>4 DEF Acquire, HasLock, Room
  <2>4. GuardIsCreating'
    BY <1>4 DEF Acquire, HasLock, Room
  <2>5. RoundHasOwner'
    BY <1>4 DEF Acquire, HasLock, Room
  <2>6. NoDeferralWhileCreating'
    BY <1>4 DEF Acquire, HasLock, Room
  <2> QED
    BY <2>1, <2>2, <2>3, <2>4, <2>5, <2>6, <2>7 DEF IInv
<1>5. CASE Defer
  <2>7. Flags'
    BY <1>5 DEF Defer, HasLock
  <2>1. Types'
    BY <1>5 DEF Defer, HasLock
  <2>2. RoundFits'
    BY <1>5 DEF Defer, HasLock
  <2>3. OwnersInOrder'
    BY <1>5 DEF Defer, HasLock
  <2>4. GuardIsCreating'
    BY <1>5 DEF Defer, HasLock
  <2>5. RoundHasOwner'
    BY <1>5 DEF Defer, HasLock
  <2>6. NoDeferralWhileCreating'
    BY <1>5 DEF Defer, HasLock
  <2> QED
    BY <2>1, <2>2, <2>3, <2>4, <2>5, <2>6, <2>7 DEF IInv
<1>6. ASSUME NEW g \in Rounds, SetLocal(g) PROVE IInv'
  BY <1>6 DEF SetLocal, SetLocalOffer
<1>7. ASSUME NEW g \in Rounds, NegotiateFails(g) PROVE IInv'
  <2>0. Relaunched \in Nat
    BY DEF Relaunched, Entering
  <2>7. Flags'
    BY <1>7, <2>0 DEF NegotiateFails, Release, Excused
  <2>1. Types'
    BY <1>7, <2>0 DEF NegotiateFails, Release, Excused
  <2>2. RoundFits'
    BY <1>7, <2>0 DEF NegotiateFails, Release, Excused
  <2>3. OwnersInOrder'
    BY <1>7, <2>0 DEF NegotiateFails, Release, Excused
  <2>4. GuardIsCreating'
    BY <1>7, <2>0 DEF NegotiateFails, Release, Excused
  <2>5. RoundHasOwner'
    BY <1>7, <2>0 DEF NegotiateFails, Release, Excused
  <2>6. NoDeferralWhileCreating'
    BY <1>7, <2>0 DEF NegotiateFails, Release, Excused
  <2> QED
    BY <2>1, <2>2, <2>3, <2>4, <2>5, <2>6, <2>7 DEF IInv
<1>8. ASSUME NEW g \in Rounds, RetryFails(g) PROVE IInv'
  <2>7. Flags'
    BY <1>8 DEF RetryFails, AfterFailedRetry, Excused
  <2>1. Types'
    BY <1>8 DEF RetryFails, AfterFailedRetry, Excused
  <2>2. RoundFits'
    BY <1>8 DEF RetryFails, AfterFailedRetry, Excused
  <2>3. OwnersInOrder'
    BY <1>8 DEF RetryFails, AfterFailedRetry, Excused
  <2>4. GuardIsCreating'
    BY <1>8 DEF RetryFails, AfterFailedRetry, Excused
  <2>5. RoundHasOwner'
    BY <1>8 DEF RetryFails, AfterFailedRetry, Excused
  <2>6. NoDeferralWhileCreating'
    BY <1>8 DEF RetryFails, AfterFailedRetry, Excused
  <2> QED
    BY <2>1, <2>2, <2>3, <2>4, <2>5, <2>6, <2>7 DEF IInv
<1>9. ASSUME NEW g \in Rounds, Emit(g) PROVE IInv'
  <2>7. Flags'
    BY <1>9 DEF Emit
  <2>1. Types'
    <3>1. offered' \subseteq Versions
      BY <1>9 DEF Emit
    <3>2. owner' \in [Rounds -> Live \cup {"none", "done"}]
      BY <1>9 DEF Emit
    <3>3. guard' \in 0 .. MaxRounds
      BY <1>9 DEF Emit
    <3> QED
      BY <1>9, <3>1, <3>2, <3>3 DEF Emit
  <2>2. RoundFits'
    BY <1>9 DEF Emit
  <2>3. OwnersInOrder'
    BY <1>9 DEF Emit
  <2>4. GuardIsCreating'
    BY <1>9 DEF Emit
  <2>5. RoundHasOwner'
    BY <1>9 DEF Emit
  <2>6. NoDeferralWhileCreating'
    BY <1>9 DEF Emit
  <2> QED
    BY <2>1, <2>2, <2>3, <2>4, <2>5, <2>6, <2>7 DEF IInv
<1>10. ASSUME NEW g \in Rounds, TimeoutStale(g) PROVE IInv'
  BY <1>10 DEF TimeoutStale, Stale
<1>11. ASSUME NEW g \in Rounds, TimeoutRetry(g) PROVE IInv'
  <2>0. /\ g = generation /\ phase = "offering" /\ attempt < MaxAttempts
        /\ generation + 1 \in Rounds /\ acquired[g] \in 0 .. MaxRounds
        /\ RoundLength = MaxAttempts
    BY <1>11 DEF TimeoutRetry, Stale, AttemptsLeft
  <2>7. Flags'
    BY <1>11, <2>0 DEF TimeoutRetry
  <2>1. Types'
    <3>1. owner' \in [Rounds -> Live \cup {"none", "done"}]
      BY <1>11, <2>0 DEF TimeoutRetry
    <3>2. acquired' \in [Rounds -> 0 .. MaxRounds]
      BY <1>11, <2>0 DEF TimeoutRetry
    <3>3. attempt' \in Nat /\ generation' \in 0 .. MaxRounds /\ phase' = phase
      BY <1>11, <2>0 DEF TimeoutRetry
    <3> QED
      BY <1>11, <3>1, <3>2, <3>3 DEF TimeoutRetry
  <2>2. RoundFits'
    <3>1. acquired'[generation + 1] = acquired[generation]
      BY <1>11, <2>0 DEF TimeoutRetry
    <3>2. phase' = "offering" /\ generation' = generation + 1 /\ attempt' = attempt + 1
      BY <1>11, <2>0 DEF TimeoutRetry
    <3>3. acquired[generation] + attempt = generation + 1
      BY <2>0
    <3>4. attempt + 1 \in 1 .. RoundLength
          /\ generation + 1 + (RoundLength - (attempt + 1)) <= MaxRounds
          /\ acquired[generation] + (attempt + 1) = generation + 1 + 1
      BY <2>0, <3>3
    <3>5. acquired'[generation'] + attempt' = generation' + 1
      BY <3>1, <3>2, <3>4
    <3> QED
      BY <2>0, <3>2, <3>4, <3>5
  <2>3. OwnersInOrder'
    BY <1>11, <2>0 DEF TimeoutRetry
  <2>4. GuardIsCreating'
    BY <1>11, <2>0 DEF TimeoutRetry
  <2>5. RoundHasOwner'
    BY <1>11, <2>0 DEF TimeoutRetry
  <2>6. NoDeferralWhileCreating'
    BY <1>11, <2>0 DEF TimeoutRetry
  <2> QED
    BY <2>1, <2>2, <2>3, <2>4, <2>5, <2>6, <2>7 DEF IInv
<1>12. ASSUME NEW g \in Rounds, TimeoutGiveUp(g) PROVE IInv'
  <2>7. Flags'
    BY <1>12 DEF TimeoutGiveUp, Stale, AttemptsLeft, Release, Excused
  <2>1. Types'
    BY <1>12 DEF TimeoutGiveUp, Stale, AttemptsLeft, Release, Excused
  <2>2. RoundFits'
    BY <1>12 DEF TimeoutGiveUp, Stale, AttemptsLeft, Release, Excused
  <2>3. OwnersInOrder'
    BY <1>12 DEF TimeoutGiveUp, Stale, AttemptsLeft, Release, Excused
  <2>4. GuardIsCreating'
    BY <1>12 DEF TimeoutGiveUp, Stale, AttemptsLeft, Release, Excused
  <2>5. RoundHasOwner'
    BY <1>12 DEF TimeoutGiveUp, Stale, AttemptsLeft, Release, Excused
  <2>6. NoDeferralWhileCreating'
    BY <1>12 DEF TimeoutGiveUp, Stale, AttemptsLeft, Release, Excused
  <2> QED
    BY <2>1, <2>2, <2>3, <2>4, <2>5, <2>6, <2>7 DEF IInv
<1>14. ASSUME NEW v \in Versions, SetAnswer(v) PROVE IInv'
  BY <1>14 DEF SetAnswer
<1>16. CASE FinishAnswer
  <2>0. Relaunched \in Nat
    BY DEF Relaunched, Entering
  <2>7. Flags'
    BY <1>16, <2>0 DEF FinishAnswer, Release
  <2>1. Types'
    BY <1>16, <2>0 DEF FinishAnswer, Release
  <2>2. RoundFits'
    BY <1>16, <2>0 DEF FinishAnswer, Release
  <2>3. OwnersInOrder'
    BY <1>16, <2>0 DEF FinishAnswer, Release
  <2>4. GuardIsCreating'
    BY <1>16, <2>0 DEF FinishAnswer, Release
  <2>5. RoundHasOwner'
    BY <1>16, <2>0 DEF FinishAnswer, Release
  <2>6. NoDeferralWhileCreating'
    BY <1>16, <2>0 DEF FinishAnswer, Release
  <2> QED
    BY <2>1, <2>2, <2>3, <2>4, <2>5, <2>6, <2>7 DEF IInv
<1>17. CASE DirectOffer
  BY <1>17 DEF DirectOffer, SetLocalOffer
<1>18. CASE ReturnDirectOffer
  BY <1>18 DEF ReturnDirectOffer
<1>19. CASE UseWhep
  BY <1>19 DEF UseWhep
<1>20. CASE RemoteOffer
  BY <1>20 DEF RemoteOffer
<1>21. CASE LocalAnswer
  BY <1>21 DEF LocalAnswer
<1>22. CASE StateCallbacks
  BY <1>22 DEF StateCallbacks
<1>23. CASE Close
  BY <1>23 DEF Close
<1>24. CASE Drop
  BY <1>24 DEF Drop
<1>25. CASE UNCHANGED vars
  BY <1>25 DEF vars
<1> QED
  BY <1>1, <1>2, <1>3, <1>4, <1>5, <1>6, <1>7, <1>8, <1>9, <1>10, <1>11, <1>12,
     <1>14, <1>16, <1>17, <1>18, <1>19, <1>20, <1>21, <1>22, <1>23,
     <1>24, <1>25
  DEF Next, Negotiate, Create, Timeout

\* What is negotiated or offered was added, and a pending local offer exists.
LEMMA StepOffers ==
  IInv /\ OffersAreReal /\ [Next]_vars => OffersAreReal'
<1> SUFFICES ASSUME IInv /\ OffersAreReal, [Next]_vars PROVE OffersAreReal'
  OBVIOUS
<1> USE NegotiationAssumption
    DEF OffersAreReal, IInv, Types, Versions, Rounds,
        signaling, calls, peer, modes, tracks, directVars, owners
<1>1. CASE AddTrack
  BY <1>1 DEF AddTrack
<1>2. CASE OnNegotiationNeeded
  BY <1>2 DEF OnNegotiationNeeded, Entering
<1>3. CASE Skip
  BY <1>3 DEF Skip, HasLock, Excused
<1>4. CASE Acquire
  BY <1>4 DEF Acquire, HasLock
<1>5. CASE Defer
  BY <1>5 DEF Defer, HasLock
<1>6. ASSUME NEW g \in Rounds, SetLocal(g) PROVE OffersAreReal'
  BY <1>6 DEF SetLocal, SetLocalOffer
<1>7. ASSUME NEW g \in Rounds, NegotiateFails(g) PROVE OffersAreReal'
  BY <1>7 DEF NegotiateFails, Release, Excused
<1>8. ASSUME NEW g \in Rounds, RetryFails(g) PROVE OffersAreReal'
  BY <1>8 DEF RetryFails, AfterFailedRetry, Excused
<1>9. ASSUME NEW g \in Rounds, Emit(g) PROVE OffersAreReal'
  BY <1>9 DEF Emit
<1>10. ASSUME NEW g \in Rounds, TimeoutStale(g) PROVE OffersAreReal'
  BY <1>10 DEF TimeoutStale
<1>11. ASSUME NEW g \in Rounds, TimeoutRetry(g) PROVE OffersAreReal'
  BY <1>11 DEF TimeoutRetry, Stale
<1>12. ASSUME NEW g \in Rounds, TimeoutGiveUp(g) PROVE OffersAreReal'
  BY <1>12 DEF TimeoutGiveUp, Release, Stale, Excused
<1>14. ASSUME NEW v \in Versions, SetAnswer(v) PROVE OffersAreReal'
  BY <1>14 DEF SetAnswer
<1>16. CASE FinishAnswer
  BY <1>16 DEF FinishAnswer, Release, Relaunched, Entering
<1>17. CASE DirectOffer
  BY <1>17 DEF DirectOffer, SetLocalOffer
<1>18. CASE ReturnDirectOffer
  BY <1>18 DEF ReturnDirectOffer
<1>19. CASE UseWhep
  BY <1>19 DEF UseWhep
<1>20. CASE RemoteOffer
  BY <1>20 DEF RemoteOffer
<1>21. CASE LocalAnswer
  BY <1>21 DEF LocalAnswer
<1>22. CASE StateCallbacks
  BY <1>22 DEF StateCallbacks
<1>23. CASE Close
  BY <1>23 DEF Close
<1>24. CASE Drop
  BY <1>24 DEF Drop
<1>25. CASE UNCHANGED vars
  BY <1>25 DEF vars
<1> QED
  BY <1>1, <1>2, <1>3, <1>4, <1>5, <1>6, <1>7, <1>8, <1>9, <1>10, <1>11,
     <1>12, <1>14, <1>16, <1>17, <1>18, <1>19, <1>20, <1>21,
     <1>22, <1>23, <1>24, <1>25
  DEF Next, Negotiate, Create, Timeout

\* Each action that takes a track out of one hand puts it into another.
LEMMA StepTracked ==
  IInv /\ OffersAreReal /\ NeedIsTracked /\ [Next]_vars => NeedIsTracked'
<1> SUFFICES ASSUME IInv /\ OffersAreReal /\ NeedIsTracked, [Next]_vars PROVE NeedIsTracked'
  OBVIOUS
<1> USE NegotiationAssumption
    DEF NeedIsTracked, InHand, OffersAreReal, IInv, Types, Flags, RoundFits,
        Versions, Rounds, signaling, calls, peer, modes, tracks, directVars, owners
<1>1. CASE AddTrack
  BY <1>1 DEF AddTrack
<1>2. CASE OnNegotiationNeeded
  BY <1>2 DEF OnNegotiationNeeded, Entering
<1>3. CASE Skip
  BY <1>3 DEF Skip, HasLock, Excused
<1>4. CASE Acquire
  <2>1. generation' \in Rounds /\ owner'[generation'] = "creating"
    BY <1>4 DEF Acquire, Room, RoundLength
  <2> QED
    BY <2>1
<1>5. CASE Defer
  BY <1>5 DEF Defer, HasLock
<1>6. ASSUME NEW g \in Rounds, SetLocal(g) PROVE NeedIsTracked'
  BY <1>6 DEF SetLocal, SetLocalOffer
<1>7. ASSUME NEW g \in Rounds, NegotiateFails(g) PROVE NeedIsTracked'
  BY <1>7 DEF NegotiateFails, Release, Excused
<1>8. ASSUME NEW g \in Rounds, RetryFails(g) PROVE NeedIsTracked'
  BY <1>8 DEF RetryFails, AfterFailedRetry, Excused
<1>9. ASSUME NEW g \in Rounds, Emit(g) PROVE NeedIsTracked'
  BY <1>9 DEF Emit
<1>10. ASSUME NEW g \in Rounds, TimeoutStale(g) PROVE NeedIsTracked'
  BY <1>10 DEF TimeoutStale
<1>11. ASSUME NEW g \in Rounds, TimeoutRetry(g) PROVE NeedIsTracked'
  <2>1. generation' \in Rounds /\ owner'[generation'] = "creating"
    BY <1>11 DEF TimeoutRetry, Stale, AttemptsLeft, RoundLength
  <2> QED
    BY <2>1
<1>12. ASSUME NEW g \in Rounds, TimeoutGiveUp(g) PROVE NeedIsTracked'
  BY <1>12 DEF TimeoutGiveUp, Release, Stale, Excused
<1>14. ASSUME NEW v \in Versions, SetAnswer(v) PROVE NeedIsTracked'
  <2>1. local \in Versions /\ covers[v] <= wanted /\ covers[v] \in 0 .. MaxTracks
    BY <1>14 DEF SetAnswer
  <2>2. CASE covers[v] < covers[local]
    BY <1>14, <2>2 DEF SetAnswer
  <2>3. CASE ~(covers[v] < covers[local])
    <3>1. CASE negotiated = wanted
      BY <1>14, <2>1, <3>1 DEF SetAnswer
    <3>2. CASE covers[local] = wanted
      BY <1>14, <2>1, <2>3, <3>2 DEF SetAnswer
    <3> QED
      BY <1>14, <2>3, <3>1, <3>2 DEF SetAnswer
  <2> QED
    BY <2>2, <2>3
<1>16. CASE FinishAnswer
  BY <1>16 DEF FinishAnswer, Release, Relaunched, Entering
<1>17. CASE DirectOffer
  BY <1>17 DEF DirectOffer, SetLocalOffer
<1>18. CASE ReturnDirectOffer
  BY <1>18 DEF ReturnDirectOffer
<1>19. CASE UseWhep
  BY <1>19 DEF UseWhep
<1>20. CASE RemoteOffer
  BY <1>20 DEF RemoteOffer
<1>21. CASE LocalAnswer
  BY <1>21 DEF LocalAnswer
<1>22. CASE StateCallbacks
  BY <1>22 DEF StateCallbacks
<1>23. CASE Close
  BY <1>23 DEF Close
<1>24. CASE Drop
  BY <1>24 DEF Drop
<1>25. CASE UNCHANGED vars
  BY <1>25 DEF vars
<1> QED
  BY <1>1, <1>2, <1>3, <1>4, <1>5, <1>6, <1>7, <1>8, <1>9, <1>10, <1>11,
     <1>12, <1>14, <1>16, <1>17, <1>18, <1>19, <1>20, <1>21,
     <1>22, <1>23, <1>24, <1>25
  DEF Next, Negotiate, Create, Timeout

\* Everything the theorems below need holds in every reachable state.
LEMMA Invariance == Spec => [](IInv /\ OffersAreReal /\ NeedIsTracked)
  BY InitInv, StepInv, StepOffers, StepTracked, PTL DEF Spec

\* The variables have their types in every reachable state, for every bound.
THEOREM TypeCorrect == Spec => []TypeOK
<1>1. IInv => TypeOK
  BY NegotiationAssumption
  DEF IInv, Flags, Types, RoundFits, TypeOK, RoundLength
<1> QED
  BY <1>1, Invariance, PTL

\* A round in progress always has a negotiate() call or a current timer.
THEOREM OwnedRounds == Spec => []RoundHasOwner
<1>1. IInv => RoundHasOwner
  BY DEF IInv
<1> QED
  BY <1>1, Invariance, PTL

\* The error path of negotiate() never finds a deferred call, so the loop
\* around it never turns.
THEOREM NoLoopOnFailure == Spec => []NoDeferralWhileCreating
<1>1. IInv => NoDeferralWhileCreating
  BY DEF IInv
<1> QED
  BY <1>1, Invariance, PTL

\* No interleaving of calls, timers, retries, answers and the client's own offers
\* forgets a track, except for the causes of Excused.
THEOREM NothingForgotten == Spec => []NeedIsTracked
  BY Invariance, PTL

\* A round is given up only when its own task has offered it as often as
\* negotiation_max_attempts says.
THEOREM FullAttempts == Spec => GivenUpInFull
<1> DEFINE Step ==
      phase = "offering" /\ phase' = "idle" /\ guard' = guard /\ releasing' = releasing
        => generation + 1 = acquired[generation] + RoundLength
<1>1. IInv /\ [Next]_vars => [Step]_vars
  <2> SUFFICES ASSUME IInv, Next, phase = "offering", phase' = "idle",
                      guard' = guard, releasing' = releasing
               PROVE  generation + 1 = acquired[generation] + RoundLength
    BY DEF vars
  <2> USE NegotiationAssumption DEF IInv, Types, RoundFits, GuardIsCreating, Rounds
  <2>1. ASSUME NEW g \in Rounds, Timeout(g)
        PROVE  generation + 1 = acquired[generation] + RoundLength
    <3>1. ~AttemptsLeft /\ generation \in Rounds
      BY <2>1 DEF Timeout, TimeoutStale, TimeoutRetry, TimeoutGiveUp, signaling
    <3>2. attempt = RoundLength
      BY <3>1 DEF AttemptsLeft, RoundLength
    <3> QED
      BY <3>1, <3>2
  <2>2. ASSUME NEW g \in Rounds, Create(g) \/ Emit(g) PROVE FALSE
    BY <2>2 DEF Create, SetLocal, NegotiateFails, RetryFails, Emit, signaling
  <2>3. CASE Acquire
    BY <2>3 DEF Acquire
  <2>4. CASE FinishAnswer
    BY <2>4 DEF FinishAnswer
  <2>5. CASE UNCHANGED phase
    BY <2>5
  <2> QED
    BY <2>1, <2>2, <2>3, <2>4, <2>5
    DEF Next, Negotiate, AddTrack, OnNegotiationNeeded, Skip, Defer, SetAnswer,
        DirectOffer, ReturnDirectOffer, UseWhep, RemoteOffer, LocalAnswer,
        StateCallbacks, Close, Drop, signaling
<1> QED
  BY <1>1, Invariance, PTL DEF Spec, GivenUpInFull
================================================================================
