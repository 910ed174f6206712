------------------------------- MODULE MCRegistry -------------------------------
(* Instances of Registry: one router, and a publisher on its own. *)
EXTENDS Registry

CONSTANTS r1, p1, d1, q1, id1, id2

JustOne == [p \in Publishers |-> id1]
OneRouter == [x \in Publishers \cup DataPublishers \cup Lookups |-> r1]

\* Bounds on what the application and the browser do, none of which is fair: the
\* encodings open in turn, and open again only when nothing is queued; relay_to is
\* called once at a time, for a publisher that was announced and has no target yet,
\* or for a data publisher before it is announced; a publisher has one Close queued
\* (a second is lost with the queue); Worker.close comes last (nothing here reads
\* what it does).
Few ==
  /\ \A p \in Publishers, s \in Ssrcs :
       TrackOpens(p, s) => /\ s \in localTracks[p] => queue[p] = <<>>
                           /\ \A t \in Ssrcs : t < s => t \in localTracks[p]
  /\ \A x \in Publishers \cup DataPublishers :
       BeginRelay(x) => /\ relaying = {}
                        /\ x \in Publishers => x \in published \ relayed
                        /\ x \in DataPublishers => dataLoop[x] = "created"
  /\ \A p \in Publishers :
       TrackEnds(p) \/ ClosePublisher(p) => \A i \in DOMAIN queue[p] : queue[p][i] # Closing
  /\ CloseWorker => \A p \in Publishers : loop[p] = "done"

FewSpec == Init /\ [][Next /\ Few]_vars /\ Fairness
=============================================================================
