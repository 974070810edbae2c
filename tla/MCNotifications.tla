---------------------------- MODULE MCNotifications ----------------------------
EXTENDS Notifications, TLC

Symmetry == Permutations(User) \cup Permutations(Copies)

(* What a reminder needs and what another notification needs have nothing in *)
(* common but the people: each is explored while the other rests.            *)

NoReminder ==
  /\ ~due /\ answered = {}
  /\ \A c \in Copies : cron[c] = Resting /\ sent[c] = 0

\* One of the three has nothing to do with the document, nobody has two rows.
OnlyReminder ==
  /\ \A j \in Jobs : my[j].kind \in {None, "document_reminder"}
  /\ changes <= 1
  /\ \A u \in User : second[u] = "gone"
  /\ requester = None /\ assignee = None
  /\ \E u \in User : role[u] = "client" /\ u \notin roster \cup answered

InBounds == NoReminder \/ OnlyReminder
=============================================================================
