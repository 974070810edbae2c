-------------------------------- MODULE PushKeys --------------------------------
(***************************************************************************)
(* Browser push (apps/api/src/notifications/push.service.ts, the bell of   *)
(* apps/web/src/components/notification-bell.tsx).  The pair of VAPID keys *)
(* of an organization is made when it is first needed, in a transaction    *)
(* that reads and then writes it, under the isolation of the database's    *)
(* default, READ COMMITTED.  A browser subscribes with the public key it   *)
(* was given; the push service takes a message for it only under the       *)
(* private key of the same pair.                                           *)
(***************************************************************************)
EXTENDS FiniteSets

CONSTANTS Browser, Key, Workers, None

VARIABLES
  stored,    \* SystemSettings.vapidPublicKey and vapidPrivateKey
  browser,   \* the key each browser has subscribed with
  row,       \* browsers with a PushSubscription row
  pc, my     \* where each request is; its pair of keys and its browser

vars == <<stored, browser, row, pc, my>>

Pc == {"idle", "keys", "newKeys", "subscribe", "save", "send"}
Blank == [key |-> None, browser |-> None]
Used == {stored} \cup {browser[b] : b \in Browser} \cup {my[w].key : w \in Workers}

Goto(w, from, to) == pc[w] = from /\ pc' = [pc EXCEPT ![w] = to]
Remember(w, m) == my' = [my EXCEPT ![w] = m]

Init ==
  /\ stored = None /\ browser = [b \in Browser |-> None] /\ row = {}
  /\ pc = [w \in Workers |-> "idle"] /\ my = [w \in Workers |-> Blank]

\* The user of a browser enables push, or (with None) users are notified.
Ask(w, b) ==
  /\ Goto(w, "idle", "keys") /\ Remember(w, [Blank EXCEPT !.browser = b])
  /\ UNCHANGED <<stored, browser, row>>

\* getOrCreateVapidKeys(): what the caller does with the keys comes next.
Caller(w) == IF my[w].browser = None THEN "send" ELSE "subscribe"

KeysRead(w) ==
  /\ IF stored = None THEN Goto(w, "keys", "newKeys") /\ UNCHANGED my
     ELSE Goto(w, "keys", Caller(w)) /\ Remember(w, [my[w] EXCEPT !.key = stored])
  /\ UNCHANGED <<stored, browser, row>>

KeysWrite(w, k) ==
  /\ Goto(w, "newKeys", Caller(w)) /\ k \notin Used
  /\ stored' = k /\ Remember(w, [my[w] EXCEPT !.key = k])
  /\ UNCHANGED <<browser, row>>

\* handleEnablePush(): PushManager.subscribe() refuses another key than that of an
\* existing subscription; then the row is stored.
Subscribe(w) ==
  /\ Goto(w, "subscribe", "save")
  /\ browser[my[w].browser] \in {None, my[w].key}
  /\ browser' = [browser EXCEPT ![my[w].browser] = my[w].key]
  /\ UNCHANGED <<stored, row, my>>

Save(w) ==
  /\ Goto(w, "save", "idle") /\ Remember(w, Blank)
  /\ row' = row \cup {my[w].browser}
  /\ UNCHANGED <<stored, browser>>

\* sendToMany(): a subscription the push service no longer knows loses its row.
Send(w) ==
  /\ Goto(w, "send", "idle") /\ Remember(w, Blank)
  /\ row' = {b \in row : browser[b] # None}
  /\ UNCHANGED <<stored, browser>>

\* The browser drops its subscription (the user withdraws the permission).
Withdraw(b) ==
  /\ browser[b] # None /\ browser' = [browser EXCEPT ![b] = None]
  /\ UNCHANGED <<stored, row, pc, my>>

Fail(w) ==
  /\ pc[w] # "idle" /\ pc' = [pc EXCEPT ![w] = "idle"] /\ Remember(w, Blank)
  /\ UNCHANGED <<stored, browser, row>>

Next ==
  \/ \E b \in Browser : Withdraw(b)
  \/ \E w \in Workers : \/ \E b \in Browser \cup {None} : Ask(w, b)
                        \/ \E k \in Key : KeysWrite(w, k)
                        \/ KeysRead(w) \/ Subscribe(w) \/ Save(w) \/ Send(w) \/ Fail(w)

Spec == Init /\ [][Next]_vars

\* NOT satisfied: push.service.ts says that the transaction keeps two requests that both
\* see no keys from storing different ones.  Then every browser that is subscribed could
\* be reached with the stored pair.
SubscribersAreReached == \A b \in row : browser[b] \in {None, stored}
=============================================================================
