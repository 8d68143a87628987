-------------------------------- MODULE Push --------------------------------
(***************************************************************************)
(* Push subscriptions of browsers and the delivery of notifications.  The  *)
(* push service gives a browser an endpoint, made for one VAPID key, and   *)
(* may replace it; the app registers the endpoint with the server, which   *)
(* keeps a row per user and browser.  A dispatch reads the active rows,    *)
(* sends to each of them, and then does to the row what the answer calls   *)
(* for.  Registration reads and writes in two statements.                  *)
(*                                                                         *)
(* Abstracted: users (a browser stands for a user on a browser), platforms *)
(* other than web, payloads, suppression by a recent session (any active   *)
(* row may be left out of a dispatch), the bound on concurrent sends.      *)
(***************************************************************************)
EXTENDS Integers, FiniteSets

CONSTANTS Browsers,
          Posts,          \* registration requests the server runs at a time
          MaxEndpoints,   \* bound: endpoints a browser is given
          MaxRotations,   \* bound: rotations of the VAPID keys
          MaxRows,        \* bound: rows ever inserted
          MaxSends        \* bound: sends under way

ASSUME PushAssumption == {MaxEndpoints, MaxRotations, MaxRows, MaxSends} \subseteq Nat

VARIABLES subs,       \* rows of push_subscriptions
          inserted,   \* rows inserted so far; the last id
          live,       \* live[b]: the endpoint the push service honours, and its key
          held,       \* held[b]: what its last registration answered, until b ends it
          posts,      \* registrations under way
          sending,    \* sends of the dispatches under way
          vapid,      \* the keys in server_config and those the server loaded
          doomed      \* history: rows a send to which was answered with gone, and rows
                      \* revoked under a registration that was about to write them

push == <<subs, inserted, live, held, posts, sending, vapid, doomed>>

Endpoints == 0 .. MaxEndpoints
Keys == 0 .. MaxRotations
Free == [at |-> "free", endpoint |-> 0, key |-> 0, row |-> 0]
Nothing == [row |-> 0, endpoint |-> 0]

Sub == [id : 1 .. MaxRows, browser : Browsers, endpoint : Endpoints, key : Keys,
        active : BOOLEAN]
Send == [sub : Sub, at : {"send", "ok", "gone", "failed"}]

ActiveSubs == {s \in subs : s.active}
Of(b) == {s \in subs : s.browser = b}
Written == {posts[q].row : q \in {q \in Posts : posts[q].at = "write"}}

PushInit ==
  /\ subs = {} /\ inserted = 0
  /\ live = [b \in Browsers |-> [endpoint |-> 0, key |-> 0]]
  /\ held = [b \in Browsers |-> Nothing]
  /\ posts = [q \in Posts |-> Free]
  /\ sending = {}
  /\ vapid = [stored |-> 0, loaded |-> 0]
  /\ doomed = {}

(* The browser subscribes with the key the server advertises, for the      *)
(* first time or because the old endpoint has expired.                     *)
Renew(b) ==
  /\ live[b].endpoint < MaxEndpoints
  /\ live' = [live EXCEPT ![b] = [endpoint |-> @.endpoint + 1, key |-> vapid.loaded]]
  /\ UNCHANGED <<subs, inserted, held, posts, sending, vapid, doomed>>

-----------------------------------------------------------------------------
(* Registration: look for an active row of the browser, then update it or  *)
(* insert one.                                                             *)
RegisterLook(q, b) ==
  /\ posts[q].at = "free" /\ live[b].endpoint > 0
  /\ \E row \in IF \E s \in Of(b) : s.active
                THEN {s.id : s \in {s \in Of(b) : s.active}} ELSE {0} :
       posts' = [posts EXCEPT ![q] = [at |-> "write", browser |-> b, row |-> row,
                                      endpoint |-> live[b].endpoint, key |-> live[b].key]]
  /\ UNCHANGED <<subs, inserted, live, held, sending, vapid, doomed>>

(* An update does not look at revoked_at again, and fails when the row is  *)
(* gone.                                                                   *)
RegisterUpdate(q) ==
  /\ posts[q].at = "write" /\ posts[q].row # 0
  /\ LET p == posts[q]
         hit == {s \in subs : s.id = p.row}
     IN  /\ subs' = (subs \ hit) \cup
              {[s EXCEPT !.endpoint = p.endpoint, !.key = p.key] : s \in hit}
         /\ held' = IF hit = {} THEN held
                    ELSE [held EXCEPT ![p.browser] = [row |-> p.row, endpoint |-> p.endpoint]]
  /\ posts' = [posts EXCEPT ![q] = Free]
  /\ UNCHANGED <<inserted, live, sending, vapid, doomed>>

RegisterInsert(q) ==
  /\ posts[q].at = "write" /\ posts[q].row = 0 /\ inserted < MaxRows
  /\ LET p == posts[q]
     IN  /\ subs' = subs \cup {[id |-> inserted + 1, browser |-> p.browser,
                                endpoint |-> p.endpoint, key |-> p.key, active |-> TRUE]}
         /\ held' = [held EXCEPT ![p.browser] = [row |-> inserted + 1, endpoint |-> p.endpoint]]
  /\ inserted' = inserted + 1
  /\ posts' = [posts EXCEPT ![q] = Free]
  /\ UNCHANGED <<live, sending, vapid, doomed>>

-----------------------------------------------------------------------------
(* What ends subscriptions.                                                *)

Revoke(s) ==
  /\ s \in ActiveSubs
  /\ subs' = (subs \ {s}) \cup {[s EXCEPT !.active = FALSE]}
  /\ held' = IF held[s.browser].row = s.id THEN [held EXCEPT ![s.browser] = Nothing] ELSE held
  /\ doomed' = doomed \cup ({s.id} \cap Written)
  /\ UNCHANGED <<inserted, live, posts, sending, vapid>>

(* Revoking the device deletes its rows, revoked or not.                   *)
DeleteForDevice(b) ==
  /\ Of(b) # {}
  /\ subs' = subs \ Of(b)
  /\ held' = [held EXCEPT ![b] = Nothing]
  /\ UNCHANGED <<inserted, live, posts, sending, vapid, doomed>>

(* New keys go to server_config; the server keeps those it has loaded.     *)
RotateVapid ==
  /\ vapid.stored < MaxRotations
  /\ vapid' = [vapid EXCEPT !.stored = @ + 1]
  /\ subs' = {[s EXCEPT !.active = FALSE] : s \in subs}
  /\ held' = [b \in Browsers |-> Nothing]
  /\ doomed' = doomed \cup ({s.id : s \in subs} \cap Written)
  /\ UNCHANGED <<inserted, live, posts, sending>>

RestartPush ==
  /\ vapid' = [vapid EXCEPT !.loaded = vapid.stored]
  /\ posts' = [q \in Posts |-> Free]
  /\ sending' = {}
  /\ UNCHANGED <<subs, inserted, live, held, doomed>>

-----------------------------------------------------------------------------
(* Delivery.                                                               *)

(* A message dispatches to the rows of the members that are active now and *)
(* not suppressed.                                                         *)
Dispatch(to) ==
  /\ to # {} /\ to \subseteq ActiveSubs
  /\ Cardinality(sending) + Cardinality(to) <= MaxSends
  /\ sending' = sending \cup {[sub |-> s, at |-> "send"] : s \in to}
  /\ UNCHANGED <<subs, inserted, live, held, posts, vapid, doomed>>

(* The push service answers.  Any send may fail, time out or end in gone:  *)
(* the sender takes an error for gone when its text holds 410, 404, Gone   *)
(* or NotFound, whatever it is about.  Only an endpoint the service still  *)
(* honours, with a signature by its key, is delivered to.                  *)
Answers(s) ==
  {"failed", "gone"} \cup
  {a \in {"ok"} : s.endpoint = live[s.browser].endpoint /\ s.key = vapid.loaded}

Deliver(t) ==
  /\ t \in sending /\ t.at = "send"
  /\ \E a \in Answers(t.sub) :
       /\ sending' = (sending \ {t}) \cup {[t EXCEPT !.at = a]}
       /\ doomed' = IF a = "gone" THEN doomed \cup {t.sub.id} ELSE doomed
  /\ UNCHANGED <<subs, inserted, live, held, posts, vapid>>

(* Variant: a subscription that could not be reached is given up.          *)
SettleGivesUp(t) ==
  /\ t \in sending /\ t.at # "send"
  /\ sending' = sending \ {t}
  /\ subs' = IF t.at # "ok" THEN {s \in subs : s.id # t.sub.id} ELSE subs
  /\ UNCHANGED <<inserted, live, held, posts, vapid, doomed>>

(* The row goes, by id, when its endpoint is gone; otherwise it stays.     *)
Settle(t) ==
  /\ t \in sending /\ t.at # "send"
  /\ sending' = sending \ {t}
  /\ subs' = IF t.at = "gone" THEN {s \in subs : s.id # t.sub.id} ELSE subs
  /\ UNCHANGED <<inserted, live, held, posts, vapid, doomed>>

PushNext ==
  \/ \E b \in Browsers : Renew(b) \/ DeleteForDevice(b)
  \/ \E q \in Posts, b \in Browsers : RegisterLook(q, b)
  \/ \E q \in Posts : RegisterUpdate(q) \/ RegisterInsert(q)
  \/ \E s \in subs : Revoke(s)
  \/ \E to \in SUBSET ActiveSubs : Dispatch(to)
  \/ \E t \in sending : Deliver(t) \/ Settle(t)
  \/ RotateVapid \/ RestartPush

-----------------------------------------------------------------------------
PushTypeOK ==
  /\ subs \subseteq Sub /\ inserted \in 0 .. MaxRows
  /\ \A s, t \in subs : s.id = t.id => s = t
  /\ live \in [Browsers -> [endpoint : Endpoints, key : Keys]]
  /\ held \in [Browsers -> [row : 0 .. MaxRows, endpoint : Endpoints]]
  /\ \A q \in Posts : posts[q] = Free \/ posts[q] \in
       [at : {"write"}, browser : Browsers, row : 0 .. MaxRows, endpoint : Endpoints, key : Keys]
  /\ sending \subseteq Send
  /\ vapid \in [stored : Keys, loaded : Keys] /\ vapid.loaded <= vapid.stored
  /\ doomed \subseteq 1 .. MaxRows

(* What a registration answered stays true: the row it named is in the     *)
(* table, active, with the endpoint it was given, until the browser ends   *)
(* it or a send to this very row is answered with gone.  Sends that fail   *)
(* or time out, sends to the browser's other rows, registrations that      *)
(* decided on an older table, rotations of the keys and restarts take      *)
(* nothing from it.  The other exception: a row revoked after a            *)
(* registration has chosen it is written all the same.                     *)
SubscriptionKept ==
  \A b \in Browsers :
    held[b].row # 0 /\ held[b].row \notin doomed =>
      \E s \in ActiveSubs :
        s.browser = b /\ s.id = held[b].row /\ s.endpoint = held[b].endpoint

(* Not so: a browser registered at the endpoint the push service honours   *)
(* may be out of the table.  The answer to a send to the row's former      *)
(* endpoint deletes the row by its id, after the registration has renewed  *)
(* it; and an error about something else may read like gone.               *)
SubscriptionSurvives ==
  \A b \in Browsers :
    held[b].row # 0 /\ held[b].endpoint = live[b].endpoint =>
      \E s \in ActiveSubs : s.browser = b /\ s.endpoint = held[b].endpoint

(* Not so: between the rotation of the keys and the next start browsers    *)
(* subscribe with the old key, and no later send to them is accepted.      *)
Reachable ==
  \A b \in Browsers :
    held[b].row # 0 /\ held[b].endpoint = live[b].endpoint => live[b].key = vapid.loaded

(* Not so: two registrations of a browser may both find no row.            *)
OneRowPerBrowser == \A s, t \in ActiveSubs : s.browser = t.browser => s = t
=============================================================================
