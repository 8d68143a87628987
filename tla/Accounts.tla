------------------------------ MODULE Accounts ------------------------------
(***************************************************************************)
(* Accounts of one instance: registration by invite, OPAQUE login, login   *)
(* sessions and devices, recovery codes, rotation of the OPRF key, account *)
(* deletion, and the key transparency log that registration and bots       *)
(* append to.  Protocols run in two requests; what the first one leaves is *)
(* kept in memory until the second takes it, it expires, or the server     *)
(* restarts.  A handler that awaits the database between a decision and    *)
(* its write is a step for each.  `work' holds both: what waits for its    *)
(* second request and the handlers under way, told apart by `at'.          *)
(*                                                                         *)
(* Abstracted: OPAQUE messages (a login fits when the OPRF key in use is   *)
(* the one the account was registered under and the credential is the one *)
(* login_start read), rate limits, ALTCHA, audit rows, device names, and   *)
(* every column no property reads.  A session that is revoked, expired or *)
(* deleted is gone from `sessions'.                                        *)
(***************************************************************************)
EXTENDS Integers, Sequences, FiniteSets, SequencesExt, FiniteSetsExt, Merkle

CONSTANTS Tokens,        \* username lookup tokens
          NoToken,       \* the random token of a deleted account
          Clients,       \* client_ids of installed apps
          NoClient,
          Keys,          \* identity public keys a device may offer
          NoKey,
          Codes,         \* recovery codes of an account (eight in the code)
          MaxUses,       \* max_uses of an invite
          MaxDevices,    \* server_max_devices_per_user
          MaxInvites, MaxStarts, MaxBotKeys, MaxSnapshots, MaxRotations,
          MaxRare        \* bound on bot keys, snapshots and rotations together

ASSUME AccountsAssumption ==
  /\ {MaxUses, MaxDevices} \subseteq Nat \ {0}
  /\ {MaxInvites, MaxStarts, MaxBotKeys, MaxSnapshots, MaxRotations} \subseteq Nat
  /\ MaxRare \in Nat
  /\ NoToken \notin Tokens /\ NoClient \notin Clients /\ NoKey \notin Keys

VARIABLES users,     \* accounts in the order of their creation
          codes,     \* codes[u]: the unconsumed recovery codes of account u
          devices,   \* <<account, client>>
          sessions,  \* the sessions validate_session accepts
          invites,   \* server invites in the order of their creation
          work,      \* pending protocols and handlers under way
          oprf,      \* the OPRF key file and the key the process loaded
          log,       \* rows of key_transparency_log by leaf_index
          snaps,     \* signed tree heads, oldest first
          botKeys,   \* bot keys registered so far
          starts     \* protocols started so far

accountVars == <<users, codes, devices, sessions, invites, work, oprf, log, snaps,
          botKeys, starts>>

Accounts == DOMAIN users
Live(u) == users[u].live
Unpaid == {u \in Accounts : users[u].boot}

(* The rows of the log: a hash is computed at insertion.  A bot's leaf is   *)
(* made of its keys, a user's of its token and a key that is still empty.   *)
UserLeaf(token) == <<"user", token, 0>>
BotLeaf(key) == <<"bot", NoToken, key>>
Stored == [i \in DOMAIN log |-> log[i].hash]

(* create_snapshot and kt-verify take every row for a user's and hash its   *)
(* username_token, empty on a bot's row, and its identity_pubkey.           *)
AsUserLeaf(row) == [row.hash EXCEPT ![1] = "user"]
Recomputed == [i \in DOMAIN log |-> AsUserLeaf(log[i])]

-----------------------------------------------------------------------------

AccountsInit ==
  /\ users = <<>> /\ codes = <<>> /\ devices = {} /\ sessions = {}
  /\ invites = <<>> /\ work = {} /\ oprf = [file |-> 0, loaded |-> 0]
  /\ log = <<>> /\ snaps = <<>> /\ botKeys = 0 /\ starts = 0

At(where) == {w \in work : w.at = where}
Become(w, v) == work' = (work \ {w}) \cup {v}
Done(w) == work' = work \ {w}

(* What a first request leaves behind until its second one.                *)
Start(w) ==
  /\ starts < MaxStarts
  /\ starts' = starts + 1
  /\ work' = work \cup {w}

Heads == Len(snaps) + Cardinality(At("signing"))
Rotations == oprf.file + Cardinality(At("rotating"))
RareLeft == botKeys + Heads + Rotations < MaxRare

Waiting == At("registering") \cup At("loggingIn") \cup At("recovering")

(* The entry outlives its TTL, or its owner never comes back.              *)
Forget(w) ==
  /\ w \in Waiting
  /\ Done(w)
  /\ UNCHANGED <<users, codes, devices, sessions, invites, oprf, log, snaps, botKeys, starts>>

-----------------------------------------------------------------------------
(* Registration                                                            *)

HolderOf(token) == {u \in Accounts : users[u].token = token}

RegisterStart(token) ==
  /\ HolderOf(token) = {}
  /\ Start([at |-> "registering", n |-> starts, token |-> token])
  /\ UNCHANGED <<users, codes, devices, sessions, invites, oprf, log, snaps, botKeys>>

(* The first account needs no invite; this is decided before the           *)
(* transaction that creates it.                                            *)
RegisterFirst(w) ==
  /\ w \in At("registering")
  /\ users = <<>>
  /\ Become(w, [at |-> "admitted", n |-> w.n, token |-> w.token, boot |-> TRUE])
  /\ UNCHANGED <<users, codes, devices, sessions, invites, oprf, log, snaps, botKeys, starts>>

Usable(i) == invites[i].open /\ invites[i].uses < MaxUses

(* The invite is consumed in a transaction of its own.                     *)
ConsumeInviteUncounted(w, i) ==
  /\ w \in At("registering")
  /\ users # <<>>
  /\ Usable(i)
  /\ UNCHANGED invites
  /\ Become(w, [at |-> "admitted", n |-> w.n, token |-> w.token, boot |-> FALSE])
  /\ UNCHANGED <<users, codes, devices, sessions, oprf, log, snaps, botKeys, starts>>

ConsumeInvite(w, i) ==
  /\ w \in At("registering")
  /\ users # <<>>
  /\ Usable(i)
  /\ invites' = [invites EXCEPT ![i].uses = @ + 1]
  /\ Become(w, [at |-> "admitted", n |-> w.n, token |-> w.token, boot |-> FALSE])
  /\ UNCHANGED <<users, codes, devices, sessions, oprf, log, snaps, botKeys, starts>>

RegisterRefused(w) ==
  /\ w \in At("registering")
  /\ users # <<>>
  /\ Done(w)
  /\ UNCHANGED <<users, codes, devices, sessions, invites, oprf, log, snaps, botKeys, starts>>

Session(n, u, c, proof) ==
  [n |-> n, user |-> u, client |-> c, proof |-> proof, era |-> users'[u].cred]

(* Account, leaf, role, recovery codes and first session: one transaction. *)
CreateAccount(w) ==
  /\ w \in At("admitted")
  /\ HolderOf(w.token) = {}
  /\ users' = Append(users, [token |-> w.token, key |-> NoKey, cred |-> 0, under |-> oprf.loaded,
                             flagged |-> FALSE, live |-> TRUE, owner |-> w.boot, boot |-> w.boot])
  /\ log' = Append(log, [of |-> Len(users) + 1, bot |-> FALSE, hash |-> UserLeaf(w.token)])
  /\ codes' = Append(codes, Codes)
  /\ sessions' = sessions \cup {Session(w.n, Len(users) + 1, NoClient, 0)}
  /\ Done(w)
  /\ UNCHANGED <<devices, invites, oprf, snaps, botKeys, starts>>

(* Someone else took the token: the transaction fails, the use is spent.   *)
CreateAccountFails(w) ==
  /\ w \in At("admitted")
  /\ HolderOf(w.token) # {}
  /\ Done(w)
  /\ UNCHANGED <<users, codes, devices, sessions, invites, oprf, log, snaps, botKeys, starts>>

-----------------------------------------------------------------------------
(* Login                                                                   *)

(* A deleted account or an unknown token gets a challenge no one can       *)
(* answer; a flagged account is told to register again.                    *)
LoginStart(u, c) ==
  /\ Live(u)
  /\ ~users[u].flagged
  /\ Start([at |-> "loggingIn", n |-> starts, user |-> u, client |-> c,
            cred |-> users[u].cred, fits |-> users[u].under = oprf.loaded])
  /\ UNCHANGED <<users, codes, devices, sessions, invites, oprf, log, snaps, botKeys>>

(* login_finish verifies the client's proof against what login_start read, *)
(* then reads the identity key.                                            *)
LoginFinish(w, key) ==
  /\ w \in At("loggingIn")
  /\ w.fits
  /\ Become(w, [at |-> "keyRead", n |-> w.n, user |-> w.user, client |-> w.client,
                cred |-> w.cred, key |-> key, seen |-> users[w.user].key])
  /\ UNCHANGED <<users, codes, devices, sessions, invites, oprf, log, snaps, botKeys, starts>>

KeyChecked(w) ==
  [at |-> "keyed", n |-> w.n, user |-> w.user, client |-> w.client, cred |-> w.cred]

(* The first key is stored, a later one must be the same.                  *)
StoreKey(w) ==
  /\ w \in At("keyRead")
  /\ w.seen = NoKey /\ w.key # NoKey
  /\ users' = [users EXCEPT ![w.user].key = w.key]
  /\ Become(w, KeyChecked(w))
  /\ UNCHANGED <<codes, devices, sessions, invites, oprf, log, snaps, botKeys, starts>>

CompareKey(w) ==
  /\ w \in At("keyRead")
  /\ w.seen # NoKey \/ w.key = NoKey
  /\ IF w.key \in {NoKey, w.seen} THEN Become(w, KeyChecked(w)) ELSE Done(w)
  /\ UNCHANGED <<users, codes, devices, sessions, invites, oprf, log, snaps, botKeys, starts>>

DevicesOf(u) == {d \in devices : d[1] = u}

(* The device is looked up and, when it is new, the devices are counted.   *)
FindDevice(w) ==
  /\ w \in At("keyed")
  /\ IF <<w.user, w.client>> \in devices THEN Become(w, [w EXCEPT !.at = "deviceReady"])
     ELSE IF Cardinality(DevicesOf(w.user)) >= MaxDevices THEN Done(w)
     ELSE Become(w, [w EXCEPT !.at = "counted"])
  /\ UNCHANGED <<users, codes, devices, sessions, invites, oprf, log, snaps, botKeys, starts>>

(* client_id is unique over all accounts, whoever's device has it.         *)
AddDevice(w) ==
  /\ w \in At("counted")
  /\ IF \E d \in devices : d[2] = w.client
     THEN Done(w) /\ UNCHANGED devices
     ELSE /\ devices' = devices \cup {<<w.user, w.client>>}
          /\ Become(w, [w EXCEPT !.at = "deviceReady"])
  /\ UNCHANGED <<users, codes, sessions, invites, oprf, log, snaps, botKeys, starts>>

(* The session names the device; if that is gone, the insert fails.        *)
OpenSession(w) ==
  /\ w \in At("deviceReady")
  /\ Done(w)
  /\ UNCHANGED <<users, codes, devices, invites, oprf, log, snaps, botKeys, starts>>
  /\ sessions' = IF <<w.user, w.client>> \in devices
                 THEN sessions \cup {Session(w.n, w.user, w.client, w.cred)}
                 ELSE sessions

-----------------------------------------------------------------------------
(* Recovery                                                                *)

RecoverStart(u, code) ==
  /\ Live(u)
  /\ code \in codes[u]
  /\ Start([at |-> "recovering", n |-> starts, user |-> u, code |-> code])
  /\ UNCHANGED <<users, codes, devices, sessions, invites, oprf, log, snaps, botKeys>>

SessionsOf(u) == {s \in sessions : s.user = u}

(* The code is consumed, the credential replaced and every session revoked *)
(* in one transaction; neither the code nor the account is looked at again.*)
RecoverFinishKeepingDevices(w) ==
  /\ w \in At("recovering")
  /\ codes' = [codes EXCEPT ![w.user] = @ \ {w.code}]
  /\ users' = [users EXCEPT ![w.user].cred = @ + 1, ![w.user].under = oprf.loaded]
  /\ sessions' = sessions \ {s \in SessionsOf(w.user) : s.client = NoClient}
  /\ Become(w, [at |-> "recovered", n |-> w.n, user |-> w.user])
  /\ UNCHANGED <<devices, invites, oprf, log, snaps, botKeys, starts>>

RecoverFinish(w) ==
  /\ w \in At("recovering")
  /\ codes' = [codes EXCEPT ![w.user] = @ \ {w.code}]
  /\ users' = [users EXCEPT ![w.user].cred = @ + 1, ![w.user].under = oprf.loaded]
  /\ sessions' = sessions \ SessionsOf(w.user)
  /\ Become(w, [at |-> "recovered", n |-> w.n, user |-> w.user])
  /\ UNCHANGED <<devices, invites, oprf, log, snaps, botKeys, starts>>

RecoverSession(w) ==
  /\ w \in At("recovered")
  /\ Done(w)
  /\ UNCHANGED <<users, codes, devices, invites, oprf, log, snaps, botKeys, starts>>
  /\ sessions' = sessions \cup {Session(w.n, w.user, NoClient, users[w.user].cred)}

-----------------------------------------------------------------------------
(* Requests with a session                                                 *)

(* AuthUser accepts s.                                                     *)
Authentic(s) == s \in sessions /\ Live(s.user)

(* The session of a deleted account is revoked at its first use.           *)
RefuseDisabled(s) ==
  /\ ~Live(s.user)
  /\ sessions' = sessions \ {s}
  /\ UNCHANGED <<users, codes, devices, invites, work, oprf, log, snaps, botKeys, starts>>

(* A session is not used for session_expiry_days.                          *)
Expire(s) ==
  /\ sessions' = sessions \ {s}
  /\ UNCHANGED <<users, codes, devices, invites, work, oprf, log, snaps, botKeys, starts>>

RevokeSession(s, t) ==
  /\ Authentic(s)
  /\ t \in SessionsOf(s.user) \ {s}
  /\ sessions' = sessions \ {t}
  /\ UNCHANGED <<users, codes, devices, invites, work, oprf, log, snaps, botKeys, starts>>

Logout(s, all) ==
  /\ Authentic(s)
  /\ sessions' = sessions \ (IF all THEN SessionsOf(s.user) ELSE {s})
  /\ UNCHANGED <<users, codes, devices, invites, work, oprf, log, snaps, botKeys, starts>>

(* The device's sessions are deleted with it.                              *)
RevokeDevice(s, c) ==
  /\ Authentic(s)
  /\ c # s.client
  /\ <<s.user, c>> \in devices
  /\ devices' = devices \ {<<s.user, c>>}
  /\ sessions' = {t \in sessions : t.client # c}
  /\ UNCHANGED <<users, codes, invites, work, oprf, log, snaps, botKeys, starts>>

CreateInvite(s) ==
  /\ Authentic(s)
  /\ users[s.user].owner
  /\ Len(invites) < MaxInvites
  /\ invites' = Append(invites, [uses |-> 0, open |-> TRUE])
  /\ UNCHANGED <<users, codes, devices, sessions, work, oprf, log, snaps, botKeys, starts>>

(* Revoked by an owner, or past expires_at.                                *)
CloseInvite(i) ==
  /\ invites[i].open
  /\ invites' = [invites EXCEPT ![i].open = FALSE]
  /\ UNCHANGED <<users, codes, devices, sessions, work, oprf, log, snaps, botKeys, starts>>

(* anonymise_user moves the user's leaf to a tombstone account, and deletes *)
(* the user's bots, which deletes their leaves with them.                  *)
Tombstoned(u) == [i \in DOMAIN log |->
  IF log[i].of = u /\ ~log[i].bot THEN [log[i] EXCEPT !.of = 0] ELSE log[i]]
InOrder(S) == CHOOSE f \in [1..Cardinality(S) -> S] : \A j, k \in DOMAIN f : j < k => f[j] < f[k]
WithoutBots(u, rows) ==
  LET at == InOrder({i \in DOMAIN rows : ~(rows[i].bot /\ rows[i].of = u)})
  IN  [k \in DOMAIN at |-> rows[at[k]]]

Anonymised(u) == [users EXCEPT ![u].live = FALSE, ![u].token = NoToken, ![u].key = NoKey,
                               ![u].owner = FALSE]

Owners == {u \in Accounts : users[u].owner}

(* delete_me: a session opened in the last minutes, and not that of the    *)
(* last owner.                                                             *)
RequestDeletion(s) ==
  /\ Authentic(s)
  /\ Owners # {s.user}
  /\ work' = work \cup {[at |-> "deleting", user |-> s.user]}
  /\ UNCHANGED <<users, codes, devices, sessions, invites, oprf, log, snaps, botKeys, starts>>

(* anonymise_user, one transaction.  It does not ask for the owners again. *)
(* Of two requests to delete one account the second finds it deleted.      *)
DeleteAccount(w) ==
  /\ w \in At("deleting")
  /\ sessions' = sessions \ SessionsOf(w.user)
  /\ devices' = devices \ DevicesOf(w.user)
  /\ log' = WithoutBots(w.user, Tombstoned(w.user))
  /\ users' = Anonymised(w.user)
  /\ Done(w)
  /\ UNCHANGED <<codes, invites, oprf, snaps, botKeys, starts>>

-----------------------------------------------------------------------------
(* The OPRF key                                                            *)

(* Under the process-wide lock every live account is flagged, then the new *)
(* key replaces the file; the process keeps the key it loaded.             *)
RotateFlag ==
  /\ At("rotating") = {}
  /\ oprf.file < MaxRotations /\ RareLeft
  /\ users' = [u \in Accounts |-> [users[u] EXCEPT !.flagged = @ \/ Live(u)]]
  /\ work' = work \cup {[at |-> "rotating", n |-> starts]}
  /\ UNCHANGED <<codes, devices, sessions, invites, oprf, log, snaps, botKeys, starts>>

RotateWrite(w) ==
  /\ w \in At("rotating")
  /\ oprf' = [oprf EXCEPT !.file = @ + 1]
  /\ Done(w)
  /\ UNCHANGED <<users, codes, devices, sessions, invites, log, snaps, botKeys, starts>>

(* The process stops and starts again: pending protocols and handlers are  *)
(* gone, the key file is loaded.                                           *)
Restart ==
  /\ work # {} \/ oprf.loaded # oprf.file
  /\ work' = {}
  /\ oprf' = [oprf EXCEPT !.loaded = oprf.file]
  /\ UNCHANGED <<users, codes, devices, sessions, invites, log, snaps, botKeys, starts>>

-----------------------------------------------------------------------------
(* The key transparency log                                                *)

(* create_bot and rotate_bot_keys.                                         *)
AppendBotLeaf(s) ==
  /\ Authentic(s)
  /\ botKeys < MaxBotKeys /\ RareLeft
  /\ botKeys' = botKeys + 1
  /\ log' = Append(log, [of |-> s.user, bot |-> TRUE, hash |-> BotLeaf(botKeys + 1)])
  /\ UNCHANGED <<users, codes, devices, sessions, invites, work, oprf, snaps, starts>>

(* create_snapshot reads the rows, then inserts the head it signed.        *)
SnapshotRead ==
  /\ Heads < MaxSnapshots /\ RareLeft
  /\ log # <<>>
  /\ work' = work \cup {[at |-> "signing", n |-> Heads, size |-> Len(log), root |-> Root(Recomputed)]}
  /\ UNCHANGED <<users, codes, devices, sessions, invites, oprf, log, snaps, botKeys, starts>>

SnapshotInsert(w) ==
  /\ w \in At("signing")
  /\ snaps' = Append(snaps, [size |-> w.size, root |-> w.root])
  /\ Done(w)
  /\ UNCHANGED <<users, codes, devices, sessions, invites, oprf, log, botKeys, starts>>

(* The tree head that goes with a proof: the latest snapshot if it is as   *)
(* large as the log, the recomputed root otherwise.                        *)
HeadRoot ==
  IF snaps # <<>> /\ Last(snaps).size = Len(log) THEN Last(snaps).root ELSE Root(Stored)

Answer(i) == [leaf |-> Stored[i], at |-> i, size |-> Len(log),
              proof |-> InclusionProof(Stored, i), root |-> HeadRoot]

LeavesOf(u, bot) == {i \in DOMAIN log : log[i].of = u /\ log[i].bot = bot}

(* Both handlers take the last of the rows that are asked for.             *)
UserAnswers == {Answer(Max(LeavesOf(u, FALSE))) : u \in {v \in Accounts : LeavesOf(v, FALSE) # {}}}
BotAnswers == {Answer(Max(LeavesOf(u, TRUE))) : u \in {v \in Accounts : LeavesOf(v, TRUE) # {}}}

-----------------------------------------------------------------------------

AccountsNext ==
  \/ \E t \in Tokens : RegisterStart(t)
  \/ \E u \in Accounts : \/ \E c \in Clients : LoginStart(u, c)
                         \/ \E k \in Codes : RecoverStart(u, k)
  \/ \E w \in work : \/ Forget(w) \/ RegisterFirst(w) \/ RegisterRefused(w)
                     \/ \E i \in DOMAIN invites : ConsumeInvite(w, i)
                     \/ CreateAccount(w) \/ CreateAccountFails(w)
                     \/ \E k \in Keys \cup {NoKey} : LoginFinish(w, k)
                     \/ StoreKey(w) \/ CompareKey(w) \/ FindDevice(w) \/ AddDevice(w) \/ OpenSession(w)
                     \/ RecoverFinish(w) \/ RecoverSession(w)
                     \/ RotateWrite(w) \/ SnapshotInsert(w) \/ DeleteAccount(w)
  \/ \E s \in sessions : \/ RefuseDisabled(s) \/ Expire(s)
                         \/ \E t \in sessions : RevokeSession(s, t)
                         \/ \E all \in BOOLEAN : Logout(s, all)
                         \/ \E c \in Clients : RevokeDevice(s, c)
                         \/ CreateInvite(s) \/ RequestDeletion(s) \/ AppendBotLeaf(s)
  \/ \E i \in DOMAIN invites : CloseInvite(i)
  \/ RotateFlag \/ Restart \/ SnapshotRead

AccountsSpec == AccountsInit /\ [][AccountsNext]_accountVars

-----------------------------------------------------------------------------

Users == [token : Tokens \cup {NoToken}, key : Keys \cup {NoKey}, cred : 0..MaxStarts,
          under : 0..MaxRotations, flagged : BOOLEAN, live : BOOLEAN, owner : BOOLEAN, boot : BOOLEAN]
Steps == {"registering", "admitted", "loggingIn", "keyRead", "keyed", "counted", "deviceReady",
          "recovering", "recovered", "rotating", "signing", "deleting"}

(* Every variable has its type, no two devices share a client_id, live     *)
(* accounts have distinct tokens, and a session's device is registered.    *)
AccountsTypeOK ==
  /\ \A u \in Accounts : users[u] \in Users /\ codes[u] \subseteq Codes
  /\ DOMAIN codes = Accounts
  /\ devices \subseteq Accounts \X Clients
  /\ \A s \in sessions : /\ s.user \in Accounts /\ s.era \in Nat /\ s.proof \in Nat
                         /\ s.client # NoClient => <<s.user, s.client>> \in devices
  /\ \A i \in DOMAIN invites : invites[i] \in [uses : 0..MaxUses, open : BOOLEAN]
  /\ \A w \in work : w.at \in Steps
  /\ oprf \in [file : 0..MaxRotations, loaded : 0..MaxRotations]
  /\ \A i \in DOMAIN log : log[i].of \in Accounts \cup {0}
  /\ \A i \in DOMAIN snaps : snaps[i].size \in Nat
  /\ botKeys \in 0..MaxBotKeys /\ starts \in 0..MaxStarts
  /\ \A d, e \in devices : d[2] = e[2] => d = e
  /\ \A u, v \in Accounts : users[u].token = users[v].token => u = v \/ users[u].token = NoToken

(* The uses of invites, each by its invite and its number.                 *)
Uses == UNION {{i} \X (1 .. invites[i].uses) : i \in DOMAIN invites}

(* Every account but those created while there was none was paid for with  *)
(* a use of an invite, and so was every registration about to create one,  *)
(* although the use and the account are written in two transactions        *)
(* (validate_and_consume_invite, register_finish).                         *)
AdmissionPaid ==
  Cardinality(Accounts \ Unpaid) + Cardinality({w \in At("admitted") : ~w.boot}) <= Cardinality(Uses)

(* Once recover_finish has replaced the credential, every session opened   *)
(* before is unusable, for every order of recoveries and logins.           *)
OldSessionsOut == \A s \in sessions : s.era = users[s.user].cred

(* The inclusion proof the server returns, for a user or for a bot, leads  *)
(* to the root of the stored leaves; and as long as no bot ever had a      *)
(* leaf, to the root in the tree head returned with it, whichever snapshot *)
(* that is (get_user_kt_handler, get_bot_kt_handler, create_snapshot).     *)
ProofsVerify ==
  \A a \in UserAnswers \cup BotAnswers :
    Verifies(a.leaf, a.at, a.size, a.proof, IF botKeys = 0 THEN a.root ELSE Root(Stored))

-----------------------------------------------------------------------------
(* What the code does not keep                                             *)

(* A leaf, once in the log, stays where it is (src/server-spec-v2.md:      *)
(* "Append-only log with inclusion proofs and auditor signatures").        *)
(* Deleting an account deletes its bots' rows, and their leaves with them. *)
LogAppendOnly ==
  [][Len(log) <= Len(log') /\ \A i \in DOMAIN log : log'[i].hash = log[i].hash]_accountVars

(* The root of a tree head is the one its proof leads to: not with a bot's *)
(* leaf in the log, which create_snapshot hashes as a user's.              *)
HeadMatchesProof == log # <<>> => HeadRoot = Root(Stored)

(* A recovery code recovers once: two recover_starts may hold one code.    *)
CodeUsedOnce == [][\A u \in Accounts : users'[u].cred # users[u].cred => codes'[u] # codes[u]]_accountVars

(* No session rests on a credential that was replaced: a login that was    *)
(* started before the recovery finishes after it.                          *)
OldPasswordOut == \A s \in sessions : s.proof = users[s.user].cred

(* A live account's identity key is set once: two first logins both see it *)
(* empty.                                                                  *)
KeySetOnce ==
  [][\A u \in Accounts : users[u].key # NoKey /\ Live(u)' => users'[u].key = users[u].key]_accountVars

(* No account has more devices than the limit: counted before the insert.  *)
DeviceLimit == \A u \in Accounts : Cardinality(DevicesOf(u)) <= MaxDevices

(* Only the first account became owner by being first: two registrations   *)
(* may both see no account.                                                *)
OneBootstrap == Cardinality(Unpaid) <= 1

(* There is an owner as long as there was one (last_owner_cannot_delete):   *)
(* two accounts that both became owner by being first may both see two     *)
(* owners and delete themselves.                                           *)
OwnerRemains == [][Owners # {} => Owners' # {}]_accountVars

(* An account that can no longer log in is told so: one registered between *)
(* the flagging and the restart is not flagged.                            *)
LockedOutIsTold == \A u \in Accounts : Live(u) /\ users[u].under # oprf.loaded => users[u].flagged

=============================================================================
