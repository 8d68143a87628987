------------------------------ MODULE UserSync ------------------------------
(***************************************************************************)
(* The user-scoped state of one account and its devices.  On the server:   *)
(* sync/seq.rs (the user's counter), starred/write.rs and sync/read_state.rs *)
(* (two of the tables it stamps), sync/query.rs (GET /users/me/sync) and   *)
(* cleanup/sync.rs (the pruning of tombstones).  On a device: lib/sync and *)
(* the starred items repository of packages/app.                           *)
(*                                                                         *)
(* The server has one SQLite connection: a transaction is one step, and so *)
(* is each query outside one.  star_item and unstar_item look the item up  *)
(* before their transaction; execute_sync runs its queries one by one; the *)
(* pruning job selects its rows first and deletes them afterwards.         *)
(***************************************************************************)
EXTENDS Integers, FiniteSets

CONSTANTS
  Devices,     \* the user's devices; each runs at most one sync at a time
  Callers,     \* the star and unstar requests that may be in flight at once
  Items,       \* what can be starred
  ReadState,   \* the user's one read_state row
  NoRow,       \* an item that has no row
  NoCall,      \* a caller without a request in flight
  Idle,        \* a device with no sync in flight
  MaxStarred,  \* config.max_starred_items_per_user
  CanAge,      \* the rows that may grow older than the retention window
  QuietSync,   \* TRUE: nothing is written while the server answers a sync
  MaxSeq,      \* bound on the numbers allocated
  MaxFails     \* bound on the syncs that fail

ASSUME UserSyncAssumption ==
  /\ ReadState \notin Items
  /\ NoRow \notin [seq : Nat, deleted : BOOLEAN]
  /\ MaxStarred \in Nat \ {0}
  /\ CanAge \subseteq Items \cup {ReadState}
  /\ QuietSync \in BOOLEAN
  /\ MaxSeq \in Nat
  /\ MaxFails \in Nat

VARIABLES
  nextSeq,   \* user_seq.next_seq; 1 also when the user has no row yet
  starred,   \* starred_items: per item, its row
  readSeq,   \* read_state: the user_seq of the row, 0 without a row
  aged,      \* the rows whose timestamp has left the retention window
  call,      \* per caller, the star or unstar request and what it looked up
  pruning,   \* the rows the pruning job has selected
  sync,      \* per device, the sync in flight
  cursor,    \* per device, last_user_seq
  local,     \* per device, its copy of starred_items
  localRead, \* per device, the user_seq of the read state it last applied
  missed,    \* per device, the numbers its syncs passed over (history)
  fails      \* the syncs that have failed

tableVars  == <<starred, readSeq, aged>>
deviceVars == <<cursor, local, localRead>>
vars == <<nextSeq, tableVars, call, pruning, sync, deviceVars, missed, fails>>

Row == [seq : Nat, deleted : BOOLEAN]

Active(row) == row # NoRow /\ ~row.deleted

\* next_seq - 1, the number allocated last.
Highest == nextSeq - 1

\* The phases of a sync on the server, and then on the device.
ServerPhases == {"starred", "max", "check"}
DevicePhases == {"answered", "read_applied", "applied"}

Answering(d) == sync[d] # Idle /\ sync[d].phase \in ServerPhases

MayWrite ==
  /\ nextSeq <= MaxSeq
  /\ QuietSync => \A d \in Devices : ~Answering(d)

-----------------------------------------------------------------------------
Init ==
  /\ nextSeq = 1
  /\ starred = [i \in Items |-> NoRow]
  /\ readSeq = 0
  /\ aged = {}
  /\ call = [c \in Callers |-> NoCall]
  /\ pruning = {}
  /\ sync = [d \in Devices |-> Idle]
  /\ cursor = [d \in Devices |-> 0]
  /\ local = [d \in Devices |-> [i \in Items |-> NoRow]]
  /\ localRead = [d \in Devices |-> 0]
  /\ missed = [d \in Devices |-> {}]
  /\ fails = 0

(***************************************************************************)
(* Starring and unstarring.  An item that is starred already needs no      *)
(* second star, and one that is not starred cannot be unstarred: those     *)
(* requests are answered at once and change nothing.                       *)
(***************************************************************************)

StarLookup(c, i) ==
  /\ call[c] = NoCall
  /\ ~Active(starred[i])
  /\ call' = [call EXCEPT ![c] =
       [op |-> IF starred[i] = NoRow THEN "star" ELSE "restar", item |-> i]]
  /\ UNCHANGED <<nextSeq, tableVars, pruning, sync, deviceVars, missed, fails>>

UnstarLookup(c, i) ==
  /\ call[c] = NoCall
  /\ Active(starred[i])
  /\ call' = [call EXCEPT ![c] = [op |-> "unstar", item |-> i]]
  /\ UNCHANGED <<nextSeq, tableVars, pruning, sync, deviceVars, missed, fails>>

\* The number about to be written is passed over by a sync that has listed its
\* table and has still to read max_seq: one in one of these phases.
PassedOver(phases) ==
  missed' = [d \in Devices |->
    IF sync[d] # Idle /\ sync[d].phase \in phases THEN missed[d] \cup {nextSeq}
                                                 ELSE missed[d]]

Calling(c, op, i) == call[c] # NoCall /\ call[c] = [op |-> op, item |-> i]

ActiveCount == Cardinality({i \in Items : Active(starred[i])})

\* Variants of a definition that carry a mistake stand before it, named for
\* the mistake.  No specification uses them: they show that the properties
\* would notice.

\* The number is taken without UPDATE user_seq.
WriteStarredSameNumber(c, i, deleted) ==
  /\ MayWrite
  /\ starred' = [starred EXCEPT ![i] = [seq |-> nextSeq, deleted |-> deleted]]
  /\ aged' = aged \ {i}
  /\ call' = [call EXCEPT ![c] = NoCall]
  /\ PassedOver({"max"})
  /\ UNCHANGED <<nextSeq, readSeq, pruning, sync, deviceVars, fails>>

\* The transaction that stamps the row of item i: allocate_user_seq, then
\* the INSERT or UPDATE, which also writes a new timestamp.
WriteStarred(c, i, deleted) ==
  /\ MayWrite
  /\ nextSeq' = nextSeq + 1
  /\ starred' = [starred EXCEPT ![i] = [seq |-> nextSeq, deleted |-> deleted]]
  /\ aged' = aged \ {i}
  /\ call' = [call EXCEPT ![c] = NoCall]
  /\ PassedOver({"max"})
  /\ UNCHANGED <<readSeq, pruning, sync, deviceVars, fails>>

\* The item had no row when it was looked up.
StarFresh(c, i) ==
  /\ Calling(c, "star", i)
  /\ ActiveCount < MaxStarred
  /\ starred[i] = NoRow
  /\ WriteStarred(c, i, FALSE)

\* The item had a tombstone when it was looked up.  The update does not ask
\* whether the row is still a tombstone, and the limit is not consulted.
StarAgain(c, i) ==
  /\ Calling(c, "restar", i)
  /\ starred[i] # NoRow
  /\ WriteStarred(c, i, FALSE)

\* The update sets deleted_at and leaves user_seq.
UnstarUnstamped(c, i) ==
  /\ MayWrite
  /\ Calling(c, "unstar", i)
  /\ starred[i] # NoRow
  /\ starred' = [starred EXCEPT ![i].deleted = TRUE]
  /\ call' = [call EXCEPT ![c] = NoCall]
  /\ UNCHANGED <<nextSeq, readSeq, aged, pruning, sync, deviceVars, missed, fails>>

\* The update does not ask whether the row is still active.
Unstar(c, i) ==
  /\ Calling(c, "unstar", i)
  /\ starred[i] # NoRow
  /\ WriteStarred(c, i, TRUE)

\* The row was pruned since the lookup: the update finds nothing, but the
\* number is allocated all the same and the transaction commits.
UnstarPruned(c, i) ==
  /\ MayWrite
  /\ Calling(c, "unstar", i)
  /\ starred[i] = NoRow
  /\ nextSeq' = nextSeq + 1
  /\ call' = [call EXCEPT ![c] = NoCall]
  /\ UNCHANGED <<tableVars, pruning, sync, deviceVars, missed, fails>>

\* The limit is reached, another request inserted the row first (primary key),
\* the tombstone was pruned (RETURNING finds no row), or the caller went away.
CallFails(c) ==
  /\ call[c] # NoCall
  /\ call' = [call EXCEPT ![c] = NoCall]
  /\ UNCHANGED <<nextSeq, tableVars, pruning, sync, deviceVars, missed, fails>>

\* write_read_state is one transaction, an upsert.
MarkRead ==
  /\ MayWrite
  /\ nextSeq' = nextSeq + 1
  /\ readSeq' = nextSeq
  /\ aged' = aged \ {ReadState}
  /\ PassedOver({"starred", "max"})
  /\ UNCHANGED <<starred, call, pruning, sync, deviceVars, fails>>

-----------------------------------------------------------------------------
(***************************************************************************)
(* Time and the pruning job.  What ages is deleted_at for a tombstone and  *)
(* updated_at for the read state.                                          *)
(***************************************************************************)

Age(x) ==
  /\ x \in CanAge \ aged
  /\ IF x = ReadState THEN readSeq # 0
                      ELSE starred[x] # NoRow /\ starred[x].deleted
  /\ aged' = aged \cup {x}
  /\ UNCHANGED <<nextSeq, starred, readSeq, call, pruning, sync, deviceVars, missed, fails>>

PruneSelect ==
  /\ pruning = {}
  /\ pruning' = {i \in Items \cap aged : starred[i].seq <= Highest}
  /\ UNCHANGED <<nextSeq, tableVars, call, sync, deviceVars, missed, fails>>

\* DELETE ... WHERE rowid IN (...): whatever the rows are by now.
PruneDelete ==
  /\ pruning # {}
  /\ starred' = [i \in Items |-> IF i \in pruning THEN NoRow ELSE starred[i]]
  /\ aged' = aged \ pruning
  /\ pruning' = {}
  /\ UNCHANGED <<nextSeq, readSeq, call, sync, deviceVars, missed, fails>>

-----------------------------------------------------------------------------
(***************************************************************************)
(* GET /users/me/sync, query by query.                                     *)
(***************************************************************************)

Max2(a, b) == IF a >= b THEN a ELSE b

\* What lies above the cursor is listed by this sync: nothing of it is missed.
SyncReadState(d) ==
  /\ sync[d] = Idle
  /\ sync' = [sync EXCEPT ![d] =
       [phase  |-> "starred",
        since  |-> cursor[d],
        read   |-> IF readSeq > cursor[d] THEN readSeq ELSE 0,
        rows   |-> [i \in Items |-> NoRow],
        max    |-> 0,
        resync |-> FALSE]]
  /\ missed' = [missed EXCEPT ![d] = {n \in @ : n <= cursor[d]}]
  /\ UNCHANGED <<nextSeq, tableVars, call, pruning, deviceVars, fails>>

Since(n) ==
  [i \in Items |-> IF starred[i] # NoRow /\ starred[i].seq > n
                     THEN starred[i] ELSE NoRow]

SyncStarred(d) ==
  /\ sync[d] # Idle /\ sync[d].phase = "starred"
  /\ sync' = [sync EXCEPT ![d].phase = "max",
                          ![d].rows = Since(sync[d].since)]
  /\ UNCHANGED <<nextSeq, tableVars, call, pruning, deviceVars, missed, fails>>

\* max_seq is the number allocated last, not the largest one listed.
SyncMaxSeq(d) ==
  /\ sync[d] # Idle /\ sync[d].phase = "max"
  /\ sync' = [sync EXCEPT ![d].phase = "check",
                          ![d].max = Max2(sync[d].since, Highest)]
  /\ UNCHANGED <<nextSeq, tableVars, call, pruning, deviceVars, missed, fails>>

RetainedSeqs ==
  {starred[i].seq : i \in {j \in Items : starred[j] # NoRow}}
    \cup ({readSeq} \ {0})

\* The smallest number retained in any table lies above since.  With no row
\* left the code puts Highest + 1 in its place.
BelowRetained(since) ==
  IF RetainedSeqs # {} THEN \A n \in RetainedSeqs : since < n
                       ELSE Highest > 0 => since < Highest + 1

\* The query on the age of the rows has thirteen parameters and binds eleven
\* values.  SQLite takes the last two, the cutoff among them, as NULL, and no
\* row is older than NULL.  (Its arm for starred_items, whose timestamp is
\* starred_at, would select nothing either.)
CutoffBound == FALSE
OlderThanCutoff(since) ==
  CutoffBound /\ ReadState \in aged /\ readSeq <= since

FullResync(since) ==
  since # 0 /\ (BelowRetained(since) \/ OlderThanCutoff(since))

SyncCheck(d) ==
  /\ sync[d] # Idle /\ sync[d].phase = "check"
  /\ sync' = [sync EXCEPT ![d].phase = "answered",
                          ![d].resync = FullResync(sync[d].since)]
  /\ UNCHANGED <<nextSeq, tableVars, call, pruning, deviceVars, missed, fails>>

-----------------------------------------------------------------------------
(***************************************************************************)
(* runUserScopedSync on the device.                                        *)
(***************************************************************************)

\* The cursor stays where it is.
RestartCursorUnchanged(d) ==
  /\ sync[d] # Idle /\ sync[d].phase = "answered"
  /\ sync[d].resync
  /\ sync' = [sync EXCEPT ![d] = Idle]
  /\ UNCHANGED <<nextSeq, tableVars, call, pruning, cursor, local, localRead, missed, fails>>

\* The answer asks for a full resync: the cursor starts over, the local rows
\* stay.
RestartCursor(d) ==
  /\ sync[d] # Idle /\ sync[d].phase = "answered"
  /\ sync[d].resync
  /\ cursor' = [cursor EXCEPT ![d] = 0]
  /\ sync' = [sync EXCEPT ![d] = Idle]
  /\ UNCHANGED <<nextSeq, tableVars, call, pruning, local, localRead, missed, fails>>

ApplyReadState(d) ==
  /\ sync[d] # Idle /\ sync[d].phase = "answered"
  /\ ~sync[d].resync
  /\ localRead' = [localRead EXCEPT ![d] =
                     IF sync[d].read = 0 THEN @ ELSE sync[d].read]
  /\ sync' = [sync EXCEPT ![d].phase = "read_applied"]
  /\ UNCHANGED <<nextSeq, tableVars, call, pruning, cursor, local, missed, fails>>

\* applyRemote: a row that is not newer than the local one is skipped.
Newer(row, mine) == row # NoRow /\ (mine = NoRow \/ row.seq > mine.seq)

ApplyStarred(d) ==
  /\ sync[d] # Idle /\ sync[d].phase = "read_applied"
  /\ local' = [local EXCEPT ![d] =
       [i \in Items |-> IF Newer(sync[d].rows[i], @[i])
                          THEN sync[d].rows[i] ELSE @[i]]]
  /\ sync' = [sync EXCEPT ![d].phase = "applied"]
  /\ UNCHANGED <<nextSeq, tableVars, call, pruning, cursor, localRead, missed, fails>>

StoreCursor(d) ==
  /\ sync[d] # Idle /\ sync[d].phase = "applied"
  /\ cursor' = [cursor EXCEPT ![d] = sync[d].max]
  /\ sync' = [sync EXCEPT ![d] = Idle]
  /\ UNCHANGED <<nextSeq, tableVars, call, pruning, local, localRead, missed, fails>>

\* The cursor is stored before everything has been applied.
SyncFailsStoring(d) ==
  /\ fails < MaxFails
  /\ sync[d] # Idle
  /\ cursor' = [cursor EXCEPT ![d] = sync[d].max]
  /\ sync' = [sync EXCEPT ![d] = Idle]
  /\ fails' = fails + 1
  /\ UNCHANGED <<nextSeq, tableVars, call, pruning, local, localRead, missed>>

\* The request fails, a write of the device's database fails, or the page is
\* closed: what was applied stays, the cursor is not stored.
SyncFails(d) ==
  /\ fails < MaxFails
  /\ sync[d] # Idle
  /\ sync' = [sync EXCEPT ![d] = Idle]
  /\ fails' = fails + 1
  /\ UNCHANGED <<nextSeq, tableVars, call, pruning, deviceVars, missed>>

-----------------------------------------------------------------------------
StarRequest(c, i) ==
  StarLookup(c, i) \/ StarFresh(c, i) \/ StarAgain(c, i)

UnstarRequest(c, i) ==
  UnstarLookup(c, i) \/ Unstar(c, i) \/ UnstarPruned(c, i)

SyncStep(d) ==
  \/ SyncReadState(d) \/ SyncStarred(d) \/ SyncMaxSeq(d) \/ SyncCheck(d)
  \/ RestartCursor(d) \/ ApplyReadState(d) \/ ApplyStarred(d) \/ StoreCursor(d)

Next ==
  \/ \E c \in Callers, i \in Items : StarRequest(c, i) \/ UnstarRequest(c, i)
  \/ \E c \in Callers : CallFails(c)
  \/ MarkRead
  \/ \E x \in CanAge : Age(x)
  \/ PruneSelect
  \/ PruneDelete
  \/ \E d \in Devices : SyncStep(d)
  \/ \E d \in Devices : SyncFails(d)

Spec == Init /\ [][Next]_vars

\* A device syncs at every start of the app; the model has its user start it
\* again and again.  No request is bound to come or to be finished.
FairSpec == Spec /\ \A d \in Devices : WF_vars(SyncStep(d))

-----------------------------------------------------------------------------
(***************************************************************************)
(* Properties.                                                             *)
(***************************************************************************)

Sync ==
  [phase  : ServerPhases \cup DevicePhases,
   since  : Nat,
   read   : Nat,
   rows   : [Items -> Row \cup {NoRow}],
   max    : Nat,
   resync : BOOLEAN]

Call == [op : {"star", "restar", "unstar"}, item : Items]

\* Every variable stays within its type.
TypeOK ==
  /\ nextSeq \in Nat \ {0}
  /\ starred \in [Items -> Row \cup {NoRow}]
  /\ readSeq \in Nat
  /\ aged \subseteq Items \cup {ReadState}
  /\ call \in [Callers -> Call \cup {NoCall}]
  /\ pruning \subseteq Items
  /\ sync \in [Devices -> Sync \cup {Idle}]
  /\ cursor \in [Devices -> Nat]
  /\ local \in [Devices -> [Items -> Row \cup {NoRow}]]
  /\ localRead \in [Devices -> Nat]
  /\ missed \in [Devices -> SUBSET Nat]
  /\ fails \in Nat

\* However the requests interleave, no two rows carry the same user_seq
\* (allocate_user_seq in the transaction that writes the row).
SeqsDistinct ==
  /\ \A i, j \in Items :
       i # j /\ starred[i] # NoRow /\ starred[j] # NoRow
         => starred[i].seq # starred[j].seq
  /\ \A i \in Items : starred[i] # NoRow => starred[i].seq # readSeq

\* A row that changes gets a number that lies above the cursor of every
\* device and above what an answer under way will make of it, unless that
\* answer has still to read its max_seq.
ChangeIsAhead ==
  [][\A i \in Items : starred'[i] \notin {starred[i], NoRow} =>
       \A d \in Devices :
         /\ starred'[i].seq > cursor[d]
         /\ sync[d] # Idle => starred'[i].seq > sync[d].max]_vars

\* A device knows every row up to its cursor as it is on the server, whatever
\* syncs failed half-way, were repeated or started over (list, then max_seq;
\* apply, then cursor), save a row written between the query that listed its
\* table and max_seq, and no sync from a lower cursor since.
CursorCovers ==
  \A d \in Devices :
    /\ \A i \in Items :
         starred[i] # NoRow /\ starred[i].seq <= cursor[d] =>
           local[d][i] = starred[i] \/ starred[i].seq \in missed[d]
    /\ readSeq <= cursor[d] =>
         localRead[d] >= readSeq \/ readSeq \in missed[d]

\* server/README.md:993: max_seq is the largest user_seq among the rows
\* returned, so a cursor covers nothing that was not listed.
NothingMissed ==
  \A d \in Devices, i \in Items :
    starred[i] # NoRow /\ starred[i].seq <= cursor[d] =>
      local[d][i] = starred[i]

SameStars(d) ==
  /\ \A i \in Items : Active(local[d][i]) <=> Active(starred[i])
  /\ localRead[d] = readSeq

\* Once the user stops changing things, all devices end up with the server's
\* starred items and read state, resyncs and failed syncs included.
AllConverge == <>[](\A d \in Devices : SameStars(d))

\* Test: an active row must not be pruned.
ActiveNotPruned ==
  [][\A i \in Items : Active(starred[i]) => starred'[i] # NoRow]_vars

\* README: a device whose cursor fell below the retained history is told to
\* resync; so one that is up to date shows no star that is gone.
NoGhostStar ==
  \A d \in Devices, i \in Items :
    /\ sync[d] = Idle
    /\ cursor[d] = Highest
    /\ Active(local[d][i])
    => Active(starred[i])

\* Test: an answer to a device whose since covers state that is older than
\* the retention window asks for a full resync.
OldStateResyncs ==
  [][\A d \in Devices :
       (/\ sync[d] # Idle
        /\ sync[d].phase = "check"
        /\ 0 < readSeq /\ readSeq <= sync[d].since
        /\ ReadState \in aged)
       => sync'[d] = Idle \/ sync'[d].phase = "check" \/ sync'[d].resync]_vars

=============================================================================
