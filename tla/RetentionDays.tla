--------------------------- MODULE RetentionDays ---------------------------
(***************************************************************************)
(* How long a room's attachments are kept.  Three tiers: the override the  *)
(* owner gave when the room was made, the limit of the instance (a row an  *)
(* administrator writes, or the default) and the hard maximum the server   *)
(* was built with.  0 means "for ever" at every tier.                      *)
(*                                                                         *)
(* The cleanup job reads the instance limit once, then the rooms, then     *)
(* room by room selects the due attachments and deletes them by id in a    *)
(* second statement; requests run between any two of these.                *)
(*                                                                         *)
(* Abstracted: time is the number of days; an attachment made on day b is  *)
(* older than n days when b < today - n.  The blobs are in module Files.   *)
(***************************************************************************)
EXTENDS Integers, FiniteSets

CONSTANTS Spaces,     \* rooms
          Pictures,   \* attachment ids, the hashes of the contents
          HardMax,    \* ServerHardMax.attachment_retention_days
          LastDay     \* bound: the last day

ASSUME DaysAssumption == HardMax \in Nat /\ LastDay \in Nat

VARIABLES today,
          instance,  \* the row attachment_retention_days of instance_limits
          override,  \* rooms.retention_days
          born,      \* attachments: the room and the day, or Gone
          prune,     \* the cleanup job
          restored,   \* history: attachments stored anew while the job held their id
          early      \* history: attachments the job deleted before they were due

days == <<today, instance, override, born, prune, restored, early>>

Unset == -1          \* no row, or NULL
NotMade == -2        \* the room does not exist
DefaultDays == 0     \* LimitDefault::ATTACHMENT_RETENTION_DAYS
Gone == [room |-> "none", day |-> 0]
Asleep == [at |-> "idle", limit |-> 0, rooms |-> {}, due |-> {}]

\* The days an administrator or an owner may ask for: one more than the
\* hard maximum, so that both the check and the clamp refuse something.
Askable == 0 .. HardMax + 1

DaysTypeOK ==
  /\ today \in 0 .. LastDay
  /\ instance \in 0 .. HardMax \cup {Unset}
  /\ override \in [Spaces -> 0 .. HardMax + 1 \cup {Unset, NotMade}]
  /\ born \in [Pictures -> [room : Spaces, day : 0 .. LastDay] \cup {Gone}]
  /\ prune \in [at : {"idle", "scan", "select", "drop"}, limit : 0 .. HardMax,
              rooms : SUBSET Spaces, due : SUBSET Pictures]
  /\ restored \subseteq Pictures /\ early \subseteq Pictures

DaysInit ==
  /\ today = 0
  /\ instance = Unset
  /\ override = [r \in Spaces |-> NotMade]
  /\ born = [f \in Pictures |-> Gone]
  /\ prune = Asleep
  /\ restored = {}
  /\ early = {}

Least(a, b) == IF a <= b THEN a ELSE b
Clamp(n, limit) == IF limit > 0 THEN Least(n, limit) ELSE n

GetLimit == Least(IF instance = Unset THEN DefaultDays ELSE instance, HardMax)

\* Effective with the arm for an override of 0 forgotten.
EffectiveZeroUnset(own, limit, hard) ==
  LET asked == IF own > 0 THEN Least(own, limit) ELSE limit
  IN IF 0 \in {asked, limit, hard} THEN 0 ELSE Least(asked, hard)

\* The least of the three tiers, unless one of them says "for ever".
Effective(own, limit, hard) ==
  LET asked == IF own > 0 THEN Least(own, limit) ELSE IF own = 0 THEN 0 ELSE limit
  IN IF 0 \in {asked, limit, hard} THEN 0 ELSE Least(asked, hard)

OlderThan(r, n) == {f \in Pictures : born[f] # Gone /\ born[f].room = r /\ born[f].day < today - n}

\* POST /rooms with retention_days n, or without it.
CreateRoom(r, n) ==
  /\ override[r] = NotMade
  /\ n \in Askable \cup {Unset}
  /\ override' = [override EXCEPT ![r] =
       IF n = Unset THEN Unset ELSE Clamp(Clamp(n, GetLimit), HardMax)]
  /\ UNCHANGED <<today, instance, born, prune, restored, early>>

\* PATCH /admin/limits; a value beyond the hard maximum is refused.
SetLimit(n) ==
  /\ n \in Askable /\ n <= HardMax
  /\ instance' = n
  /\ UNCHANGED <<today, override, born, prune, restored, early>>

Attach(f, r) ==
  /\ override[r] # NotMade /\ born[f] = Gone
  /\ born' = [born EXCEPT ![f] = [room |-> r, day |-> today]]
  /\ restored' = IF f \in prune.due THEN restored \cup {f} ELSE restored
  /\ UNCHANGED <<today, instance, override, prune, early>>

DeleteAttachment(f) ==
  /\ born[f] # Gone
  /\ born' = [born EXCEPT ![f] = Gone]
  /\ UNCHANGED <<today, instance, override, prune, restored, early>>

StartPrune ==
  /\ prune.at = "idle"
  /\ prune' = [Asleep EXCEPT !.at = "scan", !.limit = GetLimit]
  /\ UNCHANGED <<today, instance, override, born, restored, early>>

\* SELECT DISTINCT r.id, r.retention_days: the rooms with an attachment.
\* An override never changes, so the job may read it later.
ScanRooms ==
  /\ prune.at = "scan"
  /\ prune' = [prune EXCEPT !.at = "select",
       !.rooms = {r \in Spaces : \E f \in Pictures : born[f].room = r}]
  /\ UNCHANGED <<today, instance, override, born, restored, early>>

SelectDue(r) ==
  /\ prune.at = "select" /\ r \in prune.rooms
  /\ LET n == Effective(override[r], prune.limit, HardMax) IN
     prune' = IF n = 0 THEN [prune EXCEPT !.rooms = @ \ {r}]
            ELSE [prune EXCEPT !.at = "drop", !.rooms = @ \ {r}, !.due = OlderThan(r, n)]
  /\ UNCHANGED <<today, instance, override, born, restored, early>>

\* What the three tiers mean: nothing is due where a tier says "for ever";
\* elsewhere everything older than some tier allows is.
DueBy(f, limit) ==
  LET own == override[born[f].room]
      tiers == {limit, HardMax} \cup IF own = Unset THEN {} ELSE {own}
  IN 0 \notin tiers /\ \E n \in tiers : born[f].day + n < today

\* DELETE ... WHERE id IN (...), whatever the rows are by now.
DropDue ==
  /\ prune.at = "drop"
  /\ LET there == {f \in prune.due : born[f] # Gone} IN
     early' = early \cup {f \in there : ~DueBy(f, prune.limit)}
  /\ born' = [f \in Pictures |-> IF f \in prune.due THEN Gone ELSE born[f]]
  /\ prune' = [prune EXCEPT !.at = "select", !.due = {}]
  /\ UNCHANGED <<today, instance, override, restored>>

EndPrune ==
  /\ prune.at = "select" /\ prune.rooms = {}
  /\ prune' = Asleep
  /\ UNCHANGED <<today, instance, override, born, restored, early>>

NextDay ==
  /\ today < LastDay
  /\ today' = today + 1
  /\ UNCHANGED <<instance, override, born, prune, restored, early>>

DaysNext ==
  \/ \E r \in Spaces, n \in Askable \cup {Unset} : CreateRoom(r, n)
  \/ \E n \in Askable : SetLimit(n)
  \/ \E f \in Pictures, r \in Spaces : Attach(f, r)
  \/ \E f \in Pictures : DeleteAttachment(f)
  \/ StartPrune \/ ScanRooms
  \/ \E r \in Spaces : SelectDue(r)
  \/ DropDue \/ EndPrune \/ NextDay

\* POST /rooms/{id}/retention-preview: the attachments a change to n days
\* would affect.
Preview(r, n) == IF n = 0 THEN {} ELSE OlderThan(r, n)

\* The job deletes no attachment its three tiers still keep, as they were
\* when the job read the limit, unless the same content was stored anew
\* between the job's SELECT and its DELETE; and asked about the retention now
\* in force, the preview names exactly the attachments that are due.
RetentionKept ==
  /\ early \subseteq restored
  /\ \A r \in Spaces : override[r] # NotMade =>
       Preview(r, Effective(override[r], GetLimit, HardMax))
         = {f \in Pictures : born[f] # Gone /\ born[f].room = r /\ DueBy(f, GetLimit)}

\* Violated: an attachment stored anew is as safe as any other.
NothingEarly == early = {}
=============================================================================
