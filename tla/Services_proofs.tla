-------------------------- MODULE Services_proofs --------------------------
(***************************************************************************)
(* Theorems about the services beside the rooms -- rate limits, retention, *)
(* push, model hosting, the extension proxy, backups -- and about the      *)
(* attachments and reactions of a room, for any constants.  The services   *)
(* share no state: each theorem is about the behaviours of one of them.    *)
(***************************************************************************)
EXTENDS RoomContent, Push, ModelFiles, RateLimit, ExtensionProxy, Backup, RetentionDays,
        NatLemmas, FiniteSetTheorems, SequenceTheorems

(***************************************************************************)
(* RateLimit.                                                              *)
(***************************************************************************)

QuotasSpec == QuotasInit /\ [][QuotasNext]_quotas

\* Days are runs of DayHours hours: a day's first hour is in that day.
LEMMA DayStarts ==
  ASSUME NEW h \in Nat
  PROVE  /\ DayOf(h) \in Nat
         /\ DayOf(h) * DayHours \in 0 .. h
         /\ DayOf(DayOf(h) * DayHours) = DayOf(h)
  <1>1. \A n \in Nat, d \in Nat :
          d > 0 => n \div d \in Nat /\ (n \div d) * d \in Nat /\ (n \div d) * d <= n
    OBVIOUS
  <1>2. \A q \in Nat, d \in Nat : d > 0 => (q * d) \div d = q
    OBVIOUS
  <1>3. DayHours \in Nat /\ DayHours > 0
    BY RateLimitAssumption
  <1>4. DayOf(h) \in Nat /\ DayOf(h) * DayHours \in Nat /\ DayOf(h) * DayHours <= h
    BY <1>1, <1>3 DEF DayOf
  <1>5. DayOf(DayOf(h) * DayHours) = DayOf(h)
    BY <1>2, <1>3, <1>4 DEF DayOf
  <1> QED BY <1>4, <1>5

\* The window that is open now is one of the table, and of today.
LEMMA WindowIsOpen ==
  ASSUME NEW k \in Buckets, NEW h \in Hours
  PROVE  WindowStart(k, h) \in Hours /\ DayOf(WindowStart(k, h)) = DayOf(h) /\ DayOf(h) \in Nat
  <1>1. h \in Nat /\ LastHour \in Nat /\ h <= LastHour
    BY RateLimitAssumption DEF Hours
  <1>2. /\ DayOf(h) \in Nat /\ DayOf(h) * DayHours \in 0 .. h
        /\ DayOf(DayOf(h) * DayHours) = DayOf(h)
    BY <1>1, DayStarts
  <1>3. DayOf(h) * DayHours \in Hours
    BY <1>1, <1>2 DEF Hours
  <1> QED BY <1>2, <1>3 DEF WindowStart

\* The row of the open window counts at least the requests let through in it.
QuotasInv ==
  /\ hour \in Hours
  /\ counted \in [Buckets -> [Hours -> Nat]]
  /\ allowed \in [Buckets -> Nat]
  /\ \A k \in Buckets : allowed[k] <= Quota /\ allowed[k] <= counted[k][WindowStart(k, hour)]

\* Every step keeps that; the cleanup job spares every window of today.
LEMMA QuotasStep == QuotasInv /\ [QuotasNext]_quotas => QuotasInv'
  <1> SUFFICES ASSUME QuotasInv, [QuotasNext]_quotas PROVE QuotasInv'
    OBVIOUS
  <1> USE DEF QuotasInv
  <1>0. /\ Quota \in Nat /\ LastHour \in Nat
        /\ \A k \in Buckets : WindowStart(k, hour) \in Hours
    BY RateLimitAssumption, WindowIsOpen
  <1>1. ASSUME NEW k \in Buckets, Check(k) PROVE QuotasInv'
    <2> DEFINE w == WindowStart(k, hour)
               n == counted[k][w] + 1
    <2>1. /\ w \in Hours /\ n \in Nat /\ hour' = hour
          /\ counted' = [counted EXCEPT ![k][w] = n]
          /\ allowed' = IF n <= Quota THEN [allowed EXCEPT ![k] = @ + 1] ELSE allowed
      BY <1>0, <1>1 DEF Check, Row
    <2> HIDE DEF w
    <2>2. counted' \in [Buckets -> [Hours -> Nat]] /\ allowed' \in [Buckets -> Nat]
      BY <2>1
    <2>3. ASSUME NEW l \in Buckets
          PROVE  allowed'[l] <= Quota /\ allowed'[l] <= counted'[l][WindowStart(l, hour)]
      <3>1. CASE l = k
        <4>1. counted'[k][w] = n /\ counted[k][w] \in Nat /\ allowed[k] \in Nat
          BY <2>1
        <4>2. allowed[k] <= Quota /\ allowed[k] <= counted[k][w]
          BY DEF w
        <4>3. allowed'[k] = IF n <= Quota THEN allowed[k] + 1 ELSE allowed[k]
          BY <2>1
        <4>4. allowed'[k] <= Quota /\ allowed'[k] <= counted'[k][w]
          BY <4>1, <4>2, <4>3, <1>0
        <4> QED BY <3>1, <4>4 DEF w
      <3>2. CASE l # k
        <4>1. counted'[l] = counted[l] /\ allowed'[l] = allowed[l]
          BY <2>1, <3>2
        <4> QED BY <4>1
      <3> QED BY <3>1, <3>2
    <2> QED BY <2>1, <2>2, <2>3
  <1>2. CASE Cleanup
    <2>1. /\ counted' = [k \in Buckets |-> [w \in Hours |->
               IF DayOf(w) + 1 < DayOf(hour) THEN 0 ELSE counted[k][w]]]
          /\ hour' = hour /\ allowed' = allowed
      BY <1>2 DEF Cleanup
    <2>2. counted' \in [Buckets -> [Hours -> Nat]]
      BY <2>1
    <2>3. ASSUME NEW k \in Buckets
          PROVE  counted'[k][WindowStart(k, hour)] = counted[k][WindowStart(k, hour)]
      <3>1. DayOf(WindowStart(k, hour)) = DayOf(hour) /\ DayOf(hour) \in Nat
        BY WindowIsOpen
      <3>2. ~ DayOf(WindowStart(k, hour)) + 1 < DayOf(hour)
        BY <3>1
      <3> QED BY <1>0, <2>1, <3>2
    <2> QED BY <2>1, <2>2, <2>3
  <1>3. CASE Tick
    <2>1. hour' \in Hours /\ counted' = counted
      BY <1>0, <1>3 DEF Tick, Hours
    <2>2. allowed' \in [Buckets -> Nat]
      BY <1>3 DEF Tick
    <2>3. ASSUME NEW k \in Buckets
          PROVE  allowed'[k] <= Quota /\ allowed'[k] <= counted[k][WindowStart(k, hour')]
      <3>1. WindowStart(k, hour') \in Hours
        BY <2>1, WindowIsOpen
      <3>2. counted[k][WindowStart(k, hour')] \in Nat
        BY <3>1
      <3>3. allowed'[k] = IF WindowStart(k, hour') = WindowStart(k, hour) THEN allowed[k] ELSE 0
        BY <1>3 DEF Tick
      <3> QED BY <1>0, <3>2, <3>3
    <2> QED BY <2>1, <2>2, <2>3 DEF WindowStart, DayOf
  <1>4. CASE UNCHANGED quotas
    BY <1>4 DEF quotas, WindowStart, DayOf
  <1> QED BY <1>1, <1>2, <1>3, <1>4 DEF QuotasNext

\* Nothing is counted at the start.
LEMMA QuotasStart == QuotasInit => QuotasInv
  <1> SUFFICES ASSUME QuotasInit PROVE QuotasInv
    OBVIOUS
  <1>1. hour = 0 /\ 0 \in Hours /\ Quota \in Nat
    BY RateLimitAssumption DEF QuotasInit, Hours
  <1>2. \A k \in Buckets : WindowStart(k, 0) \in Hours
    BY <1>1, WindowIsOpen
  <1> QED BY <1>1, <1>2 DEF QuotasInit, QuotasInv

\* No key is let through more often than its quota in a window, whenever the
\* cleanup job runs (rate_limits.rs: check_and_increment and the cleanup).
THEOREM QuotaIsKept == QuotasSpec => []QuotaHolds
  <1>1. QuotasInv => QuotaHolds
    BY DEF QuotasInv, QuotaHolds
  <1> QED BY QuotasStart, <1>1, QuotasStep, PTL DEF QuotasSpec

\* Every step keeps the types of the counters.
LEMMA QuotasTypeStep == QuotasTypeOK /\ [QuotasNext]_quotas => QuotasTypeOK'
  <1> SUFFICES ASSUME QuotasTypeOK, [QuotasNext]_quotas PROVE QuotasTypeOK'
    OBVIOUS
  <1> USE DEF QuotasTypeOK
  <1>0. /\ LastHour \in Nat /\ MaxCount \in Nat /\ hour \in Nat /\ Hours = 0 .. LastHour
        /\ \A k \in Buckets : WindowStart(k, hour) \in Hours
    BY RateLimitAssumption, WindowIsOpen DEF Hours
  <1>1. ASSUME NEW k \in Buckets, Check(k) PROVE QuotasTypeOK'
    <2> DEFINE w == WindowStart(k, hour)
               n == counted[k][w] + 1
    <2>1. /\ w \in Hours /\ n <= MaxCount /\ hour' = hour
          /\ counted' = [counted EXCEPT ![k][w] = n]
          /\ allowed' = IF n <= Quota THEN [allowed EXCEPT ![k] = @ + 1] ELSE allowed
      BY <1>0, <1>1 DEF Check, Row
    <2>2. n \in 0 .. MaxCount
      BY <1>0, <2>1, SMTT(40)
    <2> HIDE DEF n, w
    <2>3. counted' \in [Buckets -> [Hours -> 0 .. MaxCount]]
      BY <2>1, <2>2
    <2>4. allowed' \in [Buckets -> Nat]
      BY <2>1
    <2> QED BY <2>1, <2>3, <2>4
  <1>2. CASE Cleanup
    <2>1. 0 \in 0 .. MaxCount
      BY <1>0
    <2>2. counted' \in [Buckets -> [Hours -> 0 .. MaxCount]]
      BY <1>2, <2>1 DEF Cleanup
    <2> QED BY <1>2, <2>2 DEF Cleanup
  <1>3. CASE Tick
    <2>1. hour' \in Hours
      BY <1>0, <1>3 DEF Tick
    <2>2. allowed' \in [Buckets -> Nat]
      BY <1>3 DEF Tick
    <2> QED BY <1>3, <2>1, <2>2 DEF Tick
  <1>4. CASE UNCHANGED quotas
    BY <1>4 DEF quotas
  <1> QED BY <1>1, <1>2, <1>3, <1>4 DEF QuotasNext

\* The types of the rate limits (rate_limits.rs): no request is counted in a
\* window that is not one of the clock's.
THEOREM QuotasTyped == QuotasSpec => []QuotasTypeOK
  <1>1. QuotasInit => QuotasTypeOK
    BY RateLimitAssumption DEF QuotasInit, QuotasTypeOK, Hours
  <1> QED BY <1>1, QuotasTypeStep, PTL DEF QuotasSpec

(***************************************************************************)
(* RetentionDays.                                                          *)
(***************************************************************************)

DaysSpec == DaysInit /\ [][DaysNext]_days

\* What the three tiers mean, of an attachment of a given day.
TiersPass(own, limit, day, now) ==
  LET tiers == {limit, HardMax} \cup IF own = Unset THEN {} ELSE {own}
  IN 0 \notin tiers /\ \E n \in tiers : day + n < now

\* Effective puts the three tiers into one number of days: 0 when one of them
\* says "for ever", and otherwise the one that passes first.
LEMMA EffectiveMeans ==
  ASSUME NEW own \in Nat \cup {Unset}, NEW limit \in Nat, NEW day \in Nat, NEW now \in Nat
  PROVE  LET n == Effective(own, limit, HardMax)
         IN  n \in Nat /\ (TiersPass(own, limit, day, now) <=> n # 0 /\ day < now - n)
  <1>1. HardMax \in Nat
    BY DaysAssumption
  <1>2. CASE own = Unset
    BY <1>1, <1>2 DEF Effective, TiersPass, Unset, Least
  <1>3. CASE own \in Nat
    <2>1. own # Unset
      BY <1>3 DEF Unset
    <2> DEFINE n == Effective(own, limit, HardMax)
    <2>2. CASE own = 0 \/ limit = 0 \/ HardMax = 0
      <3>1. n = 0
        BY <1>1, <1>3, <2>2 DEF Effective, Least
      <3>2. ~ TiersPass(own, limit, day, now)
        BY <2>1, <2>2 DEF TiersPass
      <3> QED BY <3>1, <3>2
    <2>3. CASE own # 0 /\ limit # 0 /\ HardMax # 0
      <3>1. /\ n \in Nat /\ n # 0 /\ n \in {own, limit, HardMax}
            /\ n <= own /\ n <= limit /\ n <= HardMax
        BY <1>1, <1>3, <2>3 DEF Effective, Least
      <3>2. TiersPass(own, limit, day, now)
              <=> day + own < now \/ day + limit < now \/ day + HardMax < now
        BY <2>1, <2>3 DEF TiersPass
      <3> HIDE DEF n
      <3>3. day + n < now <=> day + own < now \/ day + limit < now \/ day + HardMax < now
        BY <1>1, <1>3, <3>1
      <3>4. day + n < now <=> day < now - n
        BY <3>1
      <3> QED BY <3>1, <3>2, <3>3, <3>4 DEF n
    <2> QED BY <2>2, <2>3
  <1> QED BY <1>2, <1>3

\* What the job is about to delete is gone already, due under the limit it
\* read, or was stored anew.
DueOwed ==
  \A f \in prune.due : f \in restored \/ born[f] = Gone \/ DueBy(f, prune.limit)

\* So what it deletes is due; and an attachment's room exists.
DaysInv ==
  /\ today \in Nat
  /\ instance \in 0 .. HardMax \cup {Unset}
  /\ override \in [Spaces -> Nat \cup {Unset, NotMade}]
  /\ born \in [Pictures -> [room : Spaces, day : Nat] \cup {Gone}]
  /\ prune \in [at : {"idle", "scan", "select", "drop"}, limit : Nat,
                rooms : SUBSET Spaces, due : SUBSET Pictures]
  /\ \A f \in Pictures : born[f] # Gone => override[born[f].room] # NotMade
  /\ DueOwed
  /\ early \subseteq restored

\* The limit of the instance is a number of days.
LEMMA LimitIsNat == instance \in 0 .. HardMax \cup {Unset} => GetLimit \in Nat
  BY DaysAssumption DEF GetLimit, Unset, Least, DefaultDays

\* Being due is being past the effective number of days.
LEMMA DueIsOlder ==
  ASSUME DaysInv, NEW r \in Spaces, override[r] # NotMade, NEW limit \in Nat,
         NEW f \in Pictures, born[f] # Gone, born[f].room = r
  PROVE  LET n == Effective(override[r], limit, HardMax)
         IN  n \in Nat /\ (DueBy(f, limit) <=> n # 0 /\ f \in OlderThan(r, n))
  <1>1. override[r] \in Nat \cup {Unset} /\ born[f].day \in Nat /\ today \in Nat
    BY DEF DaysInv
  <1>2. DueBy(f, limit) <=> TiersPass(override[r], limit, born[f].day, today)
    BY DEF DueBy, TiersPass
  <1>3. \A n : f \in OlderThan(r, n) <=> born[f].day < today - n
    BY DEF OlderThan
  <1> QED BY <1>1, <1>2, <1>3, EffectiveMeans

\* The preview of the retention in force names what is due.
LEMMA PreviewTrue ==
  ASSUME DaysInv, NEW r \in Spaces, override[r] # NotMade
  PROVE  Preview(r, Effective(override[r], GetLimit, HardMax))
           = {f \in Pictures : born[f] # Gone /\ born[f].room = r /\ DueBy(f, GetLimit)}
  <1> DEFINE n == Effective(override[r], GetLimit, HardMax)
  <1>1. GetLimit \in Nat
    BY LimitIsNat DEF DaysInv
  <1>2. \A f \in Pictures : born[f] # Gone /\ born[f].room = r =>
          n \in Nat /\ (DueBy(f, GetLimit) <=> n # 0 /\ f \in OlderThan(r, n))
    BY <1>1, DueIsOlder
  <1>3. OlderThan(r, n) \subseteq {f \in Pictures : born[f] # Gone /\ born[f].room = r}
    BY DEF OlderThan
  <1> HIDE DEF n
  <1>4. Preview(r, n) = {f \in Pictures : born[f] # Gone /\ born[f].room = r /\ DueBy(f, GetLimit)}
    BY <1>2, <1>3 DEF Preview
  <1> QED BY <1>4 DEF n

\* What is due stays due, as the days pass and requests run.
LEMMA DueStays ==
  ASSUME DaysInv, NEW limit \in Nat, NEW f \in Pictures, born[f] # Gone, DueBy(f, limit),
         born'[f] = born[f], override'[born[f].room] = override[born[f].room],
         today' \in Nat, today <= today'
  PROVE  DueBy(f, limit)'
  <1>1. /\ override[born[f].room] \in Nat \cup {Unset} /\ born[f].day \in Nat /\ today \in Nat
        /\ HardMax \in Nat
    BY DaysAssumption DEF DaysInv
  <1>2. TiersPass(override[born[f].room], limit, born[f].day, today)
    BY DEF DueBy, TiersPass
  <1>3. \A own \in Nat \cup {Unset}, day \in Nat :
          TiersPass(own, limit, day, today) => TiersPass(own, limit, day, today')
    <2> SUFFICES ASSUME NEW own \in Nat \cup {Unset}, NEW day \in Nat,
                        TiersPass(own, limit, day, today)
                 PROVE  TiersPass(own, limit, day, today')
      OBVIOUS
    <2> DEFINE tiers == {limit, HardMax} \cup IF own = Unset THEN {} ELSE {own}
    <2>1. PICK n \in tiers : day + n < today
      BY DEF TiersPass
    <2>2. n \in Nat
      BY <1>1
    <2>3. day + n < today'
      BY <1>1, <2>1, <2>2
    <2> QED BY <2>3 DEF TiersPass
  <1>4. TiersPass(override[born[f].room], limit, born[f].day, today')
    BY <1>1, <1>2, <1>3
  <1> QED BY <1>4 DEF DueBy, TiersPass

\* Every step keeps that, what it lets go and what day it is included.
LEMMA DaysStep == DaysInv /\ [DaysNext]_days => DaysInv'
  <1> SUFFICES ASSUME DaysInv, [DaysNext]_days PROVE DaysInv'
    OBVIOUS
  <1>0. /\ today \in Nat /\ HardMax \in Nat /\ prune.limit \in Nat
        /\ prune.due \in SUBSET Pictures
        /\ \A f \in prune.due : f \in restored \/ born[f] = Gone \/ DueBy(f, prune.limit)
    BY DaysAssumption DEF DaysInv, DueOwed
  <1>a. ASSUME prune' = prune, restored \subseteq restored', today' \in Nat, today <= today',
               \A f \in Pictures : \/ born'[f] = born[f]
                                   \/ born'[f] = Gone
                                   \/ f \in prune.due => f \in restored',
               \A f \in Pictures : born[f] # Gone =>
                  override'[born[f].room] = override[born[f].room]
        PROVE  DueOwed'
    <2> SUFFICES ASSUME NEW f \in prune'.due, f \notin restored', born'[f] # Gone
                 PROVE  DueBy(f, prune.limit)'
      BY DEF DueOwed
    <2>1. born'[f] = born[f] /\ born[f] # Gone /\ DueBy(f, prune.limit) /\ f \in Pictures
      BY <1>0, <1>a
    <2> QED BY <1>0, <1>a, <2>1, DueStays
  <1>b. ASSUME UNCHANGED <<today, instance, override, born, restored, early>>,
               prune' \in [at : {"idle", "scan", "select", "drop"}, limit : Nat,
                           rooms : SUBSET Spaces, due : SUBSET Pictures],
               \A f \in prune'.due : f \in restored \/ born[f] = Gone \/ DueBy(f, prune'.limit)
        PROVE  DaysInv'
    BY <1>b DEF DaysInv, DueOwed, DueBy
  <1>1. ASSUME NEW r \in Spaces, NEW n \in Askable \cup {Unset}, CreateRoom(r, n) PROVE DaysInv'
    <2>1. \A f \in Pictures : born[f] # Gone =>
            override'[born[f].room] = override[born[f].room]
      BY <1>1 DEF CreateRoom, DaysInv
    <2>2. (IF n = Unset THEN Unset ELSE Clamp(Clamp(n, GetLimit), HardMax)) \in Nat \cup {Unset}
      <3>1. GetLimit \in Nat
        BY LimitIsNat DEF DaysInv
      <3> QED BY <1>0, <3>1 DEF Clamp, Least, Askable, Unset
    <2>3. override' \in [Spaces -> Nat \cup {Unset, NotMade}]
      BY <1>1, <2>2 DEF CreateRoom, DaysInv
    <2>4. DueOwed'
      BY <1>0, <1>1, <1>a, <2>1 DEF CreateRoom
    <2> QED BY <1>1, <2>1, <2>3, <2>4 DEF CreateRoom, DaysInv
  <1>2. ASSUME NEW n \in Askable, SetLimit(n) PROVE DaysInv'
    <2>1. n \in 0 .. HardMax
      BY <1>0, <1>2 DEF SetLimit, Askable
    <2>2. DueOwed'
      BY <1>0, <1>2, <1>a DEF SetLimit
    <2> QED BY <1>2, <2>1, <2>2 DEF SetLimit, DaysInv
  <1>3. ASSUME NEW f \in Pictures, NEW r \in Spaces, Attach(f, r) PROVE DaysInv'
    <2>1. \A g \in Pictures : born'[g] = born[g] \/ (g \in prune.due => g \in restored')
      BY <1>3 DEF Attach, DaysInv
    <2>2. restored \subseteq restored'
      BY <1>3 DEF Attach
    <2>3. DueOwed'
      BY <1>0, <1>3, <1>a, <2>1, <2>2 DEF Attach
    <2>4. born' \in [Pictures -> [room : Spaces, day : Nat] \cup {Gone}]
      BY <1>0, <1>3 DEF Attach, DaysInv
    <2>5. \A g \in Pictures : born'[g] # Gone => override[born'[g].room] # NotMade
      BY <1>3 DEF Attach, DaysInv
    <2> QED BY <1>3, <2>2, <2>3, <2>4, <2>5 DEF Attach, DaysInv
  <1>4. ASSUME NEW f \in Pictures, DeleteAttachment(f) PROVE DaysInv'
    <2>1. \A g \in Pictures : born'[g] = born[g] \/ born'[g] = Gone
      BY <1>4 DEF DeleteAttachment, DaysInv
    <2>2. DueOwed'
      BY <1>0, <1>4, <1>a, <2>1 DEF DeleteAttachment
    <2> QED BY <1>4, <2>1, <2>2 DEF DeleteAttachment, DaysInv
  <1>5. CASE StartPrune
    <2>1. GetLimit \in Nat
      BY LimitIsNat DEF DaysInv
    <2>2. prune' = [at |-> "scan", limit |-> GetLimit, rooms |-> {}, due |-> {}]
      BY <1>5 DEF StartPrune, Asleep
    <2>3. prune' \in [at : {"idle", "scan", "select", "drop"}, limit : Nat,
                      rooms : SUBSET Spaces, due : SUBSET Pictures]
          /\ prune'.due = {}
      BY <2>1, <2>2
    <2> QED BY <1>5, <1>b, <2>3 DEF StartPrune
  <1>6. CASE ScanRooms
    <2>1. prune' \in [at : {"idle", "scan", "select", "drop"}, limit : Nat,
                      rooms : SUBSET Spaces, due : SUBSET Pictures]
          /\ prune'.due = prune.due /\ prune'.limit = prune.limit
      BY <1>6 DEF ScanRooms, DaysInv
    <2> QED BY <1>0, <1>6, <1>b, <2>1 DEF ScanRooms
  <1>7. ASSUME NEW r \in Spaces, SelectDue(r) PROVE DaysInv'
    <2> DEFINE n == Effective(override[r], prune.limit, HardMax)
    <2>1. CASE n = 0
      <3>1. prune' = [prune EXCEPT !.rooms = @ \ {r}]
        BY <1>7, <2>1 DEF SelectDue
      <3>2. prune' \in [at : {"idle", "scan", "select", "drop"}, limit : Nat,
                        rooms : SUBSET Spaces, due : SUBSET Pictures]
            /\ prune'.due = prune.due /\ prune'.limit = prune.limit
        BY <3>1 DEF DaysInv
      <3> QED BY <1>0, <1>7, <1>b, <3>2 DEF SelectDue
    <2>2. CASE n # 0
      <3>1. prune' = [prune EXCEPT !.at = "drop", !.rooms = @ \ {r}, !.due = OlderThan(r, n)]
        BY <1>7, <2>2 DEF SelectDue
      <3>2. prune' \in [at : {"idle", "scan", "select", "drop"}, limit : Nat,
                        rooms : SUBSET Spaces, due : SUBSET Pictures]
            /\ prune'.due = OlderThan(r, n) /\ prune'.limit = prune.limit
        <4>1. OlderThan(r, n) \in SUBSET Pictures
          BY DEF OlderThan
        <4> HIDE DEF n
        <4> QED BY <3>1, <4>1 DEF DaysInv
      <3>3. ASSUME NEW f \in OlderThan(r, n) PROVE DueBy(f, prune.limit)
        <4>1. f \in Pictures /\ born[f] # Gone /\ born[f].room = r
          BY DEF OlderThan
        <4>2. override[r] # NotMade
          BY <4>1 DEF DaysInv
        <4> QED BY <1>0, <2>2, <4>1, <4>2, DueIsOlder
      <3> HIDE DEF n
      <3> QED BY <1>7, <1>b, <3>2, <3>3 DEF SelectDue
    <2> QED BY <2>1, <2>2
  <1>8. CASE DropDue
    <2>1. early' \subseteq restored
      BY <1>0, <1>8 DEF DropDue, DaysInv
    <2>2. born' \in [Pictures -> [room : Spaces, day : Nat] \cup {Gone}]
          /\ \A f \in Pictures : born'[f] # Gone => born'[f] = born[f]
      BY <1>8 DEF DropDue, DaysInv
    <2>3. prune' \in [at : {"idle", "scan", "select", "drop"}, limit : Nat,
                      rooms : SUBSET Spaces, due : SUBSET Pictures]
          /\ prune'.due = {}
      BY <1>8 DEF DropDue, DaysInv
    <2> QED BY <1>8, <2>1, <2>2, <2>3 DEF DropDue, DaysInv, DueOwed
  <1>9. CASE EndPrune
    <2>1. prune' = Asleep
      BY <1>9 DEF EndPrune
    <2> QED BY <1>9, <2>1, <1>b DEF EndPrune, Asleep
  <1>10. CASE NextDay
    <2>1. today' \in Nat /\ today <= today'
      BY <1>0, <1>10 DEF NextDay
    <2>2. DueOwed'
      BY <1>10, <1>a, <2>1 DEF NextDay
    <2> QED BY <1>10, <2>1, <2>2 DEF NextDay, DaysInv
  <1>11. CASE UNCHANGED days
    BY <1>11, <1>b, <1>0 DEF days, DaysInv
  <1> QED BY <1>1, <1>2, <1>3, <1>4, <1>5, <1>6, <1>7, <1>8, <1>9, <1>10, <1>11 DEF DaysNext

\* There is no room and no attachment at the start.
LEMMA DaysStart == DaysInit => DaysInv
  BY DEF DaysInit, DaysInv, DueOwed, Asleep, Unset, NotMade

\* The cleanup job deletes no attachment its three tiers still keep, but one
\* stored anew between its SELECT and its DELETE, and the preview names exactly
\* the attachments that are due (retention: cleanup_expired, effective days,
\* retention-preview).
THEOREM RetentionIsKept == DaysSpec => []RetentionKept
  <1>1. DaysInv => RetentionKept
    BY PreviewTrue DEF DaysInv, RetentionKept
  <1> QED BY DaysStart, <1>1, DaysStep, PTL DEF DaysSpec

\* Every step keeps the types of the retention.
LEMMA DaysTypeStep == DaysTypeOK /\ [DaysNext]_days => DaysTypeOK'
  <1> SUFFICES ASSUME DaysTypeOK, [DaysNext]_days PROVE DaysTypeOK'
    OBVIOUS
  <1> DEFINE Prunings == [at : {"idle", "scan", "select", "drop"}, limit : 0 .. HardMax,
                          rooms : SUBSET Spaces, due : SUBSET Pictures]
  <1> USE DEF DaysTypeOK
  <1>0. /\ HardMax \in Nat /\ LastDay \in Nat /\ today \in 0 .. LastDay
        /\ prune \in Prunings /\ Asleep \in Prunings
    BY DaysAssumption DEF Asleep
  <1>1. GetLimit \in 0 .. HardMax
    BY <1>0 DEF GetLimit, Least, DefaultDays, Unset
  <1>a. ASSUME NEW job \in Prunings, prune' = job,
               UNCHANGED <<today, instance, override, born, restored, early>>
        PROVE  DaysTypeOK'
    BY <1>a
  <1>2. ASSUME NEW r \in Spaces, NEW n \in Askable \cup {Unset}, CreateRoom(r, n) PROVE DaysTypeOK'
    <2> DEFINE v == IF n = Unset THEN Unset ELSE Clamp(Clamp(n, GetLimit), HardMax)
    <2>1. v \in 0 .. HardMax + 1 \cup {Unset, NotMade}
      <3>1. CASE n = Unset
        BY <3>1
      <3>2. CASE n # Unset
        <4>1. n \in 0 .. HardMax + 1
          BY <3>2 DEF Askable
        <4>2. Clamp(n, GetLimit) \in 0 .. HardMax + 1
          BY <1>0, <1>1, <4>1 DEF Clamp, Least
        <4>3. Clamp(Clamp(n, GetLimit), HardMax) \in 0 .. HardMax + 1
          BY <1>0, <4>2 DEF Clamp, Least
        <4> QED BY <3>2, <4>3
      <3> QED BY <3>1, <3>2
    <2>2. override' = [override EXCEPT ![r] = v] /\ UNCHANGED <<today, instance, born, prune, restored, early>>
      BY <1>2 DEF CreateRoom
    <2> HIDE DEF v
    <2> QED BY <2>1, <2>2
  <1>3. ASSUME NEW n \in Askable, SetLimit(n) PROVE DaysTypeOK'
    <2>1. n \in 0 .. HardMax
      BY <1>0, <1>3 DEF SetLimit, Askable
    <2> QED BY <1>3, <2>1 DEF SetLimit
  <1>4. ASSUME NEW f \in Pictures, NEW r \in Spaces, Attach(f, r) PROVE DaysTypeOK'
    BY <1>0, <1>4 DEF Attach
  <1>5. ASSUME NEW f \in Pictures, DeleteAttachment(f) PROVE DaysTypeOK'
    BY <1>5 DEF DeleteAttachment
  <1>6. CASE StartPrune
    <2>1. [Asleep EXCEPT !.at = "scan", !.limit = GetLimit] \in Prunings
      BY <1>1 DEF Asleep
    <2> QED BY <1>a, <1>6, <2>1 DEF StartPrune
  <1>7. CASE ScanRooms
    <2> DEFINE there == {r \in Spaces : \E f \in Pictures : born[f].room = r}
    <2>1. [prune EXCEPT !.at = "select", !.rooms = there] \in Prunings
      BY <1>0
    <2> QED BY <1>a, <1>7, <2>1 DEF ScanRooms
  <1>8. ASSUME NEW r \in Spaces, SelectDue(r) PROVE DaysTypeOK'
    <2> DEFINE n == Effective(override[r], prune.limit, HardMax)
    <2>1. [prune EXCEPT !.rooms = @ \ {r}] \in Prunings
      BY <1>0
    <2>2. OlderThan(r, n) \in SUBSET Pictures
      BY DEF OlderThan
    <2>3. [prune EXCEPT !.at = "drop", !.rooms = @ \ {r}, !.due = OlderThan(r, n)] \in Prunings
      <3> HIDE DEF n
      <3> QED BY <1>0, <2>2
    <2>4. \/ prune' = [prune EXCEPT !.rooms = @ \ {r}]
          \/ prune' = [prune EXCEPT !.at = "drop", !.rooms = @ \ {r}, !.due = OlderThan(r, n)]
      BY <1>8 DEF SelectDue
    <2>5. UNCHANGED <<today, instance, override, born, restored, early>>
      BY <1>8 DEF SelectDue
    <2> HIDE DEF n, Prunings
    <2> QED BY <1>a, <2>1, <2>3, <2>4, <2>5
  <1>9. CASE DropDue
    <2>1. [prune EXCEPT !.at = "select", !.due = {}] \in Prunings
      BY <1>0
    <2>2. early' \subseteq Pictures
      <3>1. prune.due \subseteq Pictures
        BY <1>0
      <3> QED BY <1>9, <3>1 DEF DropDue
    <2>3. born' \in [Pictures -> [room : Spaces, day : 0 .. LastDay] \cup {Gone}]
      BY <1>9 DEF DropDue
    <2> QED BY <1>9, <2>1, <2>2, <2>3 DEF DropDue
  <1>10. CASE EndPrune
    BY <1>0, <1>a, <1>10 DEF EndPrune
  <1>11. CASE NextDay
    BY <1>0, <1>11 DEF NextDay
  <1>12. CASE UNCHANGED days
    BY <1>12 DEF days
  <1> QED BY <1>2, <1>3, <1>4, <1>5, <1>6, <1>7, <1>8, <1>9, <1>10, <1>11, <1>12 DEF DaysNext

\* The types of the retention: neither the limit of the instance nor what the
\* job read of it is above the hard maximum (limits.rs, retention.rs).
THEOREM DaysTyped == DaysSpec => []DaysTypeOK
  <1>1. DaysInit => DaysTypeOK
    BY DaysAssumption DEF DaysInit, DaysTypeOK, Asleep, Unset, NotMade
  <1> QED BY <1>1, DaysTypeStep, PTL DEF DaysSpec

(***************************************************************************)
(* ModelFiles.                                                             *)
(***************************************************************************)

ModelsSpec == ModelsInit /\ [][ModelsNext]_models

\* What a file of an unchanged name is asked to hold is the one hash every
\* manifest had for it.
Expects(r, f) == r.tag = manifest[f] /\ (r.at \in {"get", "rename"} => r.want = manifest[f])

\* Of a name whose hash never changed, the loaded manifest, the disk, the
\* requests and the fetch command all have the hash of the manifest.
ModelsInv ==
  /\ manifest \in [FileKeys -> Hashes] /\ loaded \in [FileKeys -> Hashes]
  /\ hosted \in [FileKeys -> Hashes \cup {"none"}]
  /\ reqs \in [Requests -> Reqs] /\ fetch \in Reqs
  /\ \A f \in FileKeys \ changed :
       /\ loaded[f] = manifest[f]
       /\ hosted[f] \in {"none", manifest[f]}
       /\ \A q \in Requests : reqs[q] # NoReq /\ reqs[q].file = f => Expects(reqs[q], f)
       /\ fetch # NoReq /\ fetch.file = f => fetch.want = manifest[f]
  /\ \A r \in sent : r[1] \in FileKeys
  /\ TagNamesContent

\* Every step keeps that.
LEMMA ModelsStep == ModelsInv /\ [ModelsNext]_models => ModelsInv'
  <1> SUFFICES ASSUME ModelsInv, [ModelsNext]_models PROVE ModelsInv'
    OBVIOUS
  <1> USE DEF ModelsInv
  <1>0. /\ \A m \in Manifests : m \in [FileKeys -> Hashes]
        /\ \A r \in Reqs : r # NoReq => r.file \in FileKeys /\ r.tag \in Hashes
              /\ r.want \in Hashes \cup {"none"} /\ r.at \in {"ensure", "get", "rename", "open"}
        /\ NoReq.at = "free" /\ NoReq \in Reqs
    BY ModelFilesAssumption DEF FileKeys, Reqs, NoReq
  <1>a. ASSUME NEW q \in Requests, NEW r \in Reqs, reqs' = [reqs EXCEPT ![q] = r],
               r # NoReq => r.file \in changed \/ Expects(r, r.file),
               UNCHANGED <<manifest, loaded, hosted, fetch, sent, changed>>
        PROVE  ModelsInv'
    BY <1>a, <1>0 DEF Expects, TagNamesContent
  <1>1. ASSUME NEW q \in Requests, NEW f \in FileKeys, Request(q, f) PROVE ModelsInv'
    <2> DEFINE r == [at |-> "ensure", file |-> f, tag |-> loaded[f], want |-> "none"]
    <2>1. r \in Reqs /\ r.file = f /\ (f \in changed \/ Expects(r, f))
      BY DEF Reqs, Expects
    <2>2. reqs' = [reqs EXCEPT ![q] = r] /\ UNCHANGED <<manifest, loaded, hosted, fetch, sent, changed>>
      BY <1>1 DEF Request, Find
    <2> HIDE DEF r
    <2> QED BY <1>a, <2>1, <2>2
  <1>2. ASSUME NEW q \in Requests, Ensure(q) PROVE ModelsInv'
    <2> DEFINE f == reqs[q].file
               o == [reqs[q] EXCEPT !.at = "open"]
               g == [reqs[q] EXCEPT !.at = "get", !.want = loaded[f]]
    <2>1. reqs[q] \in Reqs /\ reqs[q] # NoReq /\ f \in FileKeys
      BY <1>0, <1>2 DEF Ensure
    <2>2. o \in Reqs /\ o.file = f /\ (f \in changed \/ Expects(o, f))
      BY <2>1 DEF Reqs, Expects
    <2>3. g \in Reqs /\ g.file = f /\ (f \in changed \/ Expects(g, f))
      BY <2>1 DEF Reqs, Expects
    <2>4. /\ \E r \in {o, g, NoReq} : reqs' = [reqs EXCEPT ![q] = r]
          /\ UNCHANGED <<manifest, loaded, hosted, fetch, sent, changed>>
      BY <1>2 DEF Ensure, Find
    <2> HIDE DEF o, g
    <2> QED BY <1>0, <1>a, <2>2, <2>3, <2>4, ZenonT(90)
  <1>3. ASSUME NEW q \in Requests, Download(q) PROVE ModelsInv'
    <2> DEFINE f == reqs[q].file
               r == [reqs[q] EXCEPT !.at = "rename"]
    <2>1. reqs[q] \in Reqs /\ reqs[q] # NoReq /\ f \in FileKeys /\ reqs[q].at = "get"
      BY <1>0, <1>3 DEF Download
    <2>2. r \in Reqs /\ r.file = f /\ (f \in changed \/ Expects(r, f))
      BY <2>1 DEF Reqs, Expects
    <2>3. /\ \E s \in {r, NoReq} : reqs' = [reqs EXCEPT ![q] = s]
          /\ UNCHANGED <<manifest, loaded, hosted, fetch, sent, changed>>
      BY <1>3 DEF Download, Failure
    <2> HIDE DEF r
    <2> QED BY <1>0, <1>a, <2>2, <2>3, ZenonT(40)
  <1>4. ASSUME NEW q \in Requests, Install(q) PROVE ModelsInv'
    <2> DEFINE f == reqs[q].file
               r == [reqs[q] EXCEPT !.at = "open"]
    <2>1. reqs[q] \in Reqs /\ reqs[q] # NoReq /\ f \in FileKeys /\ reqs[q].at = "rename"
      BY <1>0, <1>4 DEF Install
    <2>2. r \in Reqs /\ r.file = f /\ (f \in changed \/ Expects(r, f))
      BY <2>1 DEF Reqs, Expects
    <2>3. CASE Failure(q) /\ hosted' = hosted
      BY <1>0, <1>4, <1>a, <2>3 DEF Install, Failure
    <2>4. CASE hosted' = [hosted EXCEPT ![f] = reqs[q].want] /\ reqs' = [reqs EXCEPT ![q] = r]
      <3>1. reqs[q].want \in Hashes \cup {"none"}
        BY <1>0, <2>1
      <3>2. hosted' \in [FileKeys -> Hashes \cup {"none"}]
        BY <2>4, <3>1
      <3>3. \A g \in FileKeys \ changed : hosted'[g] \in {"none", manifest[g]}
        BY <2>1, <2>4 DEF Expects
      <3>4. reqs' \in [Requests -> Reqs]
        BY <2>2, <2>4
      <3>5. \A g \in FileKeys \ changed : \A p \in Requests :
              reqs'[p] # NoReq /\ reqs'[p].file = g => Expects(reqs'[p], g)
        <4> HIDE DEF r
        <4> QED BY <2>2, <2>4
      <3>6. UNCHANGED <<manifest, loaded, fetch, sent, changed>>
        BY <1>4 DEF Install
      <3> QED BY <3>2, <3>3, <3>4, <3>5, <3>6 DEF Expects, TagNamesContent
    <2> QED BY <1>4, <2>3, <2>4 DEF Install
  <1>5. ASSUME NEW q \in Requests, Respond(q) PROVE ModelsInv'
    <2> DEFINE f == reqs[q].file
               e == <<f, reqs[q].tag, hosted[f]>>
    <2>1. reqs[q] \in Reqs /\ reqs[q] # NoReq /\ f \in FileKeys
      BY <1>0, <1>5 DEF Respond
    <2>2. /\ sent' = sent \/ (hosted[f] # "none" /\ sent' = sent \cup {e})
          /\ reqs' = [reqs EXCEPT ![q] = NoReq]
          /\ UNCHANGED <<manifest, loaded, hosted, fetch, changed>>
      BY <1>5 DEF Respond
    <2>3. f \notin changed /\ hosted[f] # "none" => e[2] = e[3]
      BY <2>1 DEF Expects
    <2>4. \A r \in sent' : r[1] \in FileKeys /\ (r[1] \notin changed => r[2] = r[3])
      BY <2>1, <2>2, <2>3 DEF TagNamesContent
    <2>5. /\ reqs' \in [Requests -> Reqs]
          /\ \A p \in Requests : reqs'[p] = reqs[p] \/ reqs'[p] = NoReq
      BY <1>0, <2>2
    <2> QED BY <2>2, <2>4, <2>5 DEF Expects, TagNamesContent
  <1>6. ASSUME NEW m \in Manifests, NewManifest(m) PROVE ModelsInv'
    <2>1. /\ manifest' = m /\ m \in [FileKeys -> Hashes]
          /\ changed' = changed \cup {f \in FileKeys : m[f] # manifest[f]}
          /\ UNCHANGED <<loaded, hosted, failed, reqs, fetch, sent>>
      BY <1>0, <1>6 DEF NewManifest
    <2>2. \A f \in FileKeys \ changed' : f \notin changed /\ m[f] = manifest[f]
      BY <2>1
    <2> QED BY <2>1, <2>2 DEF Expects, TagNamesContent
  <1>7. CASE Reload
    BY <1>7 DEF Reload, Expects, TagNamesContent
  <1>8. ASSUME NEW f \in FileKeys, NEW force \in BOOLEAN, FetchFile(f, force) PROVE ModelsInv'
    <2> DEFINE r == [at |-> "get", file |-> f, tag |-> manifest[f], want |-> manifest[f]]
    <2>1. r \in Reqs /\ r.file = f /\ r.want = manifest[f]
      BY DEF Reqs
    <2>2. fetch' = r /\ UNCHANGED <<manifest, loaded, hosted, reqs, sent, changed>>
      BY <1>8 DEF FetchFile
    <2> HIDE DEF r
    <2> QED BY <2>1, <2>2 DEF Expects, TagNamesContent
  <1>9. CASE FetchEnds
    <2>1. fetch \in Reqs /\ fetch # NoReq /\ fetch.file \in FileKeys
          /\ fetch.want \in Hashes \cup {"none"}
      BY <1>0, <1>9 DEF FetchEnds
    <2>2. /\ hosted' = hosted \/ hosted' = [hosted EXCEPT ![fetch.file] = fetch.want]
          /\ fetch' = NoReq /\ UNCHANGED <<manifest, loaded, reqs, sent, changed>>
      BY <1>9 DEF FetchEnds
    <2>3. hosted' \in [FileKeys -> Hashes \cup {"none"}]
          /\ \A g \in FileKeys \ changed : hosted'[g] \in {"none", manifest[g]}
      BY <2>1, <2>2
    <2> QED BY <1>0, <2>2, <2>3 DEF Expects, TagNamesContent
  <1>10. CASE RestartModels
    <2>1. reqs' \in [Requests -> Reqs] /\ \A q \in Requests : reqs'[q] = NoReq
      BY <1>0, <1>10 DEF RestartModels
    <2> QED BY <1>10, <2>1 DEF RestartModels, TagNamesContent
  <1>11. ASSUME UNCHANGED <<manifest, loaded, hosted, reqs, fetch, sent, changed>> PROVE ModelsInv'
    BY <1>11 DEF Expects, TagNamesContent
  <1>12. ASSUME NEW n \in Names, ForgetFailure(n) PROVE ModelsInv'
    BY <1>11, <1>12 DEF ForgetFailure
  <1>13. CASE UNCHANGED models
    BY <1>11, <1>13 DEF models
  <1> QED BY <1>1, <1>2, <1>3, <1>4, <1>5, <1>6, <1>7, <1>8, <1>9, <1>10, <1>12, <1>13
          DEF ModelsNext

\* No file is hosted and no request under way at the start.
LEMMA ModelsStart == ModelsInit => ModelsInv
  <1> SUFFICES ASSUME ModelsInit PROVE ModelsInv
    OBVIOUS
  <1>1. manifest \in [FileKeys -> Hashes] /\ loaded = manifest /\ NoReq \in Reqs
    BY ModelFilesAssumption DEF ModelsInit, FileKeys, Reqs
  <1>2. reqs \in [Requests -> Reqs] /\ \A q \in Requests : reqs[q] = NoReq
    BY <1>1 DEF ModelsInit
  <1> QED BY <1>1, <1>2 DEF ModelsInit, ModelsInv, TagNamesContent

\* A response that tells caches to keep it for ever carries the content its
\* ETag names, as long as no manifest gives the same file another hash
\* (models: the file handler, ensure_file and the fetch command).
THEOREM TagsAreTrue == ModelsSpec => []TagNamesContent
  <1>1. ModelsInv => TagNamesContent
    BY DEF ModelsInv
  <1> QED BY ModelsStart, <1>1, ModelsStep, PTL DEF ModelsSpec

\* What else the files have.
ModelsRest ==
  /\ manifest \in Manifests /\ loaded \in Manifests
  /\ failed \subseteq Names
  /\ sent \subseteq FileKeys \X Hashes \X Hashes
  /\ changed \subseteq FileKeys

\* Every step keeps that.
LEMMA ModelsRestStep == ModelsInv /\ ModelsRest /\ [ModelsNext]_models => ModelsRest'
  <1> SUFFICES ASSUME ModelsInv, ModelsRest, [ModelsNext]_models PROVE ModelsRest'
    OBVIOUS
  <1> USE DEF ModelsRest
  <1>1. ASSUME NEW q \in Requests, reqs[q].at \in {"ensure", "get", "rename", "open"}
        PROVE  /\ reqs[q].file \in FileKeys /\ reqs[q].tag \in Hashes
               /\ reqs[q].file[2] \in Names
    <2>1. reqs[q] \in Reqs /\ reqs[q] # NoReq
      BY <1>1 DEF ModelsInv, NoReq
    <2>2. reqs[q].file \in FileKeys /\ reqs[q].tag \in Hashes
      BY <2>1 DEF Reqs
    <2> QED BY <2>2 DEF FileKeys
  <1>2. ASSUME NEW q \in Requests, Download(q) \/ Install(q) PROVE ModelsRest'
    <2>1. failed' = failed \/ failed' = failed \cup {reqs[q].file[2]}
      BY <1>2 DEF Download, Install, Failure
    <2>2. reqs[q].file[2] \in Names
      BY <1>1, <1>2 DEF Download, Install
    <2> QED BY <1>2, <2>1, <2>2 DEF Download, Install
  <1>3. ASSUME NEW q \in Requests, Respond(q) PROVE ModelsRest'
    <2> DEFINE f == reqs[q].file
    <2>1. f \in FileKeys /\ reqs[q].tag \in Hashes
      BY <1>1, <1>3 DEF Respond
    <2>2. hosted[f] \in Hashes \cup {"none"}
      BY <2>1 DEF ModelsInv
    <2>3. sent' = IF hosted[f] = "none" THEN sent ELSE sent \cup {<<f, reqs[q].tag, hosted[f]>>}
      BY <1>3 DEF Respond
    <2>4. sent' \subseteq FileKeys \X Hashes \X Hashes
      <3> HIDE DEF f
      <3> QED BY <2>1, <2>2, <2>3
    <2> QED BY <1>3, <2>4 DEF Respond
  <1>4. ASSUME NEW q \in Requests, NEW f \in FileKeys, Request(q, f) PROVE ModelsRest'
    BY <1>4 DEF Request
  <1>5. ASSUME NEW q \in Requests, Ensure(q) PROVE ModelsRest'
    BY <1>5 DEF Ensure
  <1>6. ASSUME NEW n \in Names, ForgetFailure(n) PROVE ModelsRest'
    BY <1>6 DEF ForgetFailure
  <1>7. ASSUME NEW m \in Manifests, NewManifest(m) PROVE ModelsRest'
    BY <1>7 DEF NewManifest
  <1>8. ASSUME NEW f \in FileKeys, NEW force \in BOOLEAN, FetchFile(f, force) PROVE ModelsRest'
    BY <1>8 DEF FetchFile
  <1>9. CASE FetchEnds \/ Reload \/ RestartModels
    BY <1>9 DEF FetchEnds, Reload, RestartModels
  <1>10. CASE UNCHANGED models
    BY <1>10 DEF models
  <1> QED BY <1>2, <1>3, <1>4, <1>5, <1>6, <1>7, <1>8, <1>9, <1>10 DEF ModelsNext

\* The types of the hosted models: nothing but a whole content of some
\* manifest is ever sent or stands under a file's name (models: ensure_file).
THEOREM ModelsTyped == ModelsSpec => []ModelsTypeOK
  <1>1. ModelsInit => ModelsRest
    BY DEF ModelsInit, ModelsRest
  <1>2. ModelsInv /\ ModelsRest => ModelsTypeOK
    BY DEF ModelsInv, ModelsRest, ModelsTypeOK
  <1> QED BY ModelsStart, <1>1, <1>2, ModelsStep, ModelsRestStep, PTL DEF ModelsSpec

(***************************************************************************)
(* Push.                                                                   *)
(***************************************************************************)

PushSpec == PushInit /\ [][PushNext]_push

SubRec == [id : Nat \ {0}, browser : Browsers, endpoint : Nat, key : Nat, active : BOOLEAN]
PostRec == [at : {"write"}, browser : Browsers, row : Nat, endpoint : Nat, key : Nat]

PushTypes ==
  /\ subs \subseteq SubRec /\ inserted \in Nat
  /\ live \in [Browsers -> [endpoint : Nat, key : Nat]]
  /\ held \in [Browsers -> [row : Nat, endpoint : Nat]]
  /\ posts \in [Posts -> {Free} \cup PostRec]
  /\ sending \subseteq [sub : SubRec, at : {"send", "ok", "gone", "failed"}]
  /\ vapid \in [stored : Nat, loaded : Nat]

\* The id of a row is never given out again and stays with its browser.
PushIds ==
  /\ \A s \in subs : s.id <= inserted
  /\ \A s, t \in subs : s.id = t.id => s = t
  /\ \A q \in Posts : posts[q].at = "write" =>
       posts[q].row <= inserted /\ \A s \in subs : s.id = posts[q].row => s.browser = posts[q].browser

\* A row that a registration is about to write is still active, and one that
\* an answer is about to delete is known to be doomed.
PushDoomed ==
  /\ \A q \in Posts : posts[q].at = "write" /\ posts[q].row \notin doomed =>
       \A s \in subs : s.id = posts[q].row => s.active
  /\ \A t \in sending : t.at = "gone" => t.sub.id \in doomed

PushInv == PushTypes /\ PushIds /\ PushDoomed /\ SubscriptionKept

\* Every step keeps them.
LEMMA PushStep == PushInv /\ [PushNext]_push => PushInv'
  <1> SUFFICES ASSUME PushInv, [PushNext]_push PROVE PushInv'
    OBVIOUS
  <1>0. PushTypes /\ PushIds /\ PushDoomed /\ SubscriptionKept
    BY DEF PushInv
  <1>a. \A q \in Posts : posts[q].at = "write" => posts[q] \in PostRec
    BY <1>0 DEF PushTypes, Free
  <1>1. ASSUME NEW b \in Browsers, Renew(b) PROVE PushInv'
    <2> DEFINE e == [endpoint |-> live[b].endpoint + 1, key |-> vapid.loaded]
    <2>1. /\ live' = [live EXCEPT ![b] = e]
          /\ UNCHANGED <<subs, inserted, held, posts, sending, vapid, doomed>>
      BY <1>1 DEF Renew
    <2>2. e \in [endpoint : Nat, key : Nat]
      BY <1>0 DEF PushTypes
    <2> HIDE DEF e
    <2>3. PushTypes'
      BY <1>0, <2>1, <2>2 DEF PushTypes
    <2>4. PushIds' /\ PushDoomed' /\ SubscriptionKept'
      BY <1>0, <2>1 DEF PushIds, PushDoomed, SubscriptionKept, ActiveSubs
    <2> QED BY <2>3, <2>4 DEF PushInv
  <1>2. ASSUME NEW b \in Browsers, DeleteForDevice(b) PROVE PushInv'
    <2>1. /\ subs' = subs \ Of(b) /\ held' = [held EXCEPT ![b] = Nothing]
          /\ UNCHANGED <<inserted, live, posts, sending, vapid, doomed>>
      BY <1>2 DEF DeleteForDevice
    <2>2. \A s \in subs : s \in subs' <=> s.browser # b
      BY <2>1 DEF Of
    <2>3. subs' \subseteq subs
      BY <2>1
    <2>4. PushTypes'
      BY <1>0, <2>1, <2>3 DEF PushTypes, Nothing
    <2>5. PushIds' /\ PushDoomed'
      BY <1>0, <2>1, <2>3 DEF PushIds, PushDoomed
    <2>6. \A c \in Browsers : held'[c] = IF c = b THEN Nothing ELSE held[c]
      BY <1>0, <2>1 DEF PushTypes
    <2>7. SubscriptionKept'
      BY <1>0, <2>1, <2>2, <2>6 DEF SubscriptionKept, ActiveSubs, Nothing
    <2> QED BY <2>4, <2>5, <2>7 DEF PushInv
  <1>3. ASSUME NEW q \in Posts, NEW b \in Browsers, RegisterLook(q, b) PROVE PushInv'
    <2>1. PICK rid \in IF \E s \in Of(b) : s.active
                       THEN {s.id : s \in {s \in Of(b) : s.active}} ELSE {0} :
            posts' = [posts EXCEPT ![q] = [at |-> "write", browser |-> b, row |-> rid,
                        endpoint |-> live[b].endpoint, key |-> live[b].key]]
      BY <1>3 DEF RegisterLook
    <2> DEFINE p == [at |-> "write", browser |-> b, row |-> rid,
                     endpoint |-> live[b].endpoint, key |-> live[b].key]
    <2>2. rid = 0 \/ \E s \in subs : s.active /\ s.browser = b /\ s.id = rid
      BY <2>1 DEF Of
    <2>3. /\ rid \in Nat /\ rid <= inserted
          /\ \A s \in subs : s.id = rid => s.browser = b /\ s.active
      BY <1>0, <2>2 DEF PushTypes, SubRec, PushIds
    <2>4. p \in PostRec
      BY <1>0, <2>3 DEF PushTypes, PostRec
    <2>5. /\ posts' = [posts EXCEPT ![q] = p]
          /\ UNCHANGED <<subs, inserted, live, held, sending, vapid, doomed>>
      BY <1>3, <2>1 DEF RegisterLook
    <2>6. PushTypes'
      <3> HIDE DEF p
      <3> QED BY <1>0, <2>4, <2>5 DEF PushTypes
    <2>7. \A r \in Posts : posts'[r] = IF r = q THEN p ELSE posts[r]
      BY <1>0, <2>5 DEF PushTypes
    <2>8. PushIds'
      BY <1>0, <2>3, <2>5, <2>7 DEF PushIds
    <2>9. PushDoomed'
      BY <1>0, <2>3, <2>5, <2>7 DEF PushDoomed
    <2>10. SubscriptionKept'
      BY <1>0, <2>5 DEF SubscriptionKept, ActiveSubs
    <2> QED BY <2>6, <2>8, <2>9, <2>10 DEF PushInv
  <1>4. ASSUME NEW q \in Posts, RegisterUpdate(q) PROVE PushInv'
    <2> DEFINE p == posts[q]
               hit == {s \in subs : s.id = p.row}
               New(s) == [s EXCEPT !.endpoint = p.endpoint, !.key = p.key]
               h == [row |-> p.row, endpoint |-> p.endpoint]
    <2>1. /\ p \in PostRec /\ p.at = "write" /\ p.row # 0 /\ p.browser \in Browsers
          /\ p.row \in Nat /\ p.endpoint \in Nat /\ p.key \in Nat
      BY <1>a, <1>4 DEF RegisterUpdate, PostRec
    <2>2. /\ subs' = (subs \ hit) \cup {New(s) : s \in hit}
          /\ held' = IF hit = {} THEN held ELSE [held EXCEPT ![p.browser] = h]
          /\ posts' = [posts EXCEPT ![q] = Free]
          /\ UNCHANGED <<inserted, live, sending, vapid, doomed>>
      BY <1>4 DEF RegisterUpdate
    <2>3. \A s \in subs : New(s) \in SubRec /\ New(s).id = s.id /\ New(s).browser = s.browser
            /\ New(s).active = s.active /\ New(s).endpoint = p.endpoint
      BY <1>0, <2>1 DEF PushTypes, SubRec
    <2>4. \A s \in hit : s \in subs /\ s.id = p.row /\ s.browser = p.browser
      BY <1>0, <2>1 DEF PushIds
    <2>5. \A s \in subs' : \/ s \in subs /\ s.id # p.row
                           \/ \E o \in hit : s = New(o)
      BY <2>2
    <2>6. \A r \in Posts : posts'[r] = IF r = q THEN Free ELSE posts[r]
      BY <1>0, <2>2 DEF PushTypes
    <2>7. \A s \in subs : s.id # p.row => s \in subs'
      BY <2>2
    <2>8. \A s \in hit : New(s) \in subs'
      BY <2>2
    <2>9. h \in [row : Nat, endpoint : Nat] /\ h.row = p.row /\ h.endpoint = p.endpoint
      BY <2>1
    <2>10. p.row \notin doomed => \A s \in hit : s.active
      BY <1>0, <2>1, <2>4 DEF PushDoomed
    <2> HIDE DEF p, New, hit, h
    <2>11. \A c \in Browsers : held'[c] = IF hit # {} /\ c = p.browser THEN h ELSE held[c]
      BY <1>0, <2>2, <2>9 DEF PushTypes
    <2>12. PushTypes'
      <3>1. subs' \subseteq SubRec
        BY <1>0, <2>3, <2>4, <2>5 DEF PushTypes
      <3>2. posts' \in [Posts -> {Free} \cup PostRec]
        BY <1>0, <2>2 DEF PushTypes
      <3>3. held' \in [Browsers -> [row : Nat, endpoint : Nat]]
        BY <1>0, <2>1, <2>2, <2>9 DEF PushTypes
      <3> QED BY <1>0, <2>2, <3>1, <3>2, <3>3 DEF PushTypes
    <2>13. \A s \in subs' : \E o \in subs : s.id = o.id /\ s.browser = o.browser /\ s.active = o.active
      BY <2>3, <2>4, <2>5
    <2>14. PushIds'
      <3>1. \A s \in subs' : s.id <= inserted
        BY <1>0, <2>13 DEF PushIds
      <3>2. \A s, t \in subs' : s.id = t.id => s = t
        BY <1>0, <2>3, <2>4, <2>5 DEF PushIds
      <3>3. \A r \in Posts : posts'[r].at = "write" =>
              posts'[r].row <= inserted /\ \A s \in subs' : s.id = posts'[r].row => s.browser = posts'[r].browser
        BY <1>0, <2>6, <2>13 DEF PushIds, Free
      <3> QED BY <2>2, <3>1, <3>2, <3>3 DEF PushIds
    <2>15. PushDoomed'
      <3>1. \A r \in Posts : posts'[r].at = "write" => posts'[r] = posts[r]
        BY <2>6 DEF Free
      <3> QED BY <1>0, <2>2, <2>13, <3>1 DEF PushDoomed
    <2>16. ASSUME NEW c \in Browsers, held'[c].row # 0, held'[c].row \notin doomed'
           PROVE  \E s \in subs' : s.active /\ s.browser = c /\ s.id = held'[c].row
                                   /\ s.endpoint = held'[c].endpoint
      <3>1. CASE hit # {} /\ c = p.browser
        <4>1. PICK o \in hit : o \in subs /\ o.id = p.row /\ o.browser = p.browser
          BY <2>4, <3>1
        <4>2. held'[c].row = p.row /\ held'[c].endpoint = p.endpoint
          BY <2>9, <2>11, <3>1
        <4>3. o.active
          BY <2>2, <2>10, <2>16, <4>2
        <4> QED BY <2>3, <2>8, <3>1, <4>1, <4>2, <4>3
      <3>2. CASE ~ (hit # {} /\ c = p.browser)
        <4>1. held'[c] = held[c]
          BY <2>11, <3>2
        <4>2. PICK s \in subs : s.active /\ s.browser = c /\ s.id = held[c].row
                                /\ s.endpoint = held[c].endpoint
          BY <1>0, <2>2, <2>16, <4>1 DEF SubscriptionKept, ActiveSubs
        <4>3. s.id # p.row
          BY <2>4, <3>2, <4>2 DEF hit
        <4> QED BY <2>7, <4>1, <4>2, <4>3
      <3> QED BY <3>1, <3>2
    <2>17. SubscriptionKept'
      BY <2>16 DEF SubscriptionKept, ActiveSubs
    <2> QED BY <2>12, <2>14, <2>15, <2>17 DEF PushInv
  <1>5. ASSUME NEW q \in Posts, RegisterInsert(q) PROVE PushInv'
    <2> DEFINE p == posts[q]
               n == [id |-> inserted + 1, browser |-> p.browser,
                     endpoint |-> p.endpoint, key |-> p.key, active |-> TRUE]
               h == [row |-> inserted + 1, endpoint |-> p.endpoint]
    <2>1. /\ p \in PostRec /\ p.at = "write" /\ p.browser \in Browsers
          /\ p.endpoint \in Nat /\ p.key \in Nat /\ inserted \in Nat
      BY <1>0, <1>a, <1>5 DEF RegisterInsert, PostRec, PushTypes
    <2>2. /\ subs' = subs \cup {n}
          /\ held' = [held EXCEPT ![p.browser] = h]
          /\ posts' = [posts EXCEPT ![q] = Free]
          /\ inserted' = inserted + 1
          /\ UNCHANGED <<live, sending, vapid, doomed>>
      BY <1>5 DEF RegisterInsert
    <2>3. n \in SubRec /\ n.id = inserted + 1 /\ n.browser = p.browser /\ n.endpoint = p.endpoint
          /\ n.active
      BY <2>1 DEF SubRec
    <2>4. h \in [row : Nat, endpoint : Nat] /\ h.row = inserted + 1 /\ h.endpoint = p.endpoint
      BY <2>1
    <2> HIDE DEF p, n, h
    <2>5. \A r \in Posts : posts'[r].at = "write" => posts'[r] = posts[r]
      BY <1>0, <2>2 DEF PushTypes, Free
    <2>6. \A c \in Browsers : held'[c] = IF c = p.browser THEN h ELSE held[c]
      BY <1>0, <2>2 DEF PushTypes
    <2>7. PushTypes'
      BY <1>0, <2>1, <2>2, <2>3, <2>4 DEF PushTypes
    <2>8. /\ \A s \in subs : s.id \in Nat /\ s.id <= inserted
          /\ \A r \in Posts : posts[r].at = "write" => posts[r].row \in Nat /\ posts[r].row <= inserted
      BY <1>0, <1>a DEF PushTypes, SubRec, PostRec, PushIds
    <2>9. PushIds'
      <3>1. \A s \in subs' : s.id <= inserted'
        BY <2>1, <2>2, <2>3, <2>8
      <3>2. \A s, t \in subs' : s.id = t.id => s = t
        BY <1>0, <2>1, <2>2, <2>3, <2>8 DEF PushIds
      <3>3. \A r \in Posts : posts'[r].at = "write" =>
              posts'[r].row <= inserted' /\ \A s \in subs' : s.id = posts'[r].row => s.browser = posts'[r].browser
        BY <1>0, <2>1, <2>2, <2>3, <2>5, <2>8 DEF PushIds
      <3> QED BY <3>1, <3>2, <3>3 DEF PushIds
    <2>10. PushDoomed'
      BY <1>0, <2>2, <2>3, <2>5 DEF PushDoomed
    <2>11. SubscriptionKept'
      BY <1>0, <2>2, <2>3, <2>4, <2>6 DEF SubscriptionKept, ActiveSubs
    <2> QED BY <2>7, <2>9, <2>10, <2>11 DEF PushInv
  <1>6. ASSUME NEW s \in subs, Revoke(s) PROVE PushInv'
    <2> DEFINE n == [s EXCEPT !.active = FALSE]
    <2>1. s \in SubRec /\ s.browser \in Browsers
      BY <1>0 DEF PushTypes, SubRec
    <2>2. n \in SubRec /\ n.id = s.id /\ n.browser = s.browser
      BY <2>1 DEF SubRec
    <2>3. /\ subs' = (subs \ {s}) \cup {n}
          /\ held' = IF held[s.browser].row = s.id
                     THEN [held EXCEPT ![s.browser] = Nothing] ELSE held
          /\ doomed' = doomed \cup ({s.id} \cap Written)
          /\ UNCHANGED <<inserted, live, posts, sending, vapid>>
      BY <1>6 DEF Revoke
    <2> HIDE DEF n
    <2>4. PushTypes'
      BY <1>0, <2>2, <2>3 DEF PushTypes, Nothing
    <2>5. PushIds'
      BY <1>0, <2>2, <2>3 DEF PushIds
    <2>6. \A q \in Posts : posts[q].at = "write" => posts[q].row \in Written
      BY DEF Written
    <2>7. PushDoomed'
      BY <1>0, <2>2, <2>3, <2>6 DEF PushDoomed
    <2>8. \A c \in Browsers : held'[c] = IF c = s.browser /\ held[c].row = s.id
                                         THEN Nothing ELSE held[c]
      BY <1>0, <2>3 DEF PushTypes
    <2>9. SubscriptionKept'
      BY <1>0, <2>3, <2>8 DEF SubscriptionKept, ActiveSubs, Nothing
    <2> QED BY <2>4, <2>5, <2>7, <2>9 DEF PushInv
  <1>7. CASE RotateVapid
    <2> DEFINE New(s) == [s EXCEPT !.active = FALSE]
    <2>1. \A s \in subs : New(s) \in SubRec /\ New(s).id = s.id /\ New(s).browser = s.browser
      BY <1>0 DEF PushTypes, SubRec
    <2>2. /\ subs' = {New(s) : s \in subs}
          /\ held' = [b \in Browsers |-> Nothing]
          /\ doomed' = doomed \cup ({s.id : s \in subs} \cap Written)
          /\ vapid' = [vapid EXCEPT !.stored = @ + 1]
          /\ UNCHANGED <<inserted, live, posts, sending>>
      BY <1>7 DEF RotateVapid
    <2> HIDE DEF New
    <2>3. PushTypes'
      BY <1>0, <2>1, <2>2 DEF PushTypes, Nothing
    <2>4. PushIds'
      <3>1. \A s, t \in subs' : s.id = t.id => s = t
        BY <1>0, <2>1, <2>2 DEF PushIds
      <3>2. \A s \in subs' : \E o \in subs : s.id = o.id /\ s.browser = o.browser
        BY <2>1, <2>2
      <3> QED BY <1>0, <2>2, <3>1, <3>2 DEF PushIds
    <2>5. PushDoomed'
      <3>1. \A q \in Posts : posts[q].at = "write" => posts[q].row \in Written
        BY DEF Written
      <3>2. \A s \in subs' : s.id \in {o.id : o \in subs}
        BY <2>1, <2>2
      <3> QED BY <1>0, <2>2, <3>1, <3>2 DEF PushDoomed
    <2>6. SubscriptionKept'
      BY <2>2 DEF SubscriptionKept, Nothing
    <2> QED BY <2>3, <2>4, <2>5, <2>6 DEF PushInv
  <1>8. CASE RestartPush
    <2>1. /\ vapid' = [vapid EXCEPT !.loaded = vapid.stored]
          /\ posts' = [q \in Posts |-> Free] /\ sending' = {}
          /\ UNCHANGED <<subs, inserted, live, held, doomed>>
      BY <1>8 DEF RestartPush
    <2>2. \A q \in Posts : posts'[q].at # "write"
      BY <2>1 DEF Free
    <2>3. PushTypes'
      BY <1>0, <2>1 DEF PushTypes
    <2>4. PushIds' /\ PushDoomed' /\ SubscriptionKept'
      BY <1>0, <2>1, <2>2 DEF PushIds, PushDoomed, SubscriptionKept, ActiveSubs
    <2> QED BY <2>3, <2>4 DEF PushInv
  <1>9. ASSUME NEW to \in SUBSET ActiveSubs, Dispatch(to) PROVE PushInv'
    <2>1. /\ sending' = sending \cup {[sub |-> s, at |-> "send"] : s \in to}
          /\ UNCHANGED <<subs, inserted, live, held, posts, vapid, doomed>>
      BY <1>9 DEF Dispatch
    <2>2. \A t \in sending' : t \in sending \/ (t.at = "send"
            /\ t \in [sub : SubRec, at : {"send", "ok", "gone", "failed"}])
      BY <1>0, <2>1 DEF ActiveSubs, PushTypes
    <2>3. PushTypes'
      BY <1>0, <2>1, <2>2 DEF PushTypes
    <2>4. PushIds' /\ PushDoomed' /\ SubscriptionKept'
      BY <1>0, <2>1, <2>2 DEF PushIds, PushDoomed, SubscriptionKept, ActiveSubs
    <2> QED BY <2>3, <2>4 DEF PushInv
  <1>10. ASSUME NEW t \in sending, Deliver(t) PROVE PushInv'
    <2>1. PICK a \in Answers(t.sub) :
            /\ sending' = (sending \ {t}) \cup {[t EXCEPT !.at = a]}
            /\ doomed' = IF a = "gone" THEN doomed \cup {t.sub.id} ELSE doomed
      BY <1>10 DEF Deliver
    <2> DEFINE n == [t EXCEPT !.at = a]
    <2>2. UNCHANGED <<subs, inserted, live, held, posts, vapid>>
      BY <1>10 DEF Deliver
    <2>3. t \in [sub : SubRec, at : {"send", "ok", "gone", "failed"}]
      BY <1>0 DEF PushTypes
    <2>4. a \in {"ok", "gone", "failed"}
      BY <2>1 DEF Answers
    <2>5. /\ n \in [sub : SubRec, at : {"send", "ok", "gone", "failed"}]
          /\ n.sub = t.sub /\ n.at = a
      BY <2>3, <2>4
    <2>6. \A u \in sending' : u \in sending \/ u = n
      BY <2>1
    <2> HIDE DEF n
    <2>7. PushTypes'
      BY <1>0, <2>2, <2>5, <2>6 DEF PushTypes
    <2>8. PushIds' /\ PushDoomed' /\ SubscriptionKept'
      BY <1>0, <2>1, <2>2, <2>5, <2>6 DEF PushIds, PushDoomed, SubscriptionKept, ActiveSubs
    <2> QED BY <2>7, <2>8 DEF PushInv
  <1>11. ASSUME NEW t \in sending, Settle(t) PROVE PushInv'
    <2>1. /\ sending' = sending \ {t}
          /\ subs' = IF t.at = "gone" THEN {s \in subs : s.id # t.sub.id} ELSE subs
          /\ UNCHANGED <<inserted, live, held, posts, vapid, doomed>>
      BY <1>11 DEF Settle
    <2>2. sending' \subseteq sending /\ subs' \subseteq subs
      BY <2>1
    <2>3. PushTypes'
      BY <1>0, <2>1, <2>2 DEF PushTypes
    <2>4. PushIds' /\ PushDoomed'
      BY <1>0, <2>1, <2>2 DEF PushIds, PushDoomed
    <2>5. \A s \in subs : s.id \notin doomed => s \in subs'
      BY <1>0, <2>1 DEF PushDoomed
    <2>6. SubscriptionKept'
      BY <1>0, <2>1, <2>5 DEF SubscriptionKept, ActiveSubs
    <2> QED BY <2>3, <2>4, <2>6 DEF PushInv
  <1>12. CASE UNCHANGED push
    BY <1>0, <1>12 DEF push, PushInv, PushTypes, PushIds, PushDoomed, SubscriptionKept, ActiveSubs
  <1> QED BY <1>1, <1>2, <1>3, <1>4, <1>5, <1>6, <1>7, <1>8, <1>9, <1>10, <1>11, <1>12
          DEF PushNext

\* No browser is registered at the start.
LEMMA PushStart == PushInit => PushInv
  <1> SUFFICES ASSUME PushInit PROVE PushInv
    OBVIOUS
  <1>1. \A q \in Posts : posts[q] = Free /\ Free.at # "write"
    BY DEF PushInit, Free
  <1>2. PushTypes
    BY DEF PushInit, PushTypes, Nothing
  <1>3. PushIds /\ PushDoomed
    BY <1>1 DEF PushInit, PushIds, PushDoomed
  <1>4. SubscriptionKept
    BY DEF PushInit, SubscriptionKept, Nothing
  <1> QED BY <1>2, <1>3, <1>4 DEF PushInv

\* The row a registration answered stays in the table, active and with the
\* endpoint it was given, until the browser ends it or a send to this row is
\* answered with gone, whatever other sends, registrations, rotations and
\* restarts come between; a row revoked under a registration is the other
\* exception (push: register, revoke, rotate_vapid, dispatch).
THEOREM SubscriptionIsKept == PushSpec => []SubscriptionKept
  <1>1. PushInv => SubscriptionKept
    BY DEF PushInv
  <1> QED BY PushStart, <1>1, PushStep, PTL DEF PushSpec

\* The counters keep their bounds, and no key is newer than the stored one.
PushBounds ==
  /\ inserted <= MaxRows /\ doomed \subseteq 1 .. MaxRows
  /\ vapid.loaded <= vapid.stored /\ vapid.stored <= MaxRotations
  /\ \A b \in Browsers : /\ live[b].endpoint <= MaxEndpoints /\ live[b].key <= MaxRotations
                         /\ held[b].row <= MaxRows /\ held[b].endpoint <= MaxEndpoints
  /\ \A s \in subs : s.endpoint <= MaxEndpoints /\ s.key <= MaxRotations
  /\ \A q \in Posts : posts[q].at = "write" =>
       posts[q].endpoint <= MaxEndpoints /\ posts[q].key <= MaxRotations
  /\ \A t \in sending : /\ t.sub.id \in 1 .. MaxRows
                        /\ t.sub.endpoint <= MaxEndpoints /\ t.sub.key <= MaxRotations

\* Every step of a kept table keeps them.
LEMMA PushBoundsStep == PushInv /\ PushBounds /\ [PushNext]_push => PushBounds'
  <1> SUFFICES ASSUME PushInv, PushBounds, [PushNext]_push PROVE PushBounds'
    OBVIOUS
  <1>0. PushTypes /\ PushIds /\ {MaxEndpoints, MaxRotations, MaxRows} \subseteq Nat
    BY PushAssumption DEF PushInv
  <1>a. \A s \in subs : s.id \in 1 .. MaxRows
    BY <1>0 DEF PushTypes, SubRec, PushIds, PushBounds
  <1>1. ASSUME NEW b \in Browsers, Renew(b) PROVE PushBounds'
    <2> DEFINE e == [endpoint |-> live[b].endpoint + 1, key |-> vapid.loaded]
    <2>1. /\ live' = [live EXCEPT ![b] = e]
          /\ UNCHANGED <<subs, inserted, held, posts, sending, vapid, doomed>>
      BY <1>1 DEF Renew
    <2>2. e.endpoint <= MaxEndpoints /\ e.key <= MaxRotations
      BY <1>0, <1>1 DEF Renew, PushTypes, PushBounds
    <2>3. \A c \in Browsers : live'[c] = IF c = b THEN e ELSE live[c]
      BY <1>0, <2>1 DEF PushTypes
    <2> HIDE DEF e
    <2> QED BY <2>1, <2>2, <2>3 DEF PushBounds
  <1>2. ASSUME NEW b \in Browsers, DeleteForDevice(b) PROVE PushBounds'
    <2>1. \A c \in Browsers : held'[c] = IF c = b THEN Nothing ELSE held[c]
      BY <1>0, <1>2 DEF DeleteForDevice, PushTypes
    <2> QED BY <1>0, <1>2, <2>1 DEF DeleteForDevice, PushBounds, Nothing
  <1>3. ASSUME NEW q \in Posts, NEW b \in Browsers, RegisterLook(q, b) PROVE PushBounds'
    <2>1. PICK rid : posts' = [posts EXCEPT ![q] = [at |-> "write", browser |-> b, row |-> rid,
                        endpoint |-> live[b].endpoint, key |-> live[b].key]]
      BY <1>3 DEF RegisterLook
    <2> DEFINE p == [at |-> "write", browser |-> b, row |-> rid,
                     endpoint |-> live[b].endpoint, key |-> live[b].key]
    <2>2. p.endpoint <= MaxEndpoints /\ p.key <= MaxRotations
      BY DEF PushBounds
    <2>3. \A r \in Posts : posts'[r] = IF r = q THEN p ELSE posts[r]
      BY <1>0, <2>1 DEF PushTypes
    <2>4. UNCHANGED <<subs, inserted, live, held, sending, vapid, doomed>>
      BY <1>3 DEF RegisterLook
    <2> HIDE DEF p
    <2> QED BY <2>2, <2>3, <2>4 DEF PushBounds
  <1>4. ASSUME NEW q \in Posts, RegisterUpdate(q) PROVE PushBounds'
    <2> DEFINE p == posts[q]
               hit == {s \in subs : s.id = p.row}
               New(s) == [s EXCEPT !.endpoint = p.endpoint, !.key = p.key]
               h == [row |-> p.row, endpoint |-> p.endpoint]
    <2>0. hit # {} => h.row <= MaxRows
      BY <1>0, <1>a
    <2>1. /\ p.endpoint <= MaxEndpoints /\ p.key <= MaxRotations
          /\ h.endpoint = p.endpoint
      BY <1>4 DEF RegisterUpdate, PushBounds
    <2>2. /\ subs' = (subs \ hit) \cup {New(s) : s \in hit}
          /\ held' = IF hit = {} THEN held ELSE [held EXCEPT ![p.browser] = h]
          /\ posts' = [posts EXCEPT ![q] = Free]
          /\ UNCHANGED <<inserted, live, sending, vapid, doomed>>
      BY <1>4 DEF RegisterUpdate
    <2>3. \A s \in subs : New(s).key = p.key /\ New(s).endpoint = p.endpoint
      BY <1>0 DEF PushTypes, SubRec
    <2>4. \A r \in Posts : posts'[r] = IF r = q THEN Free ELSE posts[r]
      BY <1>0, <2>2 DEF PushTypes
    <2> HIDE DEF p, New, h
    <2>5. \A s \in subs' : s.endpoint <= MaxEndpoints /\ s.key <= MaxRotations
      BY <2>1, <2>2, <2>3 DEF PushBounds
    <2>6. \A c \in Browsers : held'[c] = held[c] \/ (hit # {} /\ held'[c] = h)
      <3> HIDE DEF hit
      <3> QED BY <1>0, <2>2 DEF PushTypes
    <2> HIDE DEF hit
    <2> QED BY <2>0, <2>1, <2>2, <2>4, <2>5, <2>6 DEF PushBounds, Free
  <1>5. ASSUME NEW q \in Posts, RegisterInsert(q) PROVE PushBounds'
    <2> DEFINE n == [id |-> inserted + 1, browser |-> posts[q].browser,
                     endpoint |-> posts[q].endpoint, key |-> posts[q].key, active |-> TRUE]
               h == [row |-> inserted + 1, endpoint |-> posts[q].endpoint]
    <2>1. /\ n.endpoint <= MaxEndpoints /\ n.key <= MaxRotations
          /\ h.row = inserted + 1 /\ h.endpoint <= MaxEndpoints
      BY <1>5 DEF RegisterInsert, PushBounds
    <2>2. /\ subs' = subs \cup {n} /\ posts' = [posts EXCEPT ![q] = Free]
          /\ held' = [held EXCEPT ![posts[q].browser] = h]
          /\ UNCHANGED <<live, sending, vapid, doomed>>
      BY <1>5 DEF RegisterInsert
    <2>3. inserted' <= MaxRows /\ inserted + 1 <= MaxRows
      BY <1>0, <1>5 DEF RegisterInsert, PushTypes
    <2>4. \A r \in Posts : posts'[r] = IF r = q THEN Free ELSE posts[r]
      BY <1>0, <2>2 DEF PushTypes
    <2> HIDE DEF n, h
    <2>5. \A c \in Browsers : held'[c] = held[c] \/ held'[c] = h
      BY <1>0, <2>2 DEF PushTypes
    <2> QED BY <2>1, <2>2, <2>3, <2>4, <2>5 DEF PushBounds, Free
  <1>6. ASSUME NEW s \in subs, Revoke(s) PROVE PushBounds'
    <2> DEFINE n == [s EXCEPT !.active = FALSE]
    <2>1. s.browser \in Browsers /\ n.key = s.key /\ n.endpoint = s.endpoint
      BY <1>0 DEF PushTypes, SubRec
    <2>2. /\ subs' = (subs \ {s}) \cup {n} /\ doomed' \subseteq doomed \cup {s.id}
          /\ held' = IF held[s.browser].row = s.id
                     THEN [held EXCEPT ![s.browser] = Nothing] ELSE held
          /\ UNCHANGED <<inserted, live, posts, sending, vapid>>
      BY <1>6 DEF Revoke
    <2>3. \A c \in Browsers : held'[c] = held[c] \/ held'[c] = Nothing
      BY <1>0, <2>2 DEF PushTypes
    <2> HIDE DEF n
    <2> QED BY <1>0, <1>a, <2>1, <2>2, <2>3 DEF PushBounds, Nothing
  <1>7. CASE RotateVapid
    <2> DEFINE New(s) == [s EXCEPT !.active = FALSE]
    <2>1. \A s \in subs : New(s).key = s.key /\ New(s).endpoint = s.endpoint
      BY <1>0 DEF PushTypes, SubRec
    <2>2. /\ subs' = {New(s) : s \in subs}
          /\ held' = [b \in Browsers |-> Nothing]
          /\ doomed' \subseteq doomed \cup {s.id : s \in subs}
          /\ UNCHANGED <<inserted, live, posts, sending>>
      BY <1>7 DEF RotateVapid
    <2>3. vapid'.loaded <= vapid'.stored /\ vapid'.stored <= MaxRotations
      BY <1>0, <1>7 DEF RotateVapid, PushTypes, PushBounds
    <2> HIDE DEF New
    <2> QED BY <1>0, <1>a, <2>1, <2>2, <2>3 DEF PushBounds, Nothing
  <1>8. CASE RestartPush
    <2>1. \A q \in Posts : posts'[q].at # "write"
      BY <1>8 DEF RestartPush, Free
    <2>2. vapid'.loaded <= vapid'.stored /\ vapid'.stored <= MaxRotations
      BY <1>0, <1>8 DEF RestartPush, PushTypes, PushBounds
    <2> QED BY <1>8, <2>1, <2>2 DEF RestartPush, PushBounds
  <1>9. ASSUME NEW to \in SUBSET ActiveSubs, Dispatch(to) PROVE PushBounds'
    <2>1. \A t \in sending' : t \in sending \/ t.sub \in subs
      BY <1>9 DEF Dispatch, ActiveSubs
    <2> QED BY <1>9, <1>a, <2>1 DEF Dispatch, PushBounds
  <1>10. ASSUME NEW t \in sending, Deliver(t) PROVE PushBounds'
    <2>1. PICK a \in Answers(t.sub) :
            /\ sending' = (sending \ {t}) \cup {[t EXCEPT !.at = a]}
            /\ doomed' = IF a = "gone" THEN doomed \cup {t.sub.id} ELSE doomed
      BY <1>10 DEF Deliver
    <2> DEFINE n == [t EXCEPT !.at = a]
    <2>2. n.sub = t.sub
      BY <1>0 DEF PushTypes
    <2> HIDE DEF n
    <2>3. \A u \in sending' : /\ u.sub.id \in 1 .. MaxRows
                              /\ u.sub.endpoint <= MaxEndpoints /\ u.sub.key <= MaxRotations
      BY <2>1, <2>2 DEF PushBounds, n
    <2>4. doomed' \subseteq 1 .. MaxRows
      BY <2>1 DEF PushBounds
    <2> QED BY <1>10, <2>3, <2>4 DEF Deliver, PushBounds
  <1>11. ASSUME NEW t \in sending, Settle(t) PROVE PushBounds'
    BY <1>11 DEF Settle, PushBounds
  <1>12. CASE UNCHANGED push
    BY <1>12 DEF push, PushBounds
  <1> QED BY <1>1, <1>2, <1>3, <1>4, <1>5, <1>6, <1>7, <1>8, <1>9, <1>10, <1>11, <1>12
          DEF PushNext

\* The rows, the registrations and the sends under way have their types, ids
\* are those of rows inserted and the loaded key is not newer than the stored
\* one (push: register, rotate_vapid).
THEOREM PushTyped == PushSpec => []PushTypeOK
  <1>1. PushInit => PushBounds
    BY PushAssumption DEF PushInit, PushBounds, Free, Nothing
  <1>2. PushInv /\ PushBounds => PushTypeOK
    <2> SUFFICES ASSUME PushInv, PushBounds PROVE PushTypeOK
      OBVIOUS
    <2>0. /\ PushTypes /\ PushIds
          /\ {MaxEndpoints, MaxRotations, MaxRows} \subseteq Nat
      BY PushAssumption DEF PushInv
    <2>1. \A e \in Nat : /\ e <= MaxEndpoints => e \in Endpoints
                         /\ e <= MaxRotations => e \in Keys
                         /\ e <= MaxRows => e \in 0 .. MaxRows
      BY <2>0 DEF Endpoints, Keys
    <2>2. live \in [Browsers -> [endpoint : Endpoints, key : Keys]]
      BY <2>0, <2>1 DEF PushTypes, PushBounds
    <2>3. held \in [Browsers -> [row : 0 .. MaxRows, endpoint : Endpoints]]
      BY <2>0, <2>1 DEF PushTypes, PushBounds
    <2>4. inserted \in 0 .. MaxRows /\ vapid \in [stored : Keys, loaded : Keys]
      BY <2>0 DEF PushTypes, PushBounds, Keys
    <2>5. ASSUME NEW s \in SubRec, s.id \in 1 .. MaxRows, s.endpoint <= MaxEndpoints,
                 s.key <= MaxRotations
          PROVE  s \in Sub
      BY <2>1, <2>5 DEF SubRec, Sub
    <2>6. subs \subseteq Sub
      <3>1. \A s \in subs : s.id \in 1 .. MaxRows
        BY <2>0 DEF PushTypes, SubRec, PushIds, PushBounds
      <3> QED BY <2>0, <2>5, <3>1 DEF PushTypes, PushBounds
    <2>7. sending \subseteq Send
      <3> SUFFICES ASSUME NEW t \in sending PROVE t \in Send
        OBVIOUS
      <3>1. t \in [sub : SubRec, at : {"send", "ok", "gone", "failed"}]
        BY <2>0 DEF PushTypes
      <3>2. t.sub \in Sub
        BY <2>0, <2>5, <3>1 DEF PushBounds
      <3> QED BY <3>1, <3>2 DEF Send
    <2>8. ASSUME NEW q \in Posts, posts[q] # Free
          PROVE  posts[q] \in [at : {"write"}, browser : Browsers, row : 0 .. MaxRows,
                               endpoint : Endpoints, key : Keys]
      <3> DEFINE p == posts[q]
      <3>1. p \in PostRec
        BY <2>0, <2>8 DEF PushTypes
      <3>2. p.row <= inserted /\ p.endpoint <= MaxEndpoints /\ p.key <= MaxRotations
        BY <2>0, <3>1 DEF PushIds, PushBounds, PostRec
      <3> HIDE DEF p
      <3>3. p.row \in 0 .. MaxRows
        BY <2>0, <3>1, <3>2 DEF PushTypes, PushBounds, PostRec
      <3>4. p.endpoint \in Endpoints /\ p.key \in Keys
        BY <2>1, <3>1, <3>2 DEF PostRec
      <3>5. p \in [at : {"write"}, browser : Browsers, row : 0 .. MaxRows,
                   endpoint : Endpoints, key : Keys]
        BY <3>1, <3>3, <3>4 DEF PostRec
      <3> QED BY <3>5 DEF p
    <2> QED BY <2>0, <2>2, <2>3, <2>4, <2>6, <2>7, <2>8 DEF PushTypeOK, PushIds, PushBounds
  <1> QED BY PushStart, <1>1, <1>2, PushStep, PushBoundsStep, PTL DEF PushSpec

(***************************************************************************)
(* Reactions.                                                              *)
(***************************************************************************)

\* A committed request with the channels it has still to publish on.
Commit == [added : BOOLEAN, left : SUBSET Channels]

\* The requests of an outbox that have still to publish on a channel.
Waits(q, c) == {i \in 1 .. Len(q) : c \in q[i].left}

\* The last of them, if there is one, says x.
LastSays(q, c, x) ==
  \A i \in Waits(q, c) : (\A j \in Waits(q, c) : j <= i) => q[i].added = x

\* The outbox after request i has published on c.
Settled(q, i, c) ==
  LET left == q[i].left \ {c}
  IN  IF left = {} THEN RemoveAt(q, i) ELSE [q EXCEPT ![i].left = left]

\* Request k of r is request orig[k] of q, without the publication of i on c.
Keeps(q, i, c, r, orig) ==
  /\ \A k, l \in 1 .. Len(r) : orig[k] <= orig[l] <=> k <= l
  /\ \A k \in 1 .. Len(r) :
       /\ r[k].added = q[orig[k]].added
       /\ \A d : d \in r[k].left <=> d \in q[orig[k]].left /\ ~ (orig[k] = i /\ d = c)
  /\ \A j \in 1 .. Len(q) :
       \/ \E k \in 1 .. Len(r) : orig[k] = j
       \/ j = i /\ \A d \in q[i].left : d = c

\* What is left of an outbox is what was there before, in its order, but for
\* the one publication.
LEMMA SettledIs ==
  ASSUME NEW q \in Seq(Commit), NEW i \in 1 .. Len(q), NEW c
  PROVE  LET r == Settled(q, i, c)
         IN  /\ r \in Seq(Commit)
             /\ \E orig \in [1 .. Len(r) -> 1 .. Len(q)] : Keeps(q, i, c, r, orig)
  <1> DEFINE left == q[i].left \ {c}
             r == Settled(q, i, c)
  <1>1. Len(q) \in Nat /\ i \in Nat /\ \A k \in 1 .. Len(q) : q[k] \in Commit
    BY LenProperties, ElementOfSeq
  <1>2. CASE left = {}
    <2>1. r = RemoveAt(q, i)
      BY <1>2 DEF Settled
    <2>2. /\ r \in Seq(Commit) /\ Len(r) = Len(q) - 1
          /\ \A k \in 1 .. (Len(q) - 1) : r[k] = IF k < i THEN q[k] ELSE q[k + 1]
      BY <2>1, RemoveAtIs
    <2> HIDE DEF r
    <2> DEFINE orig == [k \in 1 .. Len(r) |-> IF k < i THEN k ELSE k + 1]
    <2>3. orig \in [1 .. Len(r) -> 1 .. Len(q)]
      BY <1>1, <2>2
    <2>4. \A k, l \in 1 .. Len(r) : orig[k] <= orig[l] <=> k <= l
      BY <1>1
    <2>5. \A k \in 1 .. Len(r) : r[k] = q[orig[k]] /\ orig[k] # i
      BY <1>1, <2>2
    <2>6. \A j \in 1 .. Len(q) : j = i \/ \E k \in 1 .. Len(r) : orig[k] = j
      <3> SUFFICES ASSUME NEW j \in 1 .. Len(q), j # i
                   PROVE  \E k \in 1 .. Len(r) : orig[k] = j
        OBVIOUS
      <3>1. CASE j < i
        <4>1. j \in 1 .. Len(r) /\ orig[j] = j
          BY <1>1, <2>2, <3>1
        <4> QED BY <4>1
      <3>2. CASE j > i
        <4>1. j - 1 \in 1 .. Len(r) /\ orig[j - 1] = j
          BY <1>1, <2>2, <3>2
        <4> QED BY <4>1
      <3> QED BY <1>1, <3>1, <3>2
    <2>7. \A d \in q[i].left : d = c
      BY <1>2
    <2> HIDE DEF orig
    <2>8. Keeps(q, i, c, r, orig)
      BY <2>2, <2>4, <2>5, <2>6, <2>7 DEF Keeps
    <2> QED BY <2>2, <2>3, <2>8 DEF r
  <1>3. CASE left # {}
    <2>1. r = [q EXCEPT ![i].left = left]
      BY <1>3 DEF Settled
    <2>2. [q[i] EXCEPT !.left = left] \in Commit
      BY <1>1 DEF Commit
    <2>3. r \in Seq(Commit) /\ Len(r) = Len(q)
          /\ \A k \in 1 .. Len(q) : r[k] = IF k = i THEN [q[i] EXCEPT !.left = left] ELSE q[k]
      <3>1. r = [q EXCEPT ![i] = [q[i] EXCEPT !.left = left]]
        BY <2>1
      <3> HIDE DEF r, left
      <3> QED BY <1>1, <2>2, <3>1, ExceptSeq
    <2> HIDE DEF r
    <2> DEFINE orig == [k \in 1 .. Len(r) |-> k]
    <2>4. orig \in [1 .. Len(r) -> 1 .. Len(q)]
      BY <2>3
    <2>5. \A k, l \in 1 .. Len(r) : orig[k] <= orig[l] <=> k <= l
      OBVIOUS
    <2>6. \A k \in 1 .. Len(r) :
            /\ r[k].added = q[orig[k]].added
            /\ \A d : d \in r[k].left <=> d \in q[orig[k]].left /\ ~ (orig[k] = i /\ d = c)
      BY <1>1, <2>3 DEF Commit
    <2>7. \A j \in 1 .. Len(q) : \E k \in 1 .. Len(r) : orig[k] = j
      BY <2>3
    <2> HIDE DEF orig, left
    <2>8. Keeps(q, i, c, r, orig)
      BY <2>5, <2>6, <2>7 DEF Keeps
    <2> QED BY <2>3, <2>4, <2>8 DEF r
  <1> QED BY <1>2, <1>3

\* A channel other requests wait for is told the same last; the channel that
\* was published on in turn is told what follows.
LEMMA SettledSays ==
  ASSUME NEW q \in Seq(Commit), NEW i \in 1 .. Len(q), NEW c, c \in q[i].left,
         NEW d, NEW x, LastSays(q, d, x),
         d = c => \A j \in 1 .. (i - 1) : c \notin q[j].left
  PROVE  LET r == Settled(q, i, c)
         IN  /\ LastSays(r, d, x)
             /\ d # c /\ Waits(r, d) = {} => Waits(q, d) = {}
             /\ d = c /\ Waits(r, d) = {} => q[i].added = x
  <1> DEFINE r == Settled(q, i, c)
  <1>1. Len(q) \in Nat /\ i \in Nat
    BY LenProperties
  <1>2. r \in Seq(Commit) /\ Len(r) \in Nat
    BY SettledIs, LenProperties
  <1>3. PICK orig \in [1 .. Len(r) -> 1 .. Len(q)] : Keeps(q, i, c, r, orig)
    BY SettledIs
  <1> HIDE DEF r
  <1>4. \A k \in 1 .. Len(r) :
          k \in Waits(r, d) <=> orig[k] \in Waits(q, d) /\ ~ (orig[k] = i /\ d = c)
    BY <1>3 DEF Waits, Keeps
  <1>5. ASSUME NEW j \in Waits(q, d), ~ (j = i /\ d = c)
        PROVE  \E k \in Waits(r, d) : orig[k] = j
    <2>1. j \in 1 .. Len(q) /\ d \in q[j].left
      BY DEF Waits
    <2>2. PICK k \in 1 .. Len(r) : orig[k] = j
      BY <1>3, <1>5, <2>1 DEF Keeps
    <2> QED BY <1>4, <1>5, <2>2
  <1>6. d = c => \A j \in Waits(q, d) : i <= j
    BY <1>1 DEF Waits
  <1>7. LastSays(r, d, x)
    <2> SUFFICES ASSUME NEW k \in Waits(r, d), \A l \in Waits(r, d) : l <= k
                 PROVE  r[k].added = x
      BY DEF LastSays
    <2>1. k \in 1 .. Len(r) /\ orig[k] \in Waits(q, d) /\ orig[k] \in Nat
      BY <1>4 DEF Waits
    <2>2. ASSUME NEW j \in Waits(q, d) PROVE j <= orig[k]
      <3>1. CASE j = i /\ d = c
        BY <1>6, <2>1, <3>1
      <3>2. CASE ~ (j = i /\ d = c)
        <4>1. PICK l \in Waits(r, d) : orig[l] = j
          BY <1>5, <3>2
        <4>2. l \in 1 .. Len(r) /\ l <= k
          BY <4>1 DEF Waits
        <4> QED BY <1>3, <2>1, <4>1, <4>2 DEF Keeps
      <3> QED BY <3>1, <3>2
    <2>3. q[orig[k]].added = x
      BY <2>1, <2>2 DEF LastSays
    <2> QED BY <1>3, <2>1, <2>3 DEF Keeps
  <1>8. d # c /\ Waits(r, d) = {} => Waits(q, d) = {}
    BY <1>5
  <1>9. d = c /\ Waits(r, d) = {} => q[i].added = x
    <2> SUFFICES ASSUME d = c, Waits(r, d) = {} PROVE q[i].added = x
      OBVIOUS
    <2>1. \A j \in Waits(q, d) : j = i
      BY <1>5
    <2>2. i \in Waits(q, d)
      BY DEF Waits
    <2>3. \A j \in Waits(q, d) : j <= i
      BY <1>1, <2>1
    <2> QED BY <2>2, <2>3 DEF LastSays
  <1> QED BY <1>7, <1>8, <1>9 DEF r

\* A request that commits is the last to speak, on every channel.
LEMMA AppendedSays ==
  ASSUME NEW q \in Seq(Commit), NEW x \in BOOLEAN, NEW c \in Channels
  PROVE  LET r == Append(q, [added |-> x, left |-> Channels])
         IN  r \in Seq(Commit) /\ LastSays(r, c, x) /\ Waits(r, c) # {}
  <1> DEFINE e == [added |-> x, left |-> Channels]
             r == Append(q, e)
  <1>1. e \in Commit /\ e.added = x /\ e.left = Channels
    BY DEF Commit
  <1> HIDE DEF e
  <1>2. /\ r \in Seq(Commit) /\ Len(r) = Len(q) + 1 /\ Len(q) \in Nat
        /\ r[Len(q) + 1] = e
    BY <1>1, AppendProperties, LenProperties
  <1> HIDE DEF r
  <1>3. Len(q) + 1 \in Waits(r, c)
    BY <1>1, <1>2 DEF Waits
  <1>4. ASSUME NEW i \in Waits(r, c), \A j \in Waits(r, c) : j <= i PROVE r[i].added = x
    <2>1. i \in 1 .. (Len(q) + 1) /\ Len(q) + 1 <= i
      BY <1>2, <1>3, <1>4 DEF Waits
    <2>2. i = Len(q) + 1
      BY <1>2, <2>1
    <2> QED BY <1>1, <1>2, <2>2
  <1>5. LastSays(r, c, x)
    BY <1>4, SMTT(60) DEF LastSays
  <1> QED BY <1>2, <1>3, <1>5, SMTT(40) DEF r, e

\* What the table has, as a truth value.
Shows(s) == IF row[s] = "active" THEN TRUE ELSE FALSE

ReactionsTypes ==
  /\ row \in [Slots -> {"none", "active", "deleted"}]
  /\ outbox \in [Slots -> Seq(Commit)]
  /\ shown \in [Channels -> [Slots -> BOOLEAN]]

\* A channel that lost nothing of a slot is told the table's reaction by the
\* last request it waits for, or shows it already.
Told(c, s) ==
  /\ LastSays(outbox[s], c, Shows(s))
  /\ Waits(outbox[s], c) = {} => shown[c][s] = Shows(s)

ReactionsInv ==
  /\ ReactionsTypes
  /\ Home \in rooms => \A c \in Channels, s \in Slots : <<c, s>> \in astray \/ Told(c, s)

\* Steps of the files and of the members leave the rooms, or delete one.
LEMMA FilesKeepRooms == FilesNext => rooms' = rooms
  BY ZenonT(60) DEF FilesNext, Upload, Delete, Prune, Begin, Look, Insert, Create, Fill, Rename, Put, WriteFails,
     Drop, Unlink, Move, ReadSource, Verify, Update, KillCli, access

\* Nothing of the reactions changes what a channel was told of another slot.
LEMMA ReactionsStep == ReactionsInv /\ [Next]_vars => ReactionsInv'
  <1> SUFFICES ASSUME ReactionsInv, [Next]_vars PROVE ReactionsInv'
    OBVIOUS
  <1>t. ReactionsTypes
    BY DEF ReactionsInv
  <1>k. ASSUME rooms' \subseteq rooms, UNCHANGED reactions PROVE ReactionsInv'
    BY <1>k DEF ReactionsInv, ReactionsTypes, Told, Shows, reactions
  <1>1. CASE UNCHANGED vars
    BY <1>1, <1>k DEF vars, access
  <1>2. CASE Membership
    BY <1>2, <1>k DEF Membership, Enter, Leave
  <1>3. ASSUME NEW r \in Rooms, DeleteRoom(r) PROVE ReactionsInv'
    <2>1. rooms' = rooms \ {r} /\ UNCHANGED <<outbox, shown, astray>>
      BY <1>3 DEF DeleteRoom, DropRoom, CascadeReactions
    <2>2. CASE r = Home
      <3>1. row' = [s \in Slots |-> "none"] /\ Home \notin rooms'
        BY <1>3, <2>1, <2>2 DEF DeleteRoom, CascadeReactions
      <3> QED BY <1>t, <2>1, <3>1 DEF ReactionsInv, ReactionsTypes
    <2>3. CASE r # Home
      <3>1. row' = row
        BY <1>3, <2>3 DEF DeleteRoom, CascadeReactions
      <3> QED BY <1>k, <2>1, <3>1 DEF reactions
    <2> QED BY <2>2, <2>3
  <1>4. CASE FilesNext /\ UNCHANGED reactions
    BY <1>4, <1>k, FilesKeepRooms
  <1>5. ASSUME NEW s \in Slots, NEW x \in BOOLEAN, row' \in [Slots -> {"none", "active", "deleted"}],
               \A o \in Slots \ {s} : row'[o] = row[o],
               x = Shows(s)', Announce(s, x), UNCHANGED <<rooms, shown, astray>>
        PROVE  ReactionsInv'
    <2> DEFINE q == Append(outbox[s], [added |-> x, left |-> Channels])
    <2>1. outbox' = [outbox EXCEPT ![s] = q]
      BY <1>5 DEF Announce
    <2>2. outbox[s] \in Seq(Commit)
      BY <1>t DEF ReactionsTypes
    <2>3. q \in Seq(Commit)
      <3>1. [added |-> x, left |-> Channels] \in Commit
        BY DEF Commit
      <3> HIDE DEF Commit
      <3> QED BY <2>2, <3>1, AppendProperties
    <2>4. \A c \in Channels : LastSays(q, c, x) /\ Waits(q, c) # {}
      BY <2>2, AppendedSays
    <2> HIDE DEF q
    <2>5. ReactionsTypes'
      BY <1>t, <1>5, <2>1, <2>3 DEF ReactionsTypes
    <2>6. ASSUME NEW c \in Channels, NEW o \in Slots, Home \in rooms
          PROVE  <<c, o>> \in astray \/ Told(c, o)'
      <3>1. CASE o = s
        BY <1>t, <1>5, <2>1, <2>4, <3>1 DEF Told, ReactionsTypes
      <3>2. CASE o # s
        <4>1. outbox'[o] = outbox[o] /\ row'[o] = row[o]
          BY <1>t, <1>5, <2>1, <3>2 DEF ReactionsTypes
        <4> QED BY <1>5, <2>6, <4>1 DEF ReactionsInv, Told, Shows
      <3> QED BY <3>1, <3>2
    <2> QED BY <1>5, <2>5, <2>6 DEF ReactionsInv
  <1>6. ASSUME NEW s \in Slots, AddReaction(s), UNCHANGED files PROVE ReactionsInv'
    <2>1. row' = [row EXCEPT ![s] = "active"] /\ Announce(s, TRUE) /\ UNCHANGED <<rooms, shown, astray>>
      BY <1>6 DEF AddReaction, access
    <2>2. Shows(s)' = TRUE
      BY <1>t, <2>1 DEF Shows, ReactionsTypes
    <2> QED BY <1>t, <1>5, <2>1, <2>2 DEF ReactionsTypes
  <1>7. ASSUME NEW u \in Users, NEW s \in Slots, RemoveReaction(u, s), UNCHANGED files
        PROVE  ReactionsInv'
    <2>1. row' = [row EXCEPT ![s] = "deleted"] /\ Announce(s, FALSE) /\ UNCHANGED <<rooms, shown, astray>>
      BY <1>7 DEF RemoveReaction, access
    <2>2. Shows(s)' = FALSE
      BY <1>t, <2>1 DEF Shows, ReactionsTypes
    <2> QED BY <1>t, <1>5, <2>1, <2>2 DEF ReactionsTypes
  <1>8. ASSUME NEW s \in Slots, NEW c \in Channels, NEW i \in DOMAIN outbox[s],
               Publish(s, i, c) \/ PublishFails(s, i, c), UNCHANGED files
        PROVE  ReactionsInv'
    <2> DEFINE q == outbox[s]
               r == Settled(q, i, c)
    <2>1. /\ outbox' = [outbox EXCEPT ![s] = r] /\ c \in q[i].left
          /\ UNCHANGED <<rooms, row>> /\ astray \subseteq astray'
      BY <1>8 DEF Publish, PublishFails, Done, Settled, access
    <2>2. q \in Seq(Commit)
      BY <1>t DEF ReactionsTypes
    <2>3. i \in 1 .. Len(q)
      BY <2>2, LenProperties
    <2>4. r \in Seq(Commit)
      BY <2>2, <2>3, SettledIs
    <2>5. q[i].added \in BOOLEAN
      <3>1. q[i] \in Commit
        <4> HIDE DEF q, Commit
        <4> QED BY <2>2, <2>3, ElementOfSeq
      <3> QED BY <3>1 DEF Commit
    <2>6. \/ shown' = shown /\ <<c, s>> \in astray'
          \/ /\ shown' = [shown EXCEPT ![c][s] = q[i].added]
             /\ <<c, s>> \in astray' \/ ~ Overtakes(s, i, c)
      BY <1>8 DEF Publish, PublishFails
    <2> HIDE DEF r
    <2>7. ReactionsTypes'
      <3>1. outbox' \in [Slots -> Seq(Commit)]
        <4> HIDE DEF Commit
        <4> QED BY <1>t, <2>1, <2>4 DEF ReactionsTypes
      <3>2. shown' \in [Channels -> [Slots -> BOOLEAN]]
        <4> DEFINE x == q[i].added
        <4> HIDE DEF q, x
        <4>1. \/ shown' = shown
              \/ shown' = [shown EXCEPT ![c][s] = x]
          BY <2>6 DEF x
        <4>2. x \in BOOLEAN
          BY <2>5 DEF x
        <4>3. shown \in [Channels -> [Slots -> BOOLEAN]]
          BY <1>t DEF ReactionsTypes
        <4>4. [shown[c] EXCEPT ![s] = x] \in [Slots -> BOOLEAN]
          BY <4>2, <4>3, Zenon
        <4>5. shown' = shown \/ shown' = [shown EXCEPT ![c] = [shown[c] EXCEPT ![s] = x]]
          BY <4>1, Zenon
        <4> QED BY <4>3, <4>4, <4>5, Zenon
      <3> QED BY <1>t, <2>1, <3>1, <3>2 DEF ReactionsTypes
    <2>8. ASSUME NEW d \in Channels, NEW o \in Slots, Home \in rooms, <<d, o>> \notin astray'
          PROVE  Told(d, o)'
      <3>1. <<d, o>> \notin astray /\ Told(d, o)
        BY <2>1, <2>8 DEF ReactionsInv
      <3>2. Shows(o)' = Shows(o)
        BY <2>1 DEF Shows
      <3>3. CASE o # s
        <4>1. outbox'[o] = outbox[o] /\ shown'[d][o] = shown[d][o]
          BY <1>t, <2>1, <2>6, <3>3, ZenonT(90) DEF ReactionsTypes
        <4> QED BY <3>1, <3>2, <4>1 DEF Told
      <3>4. CASE o = s
        <4>1. LastSays(q, d, Shows(s))
          BY <3>1, <3>4 DEF Told
        <4>2. d = c => /\ \A j \in 1 .. (i - 1) : c \notin q[j].left
                       /\ shown'[c][s] = q[i].added
          <5>1. d = c => ~ Overtakes(s, i, c) /\ shown' = [shown EXCEPT ![c][s] = q[i].added]
            BY <2>6, <2>8, <3>4
          <5> QED BY <1>t, <5>1 DEF Overtakes, ReactionsTypes
        <4>3. d # c => shown'[d][s] = shown[d][s]
          BY <1>t, <2>6 DEF ReactionsTypes
        <4>4. /\ LastSays(r, d, Shows(s))
              /\ d # c /\ Waits(r, d) = {} => Waits(q, d) = {}
              /\ d = c /\ Waits(r, d) = {} => q[i].added = Shows(s)
          BY <2>1, <2>2, <2>3, <4>1, <4>2, SettledSays, SMTT(60) DEF r
        <4>5. outbox'[s] = r
          BY <1>t, <2>1 DEF ReactionsTypes
        <4>6. Waits(q, d) = {} => shown[d][s] = Shows(s)
          BY <3>1, <3>4 DEF Told
        <4> HIDE DEF q
        <4>7. Waits(r, d) = {} => shown'[d][s] = Shows(s)
          BY <4>2, <4>3, <4>4, <4>6
        <4> QED BY <3>2, <3>4, <4>4, <4>5, <4>7 DEF Told
      <3> QED BY <3>3, <3>4
    <2> QED BY <2>1, <2>7, <2>8 DEF ReactionsInv
  <1>9. CASE Restart
    <2>1. /\ outbox' = [s \in Slots |-> <<>>] /\ UNCHANGED <<rooms, row, shown>>
          /\ astray' = astray \cup {e \in Channels \X Slots :
                         \E i \in DOMAIN outbox[e[2]] : e[1] \in outbox[e[2]][i].left}
      BY <1>9 DEF Restart, RestartReactions, access
    <2>2. ReactionsTypes'
      BY <1>t, <2>1, EmptySeq DEF ReactionsTypes
    <2>3. ASSUME NEW c \in Channels, NEW s \in Slots, Home \in rooms, <<c, s>> \notin astray'
          PROVE  Told(c, s)'
      <3>1. Told(c, s) /\ Shows(s)' = Shows(s)
        BY <2>1, <2>3 DEF ReactionsInv, Shows
      <3>2. \A i \in DOMAIN outbox[s] : c \notin outbox[s][i].left
        BY <2>1, <2>3
      <3>3. Waits(outbox[s], c) = {}
        BY <1>t, <3>2, LenProperties DEF Waits, ReactionsTypes
      <3>4. outbox'[s] = <<>> /\ \A x : LastSays(<<>>, c, x)
        BY <2>1 DEF LastSays, Waits
      <3> QED BY <2>1, <3>1, <3>3, <3>4 DEF Told
    <2> QED BY <2>1, <2>2, <2>3 DEF ReactionsInv
  <1> QED BY <1>1, <1>2, <1>3, <1>4, <1>6, <1>7, <1>8, <1>9 DEF Next, ReactionsNext

\* There is no reaction at the start.
LEMMA ReactionsStart == Init => ReactionsInv
  <1> SUFFICES ASSUME Init PROVE ReactionsInv
    OBVIOUS
  <1>1. /\ row = [s \in Slots |-> "none"] /\ outbox = [s \in Slots |-> <<>>]
        /\ shown = [c \in Channels |-> [s \in Slots |-> FALSE]]
    BY DEF Init, ReactionsInit
  <1>2. ReactionsTypes
    BY <1>1, EmptySeq DEF ReactionsTypes
  <1>3. \A c \in Channels, s \in Slots : Told(c, s)
    BY <1>1 DEF Told, LastSays, Waits, Shows
  <1> QED BY <1>2, <1>3 DEF ReactionsInv

\* SubscribersAgree: through requests that publish out of turn, fail, or die
\* with the server, a channel that lost nothing and waits for nothing shows
\* what the table has (reactions.rs: add_reaction, remove_reaction and the
\* events they publish after the commit).
THEOREM SubscribersAreTold == Spec => []SubscribersAgree
  <1>1. ReactionsInv => SubscribersAgree
    <2> SUFFICES ASSUME ReactionsInv, Home \in rooms, NEW c \in Channels, NEW s \in Slots,
                        <<c, s>> \notin astray, \A i \in DOMAIN outbox[s] : c \notin outbox[s][i].left
                 PROVE  shown[c][s] = (row[s] = "active")
      BY DEF SubscribersAgree
    <2>1. Told(c, s) /\ ReactionsTypes
      BY DEF ReactionsInv
    <2>2. Waits(outbox[s], c) = {}
      BY <2>1, LenProperties DEF Waits, ReactionsTypes
    <2>3. shown[c][s] = Shows(s)
      BY <2>1, <2>2 DEF Told
    <2> QED BY <2>3 DEF Shows
  <1> QED BY ReactionsStart, <1>1, ReactionsStep, PTL DEF Spec

-----------------------------------------------------------------------------
(* Files: a row and its blob                                               *)

\* An operation works on one id, but for the two that remove; only a
\* migration checks what it has written, and it copies elsewhere; an upload is
\* a user's.
Shape(j) ==
  /\ j.at \notin {"idle", "drop", "unlink"} => \E f \in FileIds : j.ids = {f}
  /\ j.at \in {"fill", "rename"} => j.dst = "fs"
  /\ j.at \in {"read", "verify", "update"} => j.then = "verify"
  /\ j.then = "verify" => j.src # j.dst
  /\ j.at \in {"look", "insert"} \/ j.then = "insert" => j.by \in Users

Readable(f) == Stored(f) => disk[rows[f].backend][f] = "full"

\* What operation p has done for f so far, if nothing else touched f.
Holds(p, f) ==
  /\ jobs[p].at = "fill" => jobs[p].handle = "temp"
  /\ jobs[p].at = "rename" => temp[f] = "full"
  /\ jobs[p].at \in {"insert", "update"} => disk[jobs[p].dst][f] = "full"
  /\ jobs[p].at = "unlink" /\ Stored(f) => rows[f].backend # jobs[p].src

FilesInv ==
  /\ FilesTypeOK /\ rooms \subseteq Rooms
  /\ \A p \in Procs : Shape(jobs[p])
  /\ \A f \in FileIds \ raced :
       /\ \A p, q \in Procs : f \in jobs[p].ids /\ f \in jobs[q].ids => p = q
       /\ \A p \in Procs : f \in jobs[p].ids => Holds(p, f)
       /\ Readable(f)

Ats == {"idle", "look", "read", "create", "fill", "rename", "insert",
        "verify", "update", "drop", "unlink"}

\* A handler that runs nothing.
LEMMA IdleIs ==
  /\ Idle \in Jobs /\ Shape(Idle)
  /\ Idle.at = "idle" /\ Idle.ids = {}
  BY DEF Idle, Jobs, Shape, Backends

\* A move to a state other than the end keeps the rest of the job.
LEMMA GotoIs ==
  ASSUME jobs \in [Procs -> Jobs], NEW p \in Procs, NEW at \in Ats \cup {"end"}, Goto(p, at)
  PROVE  /\ jobs' \in [Procs -> Jobs]
         /\ \A q \in Procs \ {p} : jobs'[q] = jobs[q]
         /\ at = "end" => jobs'[p] = Idle
         /\ at # "end" => jobs'[p] = [jobs[p] EXCEPT !.at = at]
  <1>1. CASE at = "end"
    BY <1>1, IdleIs DEF Goto
  <1>2. CASE at # "end"
    <2>1. jobs' = [jobs EXCEPT ![p] = [jobs[p] EXCEPT !.at = at]]
      BY <1>2 DEF Goto
    <2>2. [jobs[p] EXCEPT !.at = at] \in Jobs
      BY <1>2 DEF Jobs, Ats
    <2> QED BY <1>2, <2>1, <2>2
  <1> QED BY <1>1, <1>2

\* The one attachment a handler works on.
LEMMA IdIs ==
  ASSUME NEW p, NEW f, jobs[p].ids = {f}
  PROVE  Id(p) = f
  BY DEF Id

\* Every step keeps the rows readable and the handlers well formed.
LEMMA FilesStep == FilesInv /\ [Next]_vars => FilesInv'
  <1> SUFFICES ASSUME FilesInv, [Next]_vars PROVE FilesInv'
    OBVIOUS
  <1>t. /\ rows \in [FileIds -> Rows] /\ disk \in [Backends -> [FileIds -> Contents]]
        /\ temp \in [FileIds -> Contents] /\ jobs \in [Procs -> Jobs]
        /\ serving \in Backends /\ raced \subseteq FileIds /\ rooms \subseteq Rooms
    BY DEF FilesInv, FilesTypeOK
  \* Rows that go, with no operation moving, leave everything as it was.
  <1>r. ASSUME rooms' \subseteq rooms, UNCHANGED <<disk, temp, jobs, raced>>, serving' \in Backends,
               rows' \in [FileIds -> Rows], \A f \in FileIds : rows'[f] \in {rows[f], NoRow}
        PROVE  FilesInv'
    <2>1. \A f \in FileIds : Stored(f)' => Stored(f) /\ rows'[f] = rows[f]
      BY <1>r DEF Stored
    <2>2. \A p \in Procs, f \in FileIds : Holds(p, f) => Holds(p, f)'
      BY <1>r, <2>1 DEF Holds
    <2>3. \A f \in FileIds : Readable(f) => Readable(f)'
      BY <1>r, <2>1 DEF Readable
    <2> QED BY <1>r, <1>t, <2>2, <2>3 DEF FilesInv, FilesTypeOK
  \* An operation that changes nothing of an id but its own, and has done what
  \* its new state promises, leaves the others as they were: those whose open
  \* file it moved or removed have raced with it.
  <1>l. ASSUME NEW p \in Procs, FilesTypeOK', rooms' \subseteq Rooms, raced' = raced,
               jobs'[p].ids \subseteq jobs[p].ids, Shape(jobs'[p]),
               \A q \in Procs \ {p} :
                 \/ jobs'[q] = jobs[q]
                 \/ /\ jobs[q].at = "fill" /\ jobs[q].ids \cap jobs[p].ids # {}
                    /\ \E h : jobs'[q] = [jobs[q] EXCEPT !.handle = h],
               \A f \in FileIds \ jobs[p].ids :
                 /\ rows'[f] = rows[f] /\ temp'[f] = temp[f]
                 /\ \A b \in Backends : disk'[b][f] = disk[b][f],
               \A f \in jobs[p].ids \ raced :
                 Readable(f)' /\ (f \in jobs'[p].ids => Holds(p, f)')
        PROVE  FilesInv'
    <2>1. \A q \in Procs : /\ jobs'[q].ids \subseteq jobs[q].ids
                           /\ q # p => jobs'[q].ids = jobs[q].ids /\ Shape(jobs'[q])
      <3> SUFFICES ASSUME NEW q \in Procs, q # p
                   PROVE  jobs'[q].ids = jobs[q].ids /\ Shape(jobs'[q])
        BY <1>l
      <3>1. jobs[q] \in Jobs /\ Shape(jobs[q])
        BY <1>t DEF FilesInv
      <3>2. CASE jobs'[q] = jobs[q]
        BY <3>1, <3>2
      <3>3. ASSUME NEW h, jobs'[q] = [jobs[q] EXCEPT !.handle = h]
            PROVE  jobs'[q].ids = jobs[q].ids /\ Shape(jobs'[q])
        BY <3>1, <3>3 DEF Shape, Jobs
      <3> QED BY <1>l, <3>2, <3>3, ZenonT(60)
    <2>2. ASSUME NEW f \in FileIds \ raced, NEW q \in Procs, f \in jobs'[q].ids
          PROVE  Holds(q, f)'
      <3>1. f \in jobs[q].ids
        BY <2>1, <2>2
      <3>2. CASE q = p
        BY <1>l, <2>2, <3>1, <3>2
      <3>3. CASE q # p
        <4>1. f \notin jobs[p].ids
          BY <3>1, <3>3 DEF FilesInv
        <4>2. jobs'[q] = jobs[q]
          <5> SUFFICES ASSUME jobs[q].at = "fill", jobs[q].ids \cap jobs[p].ids # {} PROVE FALSE
            BY <1>l, <3>3
          <5> QED BY <3>1, <4>1 DEF FilesInv, Shape
        <4>3. Holds(q, f) /\ jobs[q] \in Jobs
          BY <1>t, <3>1 DEF FilesInv
        <4>4. jobs[q].dst \in Backends
          BY <4>3 DEF Jobs
        <4>5. rows'[f] = rows[f] /\ temp'[f] = temp[f] /\ disk'[jobs[q].dst][f] = disk[jobs[q].dst][f]
          BY <1>l, <4>1, <4>4
        <4> QED BY <4>2, <4>3, <4>5 DEF Holds, Stored
      <3> QED BY <3>2, <3>3
    <2>3. ASSUME NEW f \in FileIds \ raced PROVE Readable(f)'
      <3>1. CASE f \in jobs[p].ids
        BY <1>l, <3>1
      <3>2. CASE f \notin jobs[p].ids
        <4>1. rows'[f] = rows[f] /\ (Stored(f) => rows[f].backend \in Backends)
          BY <1>l, <1>t, <3>2 DEF Stored, Rows
        <4>2. Stored(f) => disk'[rows[f].backend][f] = disk[rows[f].backend][f]
          BY <1>l, <3>2, <4>1
        <4>3. Readable(f)
          BY DEF FilesInv
        <4> QED BY <4>1, <4>2, <4>3 DEF Readable, Stored
      <3> QED BY <3>1, <3>2
    <2>4. \A f \in FileIds \ raced : \A q, q2 \in Procs :
            f \in jobs'[q].ids /\ f \in jobs'[q2].ids => q = q2
      BY <2>1 DEF FilesInv
    <2> QED BY <1>l, <2>1, <2>2, <2>3, <2>4 DEF FilesInv
  \* An operation begins alone on its ids, or they have raced.
  <1>b. ASSUME NEW p \in Procs, NEW job \in Jobs, Begin(p, job), Shape(job),
               job.at \notin {"fill", "rename", "insert", "update", "unlink"}
        PROVE  FilesInv'
    <2>1. /\ jobs' = [jobs EXCEPT ![p] = job] /\ jobs[p].ids = {}
          /\ raced' = raced \cup {f \in job.ids : \E q \in Procs : f \in jobs[q].ids}
          /\ UNCHANGED <<rooms, rows, disk, temp, serving>>
      BY <1>b, IdleIs DEF Begin, access
    <2>2. job.ids \subseteq FileIds
      BY DEF Jobs
    <2>3. FilesTypeOK'
      BY <1>t, <2>1, <2>2 DEF FilesTypeOK
    <2>4. ASSUME NEW f \in FileIds \ raced', NEW q \in Procs, f \in jobs'[q].ids
          PROVE  Holds(q, f)' /\ \A q2 \in Procs : f \in jobs'[q2].ids => q2 = q
      <3>1. f \notin raced
        BY <2>1
      <3>2. CASE q = p
        <4>1. jobs'[p] = job /\ \A o \in Procs : o # p => jobs'[o] = jobs[o]
          BY <1>t, <2>1
        <4> QED BY <1>b, <2>1, <2>4, <3>2, <4>1 DEF Holds
      <3>3. CASE q # p
        <4>1. jobs'[q] = jobs[q] /\ jobs'[p] = job
          BY <1>t, <2>1, <3>3
        <4>2. f \notin job.ids
          BY <2>1, <2>4, <4>1
        <4>3. \A q2 \in Procs : f \in jobs'[q2].ids => f \in jobs[q2].ids
          BY <1>t, <2>1, <4>1, <4>2
        <4>4. Holds(q, f)
          BY <2>4, <3>1, <4>1 DEF FilesInv
        <4> QED BY <2>1, <2>4, <3>1, <4>1, <4>3, <4>4 DEF FilesInv, Holds, Stored
      <3> QED BY <3>2, <3>3
    <2>5. \A f \in FileIds \ raced' : Readable(f)'
      BY <2>1 DEF FilesInv, Readable, Stored
    <2>6. \A q \in Procs : Shape(jobs'[q])
      BY <1>b, <1>t, <2>1 DEF FilesInv
    <2> QED BY <1>t, <2>1, <2>3, <2>4, <2>5, <2>6 DEF FilesInv
  <1>1. CASE UNCHANGED vars
    BY <1>1, <1>r, <1>t DEF vars, access, files
  <1>2. CASE Membership
    BY <1>2, <1>r, <1>t DEF Membership, Enter, Leave, files
  <1>3. ASSUME NEW r \in Rooms, DeleteRoom(r) PROVE FilesInv'
    <2>1. /\ rooms' \subseteq rooms /\ UNCHANGED <<disk, temp, jobs, raced>> /\ serving' \in Backends
          /\ rows' = [f \in FileIds |-> IF rows[f].room = r THEN NoRow ELSE rows[f]]
      BY <1>3, <1>t DEF DeleteRoom, DropRoom, CascadeFiles
    <2>2. NoRow \in Rows
      BY DEF Rows
    <2>3. rows' \in [FileIds -> Rows]
      BY <1>t, <2>1, <2>2
    <2> QED BY <1>r, <2>1, <2>3
  <1>4. CASE Restart
    <2>1. /\ jobs' = [p \in Procs |-> IF p = Cli THEN jobs[p] ELSE Idle]
          /\ serving' \in Backends /\ UNCHANGED <<rooms, rows, disk, temp, raced>>
      BY <1>4 DEF Restart, RestartFiles, access
    <2>2. FilesTypeOK'
      BY <1>t, <2>1, IdleIs DEF FilesTypeOK
    <2>3. \A p \in Procs : jobs'[p] = jobs[p] \/ jobs'[p] = Idle
      BY <2>1
    <2>4. ASSUME NEW f \in FileIds \ raced, NEW p \in Procs, f \in jobs'[p].ids
          PROVE  f \in jobs[p].ids /\ Holds(p, f)'
      <3>1. jobs'[p] = jobs[p]
        BY <2>3, <2>4, IdleIs
      <3> QED BY <2>1, <2>4, <3>1 DEF FilesInv, Holds, Stored
    <2>5. \A f \in FileIds \ raced : Readable(f)'
      BY <2>1 DEF FilesInv, Readable, Stored
    <2>6. \A p \in Procs : Shape(jobs'[p])
      BY <2>3, IdleIs DEF FilesInv
    <2> QED BY <1>t, <2>1, <2>2, <2>4, <2>5, <2>6 DEF FilesInv
  <1>5. CASE ReactionsNext /\ UNCHANGED files
    <2>1. rooms' = rooms
      BY <1>5 DEF ReactionsNext, AddReaction, RemoveReaction, Publish, PublishFails, access
    <2> QED BY <1>5, <1>r, <1>t, <2>1 DEF files
  <1>6. ASSUME NEW p \in Workers, NEW u \in Users, NEW f \in FileIds, NEW r \in rooms \cup {NoRoom},
               Upload(p, u, r, f)
        PROVE  FilesInv'
    <2> DEFINE job == [Idle EXCEPT !.at = "look", !.ids = {f}, !.room = r, !.by = u,
                                   !.src = serving, !.dst = serving, !.then = "insert"]
    <2>1. job \in Jobs /\ Shape(job) /\ job.at = "look"
      BY <1>t DEF Jobs, Idle, Shape
    <2>2. Begin(p, job) /\ p \in Procs
      BY <1>6 DEF Upload, Procs
    <2> HIDE DEF job
    <2> QED BY <1>b, <2>1, <2>2
  <1>7. ASSUME NEW p \in Workers, NEW ids \in SUBSET FileIds,
               Begin(p, [Idle EXCEPT !.at = "drop", !.ids = ids, !.src = serving])
        PROVE  FilesInv'
    <2> DEFINE job == [Idle EXCEPT !.at = "drop", !.ids = ids, !.src = serving]
    <2>1. job \in Jobs /\ Shape(job) /\ job.at = "drop"
      BY <1>t, IdleIs DEF Jobs, Idle, Shape
    <2>2. Begin(p, job) /\ p \in Procs
      BY <1>7 DEF Procs
    <2> HIDE DEF job
    <2> QED BY <1>b, <2>1, <2>2
  <1>8. ASSUME NEW f \in FileIds, NEW to \in Backends, NEW remove \in BOOLEAN, Move(f, to, remove)
        PROVE  FilesInv'
    <2> DEFINE job == [Idle EXCEPT !.at = "read", !.ids = {f}, !.src = rows[f].backend,
                                   !.dst = to, !.then = "verify", !.remove = remove]
    <2>1. rows[f].backend \in Backends /\ rows[f].backend # to
      BY <1>8, <1>t DEF Move, Stored, Rows
    <2>2. job \in Jobs /\ Shape(job) /\ job.at = "read"
      BY <2>1 DEF Jobs, Idle, Shape
    <2>3. Begin(Cli, job) /\ Cli \in Procs
      BY <1>8 DEF Move, Procs
    <2> HIDE DEF job
    <2> QED BY <1>b, <2>2, <2>3
  \* A move that writes nothing.
  <1>g. ASSUME NEW p \in Procs, NEW at \in Ats \cup {"end"}, Goto(p, at),
               UNCHANGED <<rooms, rows, disk, temp, serving, raced>>,
               at \in {"end", "create", "update"},
               at # "end" => Shape([jobs[p] EXCEPT !.at = at]),
               at = "update" => \A f \in jobs[p].ids : disk[jobs[p].dst][f] = "full"
        PROVE  FilesInv'
    <2>1. /\ jobs' \in [Procs -> Jobs]
          /\ \A q \in Procs \ {p} : jobs'[q] = jobs[q]
          /\ at = "end" => jobs'[p] = Idle
          /\ at # "end" => jobs'[p] = [jobs[p] EXCEPT !.at = at]
      BY <1>t, <1>g, GotoIs
    <2>2. FilesTypeOK'
      BY <1>t, <1>g, <2>1 DEF FilesTypeOK
    <2>3. jobs[p] \in Jobs
      BY <1>t
    <2>4. /\ jobs'[p].ids \subseteq jobs[p].ids /\ Shape(jobs'[p])
          /\ at # "end" => jobs'[p].at = at /\ jobs'[p].dst = jobs[p].dst
          /\ at = "end" => jobs'[p].at = "idle"
      BY <1>g, <2>1, <2>3, IdleIs DEF Jobs
    <2>5. \A f \in jobs[p].ids \ raced : Holds(p, f)'
      BY <1>g, <2>4 DEF Holds
    <2>6. jobs[p].ids \subseteq FileIds
      BY <2>3 DEF Jobs
    <2>7. \A f \in jobs[p].ids \ raced : Readable(f)'
      BY <1>g, <2>6 DEF FilesInv, Readable, Stored
    <2> QED BY <1>l, <1>g, <1>t, <2>1, <2>2, <2>4, <2>5, <2>7
  <1>9. ASSUME NEW p \in Procs, WriteFails(p) PROVE FilesInv'
    BY <1>9, <1>g DEF WriteFails, access
  <1>10. CASE KillCli
    BY <1>10, <1>g DEF KillCli, access, Procs
  <1>11. CASE ReadSource
    <2> DEFINE at == IF disk[jobs[Cli].src][Id(Cli)] = "full" THEN "create" ELSE "end"
    <2>1. Goto(Cli, at) /\ at \in {"create", "end"} /\ UNCHANGED <<rooms, rows, disk, temp, serving, raced>>
      BY <1>11 DEF ReadSource, access
    <2>2. Cli \in Procs /\ jobs[Cli].at = "read"
      BY <1>11 DEF ReadSource, Procs
    <2>3. jobs[Cli] \in Jobs /\ Shape(jobs[Cli])
      BY <1>t, <2>2 DEF FilesInv
    <2>4. Shape([jobs[Cli] EXCEPT !.at = "create"])
      BY <2>2, <2>3 DEF Shape, Jobs
    <2> HIDE DEF at
    <2> QED BY <1>g, <2>1, <2>2, <2>4 DEF Ats
  <1>12. CASE Verify
    <2> DEFINE at == IF disk[jobs[Cli].dst][Id(Cli)] = "full" THEN "update" ELSE "end"
    <2>1. Goto(Cli, at) /\ at \in {"update", "end"} /\ UNCHANGED <<rooms, rows, disk, temp, serving, raced>>
      BY <1>12 DEF Verify, access
    <2>2. Cli \in Procs /\ jobs[Cli].at = "verify"
      BY <1>12 DEF Verify, Procs
    <2>3. jobs[Cli] \in Jobs /\ Shape(jobs[Cli])
      BY <1>t, <2>2 DEF FilesInv
    <2>4. Shape([jobs[Cli] EXCEPT !.at = "update"])
      BY <2>2, <2>3 DEF Shape, Jobs
    <2>5. \A f \in jobs[Cli].ids : Id(Cli) = f
      BY <2>2, <2>3, IdIs DEF Shape
    <2>6. at = "update" => \A f \in jobs[Cli].ids : disk[jobs[Cli].dst][f] = "full"
      BY <2>5
    <2> HIDE DEF at
    <2> QED BY <1>g, <2>1, <2>2, <2>4, <2>6 DEF Ats
  <1>13. ASSUME NEW p \in Procs, Look(p) PROVE FilesInv'
    <2> DEFINE X == jobs'[p]
    <2>1. /\ jobs[p].at = "look" /\ jobs[p] \in Jobs /\ Shape(jobs[p])
          /\ UNCHANGED <<rooms, rows, disk, temp, serving, raced>>
      BY <1>13, <1>t DEF Look, access, FilesInv
    <2>2. /\ jobs' = [jobs EXCEPT ![p] = X]
          /\ \/ X = [jobs[p] EXCEPT !.at = "create"]
             \/ X = [jobs[p] EXCEPT !.at = "create", !.then = "end"]
             \/ X = Idle
      <3>1. \E Y : /\ jobs' = [jobs EXCEPT ![p] = Y]
                   /\ \/ Y = [jobs[p] EXCEPT !.at = "create"]
                      \/ Y = [jobs[p] EXCEPT !.at = "create", !.then = "end"]
                      \/ Y = Idle
        BY <1>13 DEF Look
      <3> QED BY <1>t, <3>1
    <2>3. X \in Jobs /\ Shape(X) /\ X.at \in {"create", "idle"} /\ X.ids \subseteq jobs[p].ids
      BY <2>1, <2>2, IdleIs, ZenonT(90) DEF Jobs, Shape
    <2> HIDE DEF X
    <2>4. FilesTypeOK' /\ jobs'[p] = X /\ \A q \in Procs \ {p} : jobs'[q] = jobs[q]
      BY <1>t, <2>1, <2>2, <2>3 DEF FilesTypeOK
    <2>5. \A f \in jobs[p].ids \ raced : Holds(p, f)' /\ f \in FileIds
      BY <2>1, <2>3, <2>4 DEF Holds, Jobs
    <2>6. \A f \in jobs[p].ids \ raced : Readable(f)'
      BY <2>1, <2>5 DEF FilesInv, Readable, Stored
    <2> QED BY <1>l, <1>t, <2>1, <2>3, <2>4, <2>5, <2>6
  \* What an operation on one id is, and what it may rely on.
  <1>s. ASSUME NEW p \in Procs, jobs[p].at \notin {"idle", "drop", "unlink"}
        PROVE  /\ jobs[p] \in Jobs /\ Shape(jobs[p])
               /\ Id(p) \in FileIds /\ jobs[p].ids = {Id(p)}
               /\ Id(p) \notin raced => Holds(p, Id(p)) /\ Readable(Id(p))
    <2>1. jobs[p] \in Jobs /\ Shape(jobs[p])
      BY <1>t DEF FilesInv
    <2>2. PICK f \in FileIds : jobs[p].ids = {f}
      BY <1>s, <2>1 DEF Shape
    <2>3. Id(p) = f
      BY <2>2, IdIs
    <2> QED BY <2>1, <2>2, <2>3 DEF FilesInv
  <1>14. ASSUME NEW p \in Procs, Insert(p) PROVE FilesInv'
    <2>f. PICK f \in FileIds : f = Id(p)
      BY <1>14, <1>s DEF Insert
    <2>j. PICK j \in Jobs : j = jobs[p]
      BY <1>14, <1>s DEF Insert
    <2> DEFINE new == [room |-> j.room, by |-> j.by, backend |-> j.dst]
    <2>1. /\ j \in Jobs /\ f \in FileIds /\ j.ids = {f}
          /\ f \notin raced => disk[j.dst][f] = "full" /\ Readable(f)
      BY <1>14, <1>s, <2>f, <2>j DEF Insert, Holds
    <2>2. /\ \/ rows' = rows
             \/ rows' = [rows EXCEPT ![f] = new]
          /\ Goto(p, "end") /\ UNCHANGED <<rooms, disk, temp, serving, raced>>
      BY <1>14, <2>f, <2>j DEF Insert, access
    <2>3. jobs' \in [Procs -> Jobs] /\ jobs'[p] = Idle /\ \A q \in Procs \ {p} : jobs'[q] = jobs[q]
      BY <1>t, <2>2, GotoIs
    <2>4. new \in Rows
      BY <1>14, <1>s, <2>1, <2>j DEF Insert, Jobs, Rows, Shape
    <2> HIDE DEF new
    <2>5. /\ rows' \in [FileIds -> Rows]
          /\ \A g \in FileIds \ j.ids : rows'[g] = rows[g]
          /\ rows'[f] \in {rows[f], new}
      BY <1>t, <2>1, <2>2, <2>4
    <2>6. FilesTypeOK'
      BY <1>t, <2>2, <2>3, <2>5 DEF FilesTypeOK
    <2>7. f \notin raced => Readable(f)'
      <3>1. new.backend = j.dst
        BY DEF new
      <3> QED BY <2>1, <2>2, <2>5, <3>1 DEF Readable, Stored
    <2> QED BY <1>l, <1>t, <2>1, <2>2, <2>3, <2>5, <2>6, <2>7, <2>j, IdleIs
  <1>15. ASSUME NEW p \in Procs, Create(p) PROVE FilesInv'
    <2>f. PICK f \in FileIds : f = Id(p)
      BY <1>15, <1>s DEF Create
    <2> DEFINE X == [jobs[p] EXCEPT !.at = "fill", !.handle = "temp"]
    <2>1. /\ jobs[p] \in Jobs /\ Shape(jobs[p]) /\ f \in FileIds /\ jobs[p].ids = {f}
          /\ f \notin raced => Readable(f)
      BY <1>15, <1>s, <2>f DEF Create
    <2>2. /\ jobs[p].at = "create" /\ jobs[p].dst = "fs" /\ temp' = [temp EXCEPT ![f] = "partial"]
          /\ jobs' = [jobs EXCEPT ![p] = X]
          /\ UNCHANGED <<rooms, rows, disk, serving, raced>>
      BY <1>15, <2>f DEF Create, access
    <2>3. X \in Jobs /\ Shape(X) /\ X.at = "fill" /\ X.handle = "temp" /\ X.ids = jobs[p].ids
      BY <2>1, <2>2 DEF Jobs, Shape
    <2> HIDE DEF X
    <2>4. jobs'[p] = X /\ \A q \in Procs \ {p} : jobs'[q] = jobs[q]
      BY <1>t, <2>2
    <2>5. "partial" \in Contents
      BY DEF Contents
    <2>6. FilesTypeOK' /\ \A g \in FileIds \ {f} : temp'[g] = temp[g]
      BY <1>t, <2>2, <2>3, <2>5 DEF FilesTypeOK
    <2>7. Holds(p, f)'
      BY <2>3, <2>4 DEF Holds
    <2>8. f \notin raced => Readable(f)'
      BY <2>1, <2>2 DEF Readable, Stored
    <2> QED BY <1>l, <1>t, <2>1, <2>2, <2>3, <2>4, <2>6, <2>7, <2>8
  <1>16. ASSUME NEW p \in Procs, Fill(p) PROVE FilesInv'
    <2>f. PICK f \in FileIds : f = Id(p)
      BY <1>16, <1>s DEF Fill
    <2>h. PICK h \in {"temp", "path", "gone"} : h = jobs[p].handle
      BY <1>16, <1>s DEF Fill, Jobs
    <2>1. /\ jobs[p] \in Jobs /\ Shape(jobs[p]) /\ f \in FileIds /\ jobs[p].ids = {f}
          /\ f \notin raced => Readable(f) /\ h = "temp"
      BY <1>16, <1>s, <2>f, <2>h DEF Fill, Holds
    <2>2. f \notin raced => \A q \in Procs \ {p} : f \notin jobs[q].ids
      BY <2>1 DEF FilesInv
    <2>3. PICK c \in {"partial", "full"} :
            /\ f \notin raced => c = "full"
            /\ temp' = IF h = "temp" THEN [temp EXCEPT ![f] = c] ELSE temp
            /\ disk' = IF h = "path" THEN [disk EXCEPT !["fs"][f] = c] ELSE disk
      BY <1>16, <2>2, <2>f, <2>h DEF Fill
    <2>4. jobs[p].at = "fill" /\ Goto(p, "rename") /\ UNCHANGED <<rooms, rows, serving, raced>>
      BY <1>16 DEF Fill, access
    <2>5. /\ jobs' \in [Procs -> Jobs] /\ jobs'[p] = [jobs[p] EXCEPT !.at = "rename"]
          /\ \A q \in Procs \ {p} : jobs'[q] = jobs[q]
      BY <1>t, <2>4, GotoIs DEF Ats
    <2>6. Shape(jobs'[p]) /\ jobs'[p].ids = jobs[p].ids /\ jobs'[p].at = "rename"
      BY <2>1, <2>4, <2>5 DEF Jobs, Shape
    <2>7. c \in Contents /\ "fs" \in Backends
      BY DEF Contents, Backends
    <2>8. FilesTypeOK' /\ \A g \in FileIds \ {f} : temp'[g] = temp[g] /\ \A b \in Backends : disk'[b][g] = disk[b][g]
      BY <1>t, <2>3, <2>4, <2>5, <2>7 DEF FilesTypeOK
    <2>9. f \notin raced => Holds(p, f)'
      BY <1>t, <2>1, <2>3, <2>6 DEF Holds
    <2>10. f \notin raced => Readable(f)'
      BY <2>1, <2>3, <2>4 DEF Readable, Stored
    <2> QED BY <1>l, <1>t, <2>1, <2>4, <2>5, <2>6, <2>8, <2>9, <2>10
  <1>17. ASSUME NEW p \in Procs, Rename(p) PROVE FilesInv'
    <2>f. PICK f \in FileIds : f = Id(p)
      BY <1>17, <1>s DEF Rename
    <2>1. /\ jobs[p] \in Jobs /\ Shape(jobs[p]) /\ jobs[p].ids = {f}
          /\ jobs[p].at = "rename" /\ jobs[p].dst = "fs" /\ "fs" \in Backends
          /\ f \notin raced => Readable(f) /\ temp[f] = "full"
      BY <1>17, <1>s, <2>f DEF Rename, Holds, Shape, Backends
    <2>2. UNCHANGED <<rooms, rows, serving, raced>>
      BY <1>17 DEF Rename, access
    <2>3. CASE temp[f] = "none"
      <3>1. Goto(p, "end") /\ UNCHANGED <<disk, temp>>
        BY <1>17, <2>3, <2>f DEF Rename
      <3> QED BY <1>g, <2>2, <3>1
    <2>4. CASE temp[f] # "none"
      <3> DEFINE X == IF jobs[p].then = "end" THEN Idle ELSE [jobs[p] EXCEPT !.at = jobs[p].then]
      <3>1. /\ disk' = [disk EXCEPT !["fs"][f] = temp[f]] /\ temp' = [temp EXCEPT ![f] = "none"]
            /\ jobs' = [Moved(jobs, p, f) EXCEPT ![p] =
                          IF jobs[p].then = "end" THEN Idle ELSE [@ EXCEPT !.at = jobs[p].then]]
        BY <1>17, <2>4, <2>f DEF Rename
      <3>2. /\ Moved(jobs, p, f) \in [Procs -> Jobs] /\ Moved(jobs, p, f)[p] = jobs[p]
            /\ \A q \in Procs \ {p} :
                 \/ Moved(jobs, p, f)[q] = jobs[q]
                 \/ /\ f \in jobs[q].ids /\ jobs[q].at = "fill"
                    /\ \E h : Moved(jobs, p, f)[q] = [jobs[q] EXCEPT !.handle = h]
        <4> DEFINE h(q) == IF jobs[q].handle = "temp" THEN "path" ELSE "gone"
        <4>1. \A q \in Procs :
                Moved(jobs, p, f)[q] = IF q # p /\ f \in jobs[q].ids /\ jobs[q].at = "fill"
                                       THEN [jobs[q] EXCEPT !.handle = h(q)] ELSE jobs[q]
          BY DEF Moved
        <4>2. \A q \in Procs : [jobs[q] EXCEPT !.handle = h(q)] \in Jobs
          BY <1>t, ZenonT(90) DEF Jobs
        <4> HIDE DEF h
        <4>3. \A q \in Procs : Moved(jobs, p, f)[q] \in Jobs
          BY <1>t, <4>1, <4>2
        <4>4. Moved(jobs, p, f) \in [Procs -> Jobs]
          BY <4>3 DEF Moved
        <4> QED BY <4>1, <4>4
      <3>3. X \in Jobs /\ Shape(X) /\ X.ids \subseteq jobs[p].ids /\ X.dst \in Backends
            /\ X.at \in {"insert", "verify", "idle"} /\ (X.at = "insert" => X.dst = "fs")
        BY <2>1, IdleIs DEF Jobs, Shape, Backends
      <3>4. jobs' \in [Procs -> Jobs] /\ jobs'[p] = X
            /\ \A q \in Procs \ {p} : jobs'[q] = Moved(jobs, p, f)[q]
        BY <3>1, <3>2, <3>3
      <3> HIDE DEF X
      <3>5. disk' \in [Backends -> [FileIds -> Contents]] /\ temp' \in [FileIds -> Contents]
        <4>1. temp[f] \in Contents /\ "none" \in Contents
          BY <1>t DEF Contents
        <4> QED BY <1>t, <2>1, <3>1, <4>1
      <3>6. FilesTypeOK'
        BY <1>t, <2>2, <3>4, <3>5 DEF FilesTypeOK
      <3>7. \A g \in FileIds \ {f} : temp'[g] = temp[g] /\ \A b \in Backends : disk'[b][g] = disk[b][g]
        BY <1>t, <3>1
      <3>8. f \notin raced => disk'["fs"][f] = "full" /\ \A b \in Backends \ {"fs"} : disk'[b][f] = disk[b][f]
        BY <1>t, <2>1, <3>1
      <3>9. f \notin raced => Holds(p, f)'
        BY <3>3, <3>4, <3>8 DEF Holds
      <3>10. f \notin raced => Readable(f)'
        <4>1. Stored(f) => rows[f].backend \in Backends
          BY <1>t DEF Stored, Rows
        <4> QED BY <2>1, <2>2, <3>8, <4>1 DEF Readable, Stored
      <3>11. \A q \in Procs \ {p} :
               \/ jobs'[q] = jobs[q]
               \/ /\ jobs[q].at = "fill" /\ jobs[q].ids \cap jobs[p].ids # {}
                  /\ \E h : jobs'[q] = [jobs[q] EXCEPT !.handle = h]
        BY <2>1, <3>2, <3>4, SMTT(60)
      <3>12. Shape(jobs'[p]) /\ jobs'[p].ids \subseteq jobs[p].ids
        BY <3>3, <3>4
      <3> QED BY <1>l, <1>t, <2>1, <2>2, <3>6, <3>7, <3>9, <3>10, <3>11, <3>12
    <2> QED BY <2>3, <2>4
  <1>18. ASSUME NEW p \in Procs, Put(p) PROVE FilesInv'
    <2>f. PICK f \in FileIds : f = Id(p)
      BY <1>18, <1>s DEF Put
    <2>n. PICK next \in {"insert", "verify", "end"} : next = jobs[p].then
      BY <1>18, <1>s DEF Put, Jobs
    <2>1. /\ jobs[p] \in Jobs /\ Shape(jobs[p]) /\ jobs[p].ids = {f}
          /\ jobs[p].at = "create" /\ jobs[p].dst = "s3"
          /\ f \notin raced => Readable(f)
      BY <1>18, <1>s, <2>f DEF Put
    <2>2. /\ disk' = [disk EXCEPT !["s3"][f] = "full"] /\ Goto(p, next)
          /\ UNCHANGED <<rooms, rows, temp, serving, raced>>
      BY <1>18, <2>f, <2>n DEF Put, access
    <2>3. /\ jobs' \in [Procs -> Jobs] /\ \A q \in Procs \ {p} : jobs'[q] = jobs[q]
          /\ next = "end" => jobs'[p] = Idle
          /\ next # "end" => jobs'[p] = [jobs[p] EXCEPT !.at = next]
      BY <1>t, <2>2, GotoIs DEF Ats
    <2>4. /\ Shape(jobs'[p]) /\ jobs'[p].ids \subseteq jobs[p].ids
          /\ jobs'[p].at \in {"insert", "verify", "idle"}
          /\ jobs'[p].at = "insert" => jobs'[p].dst = "s3"
      BY <2>1, <2>3, <2>n, IdleIs DEF Jobs, Shape
    <2>5. "full" \in Contents /\ "s3" \in Backends
      BY DEF Contents, Backends
    <2>6. /\ FilesTypeOK' /\ disk'["s3"][f] = "full"
          /\ \A b \in Backends \ {"s3"} : disk'[b][f] = disk[b][f]
          /\ \A g \in FileIds \ {f} : \A b \in Backends : disk'[b][g] = disk[b][g]
      BY <1>t, <2>2, <2>3, <2>5 DEF FilesTypeOK
    <2>7. Holds(p, f)'
      BY <2>4, <2>6 DEF Holds
    <2>8. f \notin raced => Readable(f)'
      <3>1. Stored(f) => rows[f].backend \in Backends
        BY <1>t DEF Stored, Rows
      <3> QED BY <2>1, <2>2, <2>6, <3>1 DEF Readable, Stored
    <2> QED BY <1>l, <1>t, <2>1, <2>2, <2>3, <2>4, <2>6, <2>7, <2>8
  <1>19. ASSUME NEW p \in Procs, Drop(p) PROVE FilesInv'
    <2>1. /\ jobs[p].at = "drop" /\ jobs[p] \in Jobs /\ Shape(jobs[p])
          /\ rows' = [f \in FileIds |-> IF f \in jobs[p].ids THEN NoRow ELSE rows[f]]
          /\ Goto(p, "unlink") /\ UNCHANGED <<rooms, disk, temp, serving, raced>>
      BY <1>19, <1>t DEF Drop, access, FilesInv
    <2>2. /\ jobs' \in [Procs -> Jobs] /\ \A q \in Procs \ {p} : jobs'[q] = jobs[q]
          /\ jobs'[p] = [jobs[p] EXCEPT !.at = "unlink"]
      BY <1>t, <2>1, GotoIs DEF Ats
    <2>3. NoRow \in Rows
      BY DEF Rows
    <2>4. FilesTypeOK'
      BY <1>t, <2>1, <2>2, <2>3 DEF FilesTypeOK
    <2>5. Shape(jobs'[p]) /\ jobs'[p].ids = jobs[p].ids /\ jobs'[p].at = "unlink"
          /\ jobs[p].ids \subseteq FileIds
      BY <2>1, <2>2 DEF Shape, Jobs
    <2>6. \A f \in jobs[p].ids : rows'[f] = NoRow
      BY <2>1, <2>5
    <2>7. \A f \in jobs[p].ids \ raced : Readable(f)' /\ Holds(p, f)'
      BY <2>5, <2>6 DEF Readable, Holds, Stored
    <2> QED BY <1>l, <1>t, <2>1, <2>2, <2>4, <2>5, <2>7
  <1>20. CASE Update
    <2>p. PICK p \in Procs : p = Cli
      BY DEF Procs
    <2>f. PICK f \in FileIds : f = Id(p)
      BY <1>20, <1>s, <2>p DEF Update
    <2>d. PICK dst \in Backends : dst = jobs[p].dst
      BY <1>20, <1>s, <2>p DEF Update, Jobs
    <2>a. PICK at \in {"unlink", "end"} : at = IF jobs[p].remove THEN "unlink" ELSE "end"
      OBVIOUS
    <2>1. /\ jobs[p] \in Jobs /\ Shape(jobs[p]) /\ jobs[p].ids = {f}
          /\ jobs[p].at = "update" /\ jobs[p].src # dst
          /\ f \notin raced => Readable(f) /\ disk[dst][f] = "full"
      BY <1>20, <1>s, <2>p, <2>f, <2>d DEF Update, Holds, Shape
    <2>2. /\ rows' = IF Stored(f) THEN [rows EXCEPT ![f].backend = dst] ELSE rows
          /\ Goto(p, at) /\ UNCHANGED <<rooms, disk, temp, serving, raced>>
      BY <1>20, <2>p, <2>f, <2>d, <2>a DEF Update, access
    <2>3. /\ jobs' \in [Procs -> Jobs] /\ \A q \in Procs \ {p} : jobs'[q] = jobs[q]
          /\ at = "end" => jobs'[p] = Idle
          /\ at # "end" => jobs'[p] = [jobs[p] EXCEPT !.at = at]
      BY <1>t, <2>2, GotoIs DEF Ats
    <2>4. /\ Shape(jobs'[p]) /\ jobs'[p].ids \subseteq jobs[p].ids
          /\ jobs'[p].at \in {"unlink", "idle"}
          /\ jobs'[p].at = "unlink" => jobs'[p].src = jobs[p].src
      BY <2>1, <2>3, IdleIs DEF Jobs, Shape
    <2>5. [rows[f] EXCEPT !.backend = dst] \in Rows \/ ~ Stored(f)
      BY <1>t DEF Rows, Stored
    <2>6. /\ rows' \in [FileIds -> Rows] /\ \A g \in FileIds \ {f} : rows'[g] = rows[g]
          /\ Stored(f) => rows'[f].backend = dst
          /\ ~ Stored(f) => rows'[f] = rows[f]
      <3>1. CASE Stored(f)
        <4>1. rows' = [rows EXCEPT ![f] = [rows[f] EXCEPT !.backend = dst]]
          BY <2>2, <3>1
        <4>2. [rows[f] EXCEPT !.backend = dst].backend = dst
          BY <1>t, <3>1 DEF Rows, Stored
        <4> QED BY <1>t, <2>5, <3>1, <4>1, <4>2
      <3>2. CASE ~ Stored(f)
        BY <1>t, <2>2, <3>2
      <3> QED BY <3>1, <3>2
    <2>7. FilesTypeOK'
      BY <1>t, <2>2, <2>3, <2>6 DEF FilesTypeOK
    <2>8. Stored(f)' => rows'[f].backend = dst
      BY <2>6 DEF Stored
    <2>9. f \notin raced => Readable(f)' /\ Holds(p, f)'
      BY <2>1, <2>2, <2>4, <2>8 DEF Readable, Holds
    <2> QED BY <1>l, <1>t, <2>1, <2>2, <2>3, <2>4, <2>6, <2>7, <2>9
  <1>21. ASSUME NEW p \in Procs, Unlink(p) PROVE FilesInv'
    <2>1. /\ jobs[p] \in Jobs /\ Shape(jobs[p]) /\ jobs[p].at = "unlink"
          /\ UNCHANGED <<rooms, rows, temp, serving, raced>>
      BY <1>21, <1>t DEF Unlink, access, FilesInv
    <2>b. PICK b \in Backends : b = jobs[p].src
      BY <2>1 DEF Jobs
    <2>f. PICK f \in FileIds :
            /\ f \in jobs[p].ids
            /\ \E c \in {"none", disk[b][f]} : disk' = [disk EXCEPT ![b][f] = c]
            /\ jobs' = [Unlinked(jobs, p, f, b) EXCEPT ![p] =
                          IF jobs[p].ids \ {f} = {} THEN Idle
                          ELSE [@ EXCEPT !.ids = jobs[p].ids \ {f}]]
      <3>1. jobs[p].ids \subseteq FileIds
        BY <2>1 DEF Jobs
      <3> QED BY <1>21, <2>b, <3>1 DEF Unlink
    <2>2. PICK c \in {"none", disk[b][f]} : disk' = [disk EXCEPT ![b][f] = c]
      BY <2>f
    <2> DEFINE X == IF jobs[p].ids \ {f} = {} THEN Idle ELSE [jobs[p] EXCEPT !.ids = jobs[p].ids \ {f}]
    <2>3. /\ Unlinked(jobs, p, f, b) \in [Procs -> Jobs] /\ Unlinked(jobs, p, f, b)[p] = jobs[p]
          /\ \A q \in Procs \ {p} :
               \/ Unlinked(jobs, p, f, b)[q] = jobs[q]
               \/ /\ f \in jobs[q].ids /\ jobs[q].at = "fill"
                  /\ \E h : Unlinked(jobs, p, f, b)[q] = [jobs[q] EXCEPT !.handle = h]
      <3>1. \A q \in Procs : [jobs[q] EXCEPT !.handle = "gone"] \in Jobs
        BY <1>t, ZenonT(90) DEF Jobs
      <3>2. \A q \in Procs :
              \/ Unlinked(jobs, p, f, b)[q] = jobs[q]
              \/ /\ q # p /\ f \in jobs[q].ids /\ jobs[q].at = "fill"
                 /\ Unlinked(jobs, p, f, b)[q] = [jobs[q] EXCEPT !.handle = "gone"]
        BY DEF Unlinked
      <3>3. \A q \in Procs : Unlinked(jobs, p, f, b)[q] \in Jobs
        BY <1>t, <3>1, <3>2
      <3>4. Unlinked(jobs, p, f, b) \in [Procs -> Jobs]
        BY <3>3 DEF Unlinked
      <3> QED BY <3>2, <3>4
    <2>4. X \in Jobs /\ Shape(X) /\ X.ids \subseteq jobs[p].ids \ {f} /\ X.at \in {"unlink", "idle"}
          /\ (X.at = "unlink" => X.src = jobs[p].src)
      BY <2>1, IdleIs DEF Jobs, Shape
    <2>5. jobs' \in [Procs -> Jobs] /\ jobs'[p] = X
          /\ \A q \in Procs \ {p} : jobs'[q] = Unlinked(jobs, p, f, b)[q]
      BY <2>3, <2>4, <2>f
    <2>6. c \in Contents
      BY <1>t DEF Contents
    <2> HIDE DEF X
    <2>7. /\ FilesTypeOK'
          /\ \A g \in FileIds, d \in Backends : (d = b /\ g = f) \/ disk'[d][g] = disk[d][g]
      BY <1>t, <2>1, <2>2, <2>5, <2>6 DEF FilesTypeOK
    <2>8. \A g \in jobs[p].ids \ raced : g \in FileIds /\ Holds(p, g) /\ Readable(g)
      BY <2>1 DEF FilesInv, Jobs
    <2>9. \A g \in jobs[p].ids \ raced : g \in jobs'[p].ids => Holds(p, g)'
      BY <2>1, <2>4, <2>5, <2>8 DEF Holds, Stored
    <2>10. ASSUME NEW g \in jobs[p].ids \ raced PROVE Readable(g)'
      <3>1. Stored(g) => rows[g].backend \in Backends /\ rows[g].backend # b
        BY <1>t, <2>1, <2>8, <2>b DEF Stored, Rows, Holds
      <3> QED BY <2>1, <2>7, <2>8, <3>1 DEF Readable, Stored
    <2>11. \A q \in Procs \ {p} :
             \/ jobs'[q] = jobs[q]
             \/ /\ jobs[q].at = "fill" /\ jobs[q].ids \cap jobs[p].ids # {}
                /\ \E h : jobs'[q] = [jobs[q] EXCEPT !.handle = h]
      BY <2>3, <2>5, <2>f
    <2>12. \A g \in FileIds \ jobs[p].ids : \A d \in Backends : disk'[d][g] = disk[d][g]
      BY <2>7, <2>f
    <2> QED BY <1>l, <1>t, <2>1, <2>4, <2>5, <2>7, <2>9, <2>10, <2>11, <2>12
  <1>22. CASE FilesNext
    <2>1. ASSUME NEW p \in Workers, NEW u \in Users, NEW f \in FileIds, Delete(p, u, f) PROVE FilesInv'
      BY <1>7, <2>1 DEF Delete
    <2>2. ASSUME NEW p \in Workers, NEW r \in rooms, NEW due \in SUBSET FileIds, Prune(p, r, due)
          PROVE  FilesInv'
      BY <1>7, <2>2 DEF Prune
    <2> QED BY <1>22, <1>6, <1>8, <1>9, <1>10, <1>11, <1>12, <1>13, <1>14, <1>15, <1>16, <1>17, <1>18,
               <1>19, <1>20, <1>21, <2>1, <2>2 DEF FilesNext
  <1> QED BY <1>1, <1>2, <1>3, <1>4, <1>5, <1>22 DEF Next

\* There is no attachment at the start.
LEMMA FilesStart == Init => FilesInv
  <1> SUFFICES ASSUME Init PROVE FilesInv
    OBVIOUS
  <1>1. /\ rows = [f \in FileIds |-> NoRow] /\ jobs = [p \in Procs |-> Idle] /\ raced = {}
        /\ disk = [b \in Backends |-> [f \in FileIds |-> "none"]]
        /\ temp = [f \in FileIds |-> "none"] /\ serving \in Backends /\ rooms \subseteq Rooms
    BY DEF Init, FilesInit, AccessInit
  <1>2. NoRow \in Rows /\ "none" \in Contents
    BY DEF Rows, Contents
  <1>3. FilesTypeOK
    BY <1>1, <1>2, IdleIs DEF FilesTypeOK
  <1>4. \A f \in FileIds : Readable(f)
    BY <1>1 DEF Readable, Stored
  <1>5. \A p \in Procs : Shape(jobs[p]) /\ jobs[p].ids = {}
    BY <1>1, IdleIs
  <1> QED BY <1>1, <1>3, <1>4, <1>5 DEF FilesInv

\* RowReadable: while no two operations on an id overlap, a row never names a
\* blob its backend does not hold whole, whatever is killed between two steps
\* (attachments.rs: upload, delete; storage.rs: write; the migration command).
THEOREM RowsAreReadable == Spec => []RowReadable
  <1>1. FilesInv => RowReadable
    BY DEF FilesInv, RowReadable, Readable
  <1> QED BY FilesStart, <1>1, FilesStep, PTL DEF Spec

-----------------------------------------------------------------------------
(* The types of both                                                       *)

\* What publishes is never longer than what was there, and a request that has
\* published everywhere is gone.
LEMMA SettledFits ==
  ASSUME NEW q \in Seq(Commit), NEW i \in 1 .. Len(q), NEW c,
         \A k \in 1 .. Len(q) : q[k].left # {}
  PROVE  LET r == Settled(q, i, c)
         IN  Len(r) <= Len(q) /\ \A k \in 1 .. Len(r) : r[k].left # {}
  <1> DEFINE left == q[i].left \ {c}
             r == Settled(q, i, c)
  <1>1. Len(q) \in Nat /\ i \in Nat /\ \A k \in 1 .. Len(q) : q[k] \in Commit
    BY LenProperties, ElementOfSeq
  <1>2. CASE left = {}
    <2>1. r = RemoveAt(q, i)
      BY <1>2 DEF Settled
    <2>2. /\ Len(r) = Len(q) - 1
          /\ \A k \in 1 .. (Len(q) - 1) : r[k] = IF k < i THEN q[k] ELSE q[k + 1]
      BY <2>1, RemoveAtIs
    <2> HIDE DEF r
    <2>3. ASSUME NEW k \in 1 .. (Len(q) - 1) PROVE r[k].left # {}
      <3>1. k \in 1 .. Len(q) /\ k + 1 \in 1 .. Len(q)
        BY <1>1
      <3>2. r[k] = q[k] \/ r[k] = q[k + 1]
        BY <2>2
      <3>3. q[k].left # {} /\ q[k + 1].left # {}
        BY <3>1
      <3> QED BY <3>2, <3>3
    <2>4. Len(r) <= Len(q)
      BY <1>1, <2>2
    <2>5. \A k \in 1 .. Len(r) : r[k].left # {}
      BY <2>2, <2>3
    <2> QED BY <2>4, <2>5 DEF r
  <1>3. CASE left # {}
    <2> DEFINE e == [q[i] EXCEPT !.left = left]
    <2>1. r = [q EXCEPT ![i] = e]
      BY <1>3 DEF Settled
    <2>2. e \in Commit /\ e.left = left
      BY <1>1 DEF Commit
    <2> HIDE DEF r, e, left
    <2>3. Len(r) = Len(q) /\ \A k \in 1 .. Len(q) : r[k] = IF k = i THEN e ELSE q[k]
      BY <1>1, <2>1, <2>2, ExceptSeq
    <2>4. \A k \in 1 .. Len(q) : r[k].left # {}
      BY <1>3, <2>2, <2>3
    <2> QED BY <1>1, <2>3, <2>4 DEF r
  <1> QED BY <1>2, <1>3

\* Members are of rooms that exist, reactions and outboxes keep their limits,
\* and a request stays in its outbox only while it has a channel to publish on.
ContentRest ==
  /\ members \subseteq rooms \X Users
  /\ IsFiniteSet(Active) /\ Cardinality(Active) <= MaxReactions
  /\ \A s \in Slots : /\ Len(outbox[s]) <= MaxPending
                      /\ \A i \in 1 .. Len(outbox[s]) : outbox[s][i].left # {}
  /\ astray \subseteq Channels \X Slots

\* Every step keeps them.
LEMMA ContentRestStep == ReactionsInv /\ ContentRest /\ [Next]_vars => ContentRest'
  <1> SUFFICES ASSUME ReactionsInv, ContentRest, [Next]_vars PROVE ContentRest'
    OBVIOUS
  <1>t. /\ row \in [Slots -> {"none", "active", "deleted"}]
        /\ outbox \in [Slots -> Seq(Commit)]
        /\ MaxReactions \in Nat /\ MaxPending \in Nat
    BY ReactionsAssumption DEF ReactionsInv, ReactionsTypes
  <1>r. ASSUME members' \subseteq rooms' \X Users, UNCHANGED reactions PROVE ContentRest'
    <2>1. Active' = Active
      BY <1>r DEF reactions, Active
    <2> QED BY <1>r, <2>1 DEF reactions, ContentRest
  <1>1. CASE UNCHANGED vars
    BY <1>1, <1>r DEF vars, access, ContentRest
  <1>2. CASE Membership
    <2>1. PICK r \in Rooms, u \in Users : Enter(r, u) \/ Leave(r, u)
      BY <1>2 DEF Membership
    <2>2. members' \subseteq rooms' \X Users
      BY <2>1 DEF Enter, Leave, ContentRest
    <2> QED BY <1>2, <1>r, <2>2 DEF Membership
  <1>3. ASSUME NEW r \in Rooms, DeleteRoom(r) PROVE ContentRest'
    <2>1. /\ rooms' = rooms \ {r} /\ members' = {m \in members : m[1] # r}
          /\ UNCHANGED <<outbox, shown, astray>>
      BY <1>3 DEF DeleteRoom, DropRoom, CascadeReactions
    <2>2. members' \subseteq rooms' \X Users
      BY <2>1 DEF ContentRest
    <2>3. CASE r = Home
      <3>1. Active' = {}
        BY <1>3, <2>3 DEF DeleteRoom, CascadeReactions, Active
      <3>2. IsFiniteSet(Active') /\ Cardinality(Active') <= MaxReactions
        BY <1>t, <3>1, FS_EmptySet
      <3> QED BY <2>1, <2>2, <3>2 DEF ContentRest
    <2>4. CASE r # Home
      <3>1. row' = row
        BY <1>3, <2>4 DEF DeleteRoom, CascadeReactions
      <3> QED BY <1>r, <2>1, <2>2, <3>1 DEF reactions
    <2> QED BY <2>3, <2>4
  <1>4. CASE FilesNext /\ UNCHANGED reactions
    <2>1. UNCHANGED access
      BY <1>4 DEF FilesNext, Upload, Delete, Prune, Begin, Look, Insert, Create, Fill, Rename, Put,
         WriteFails, Drop, Unlink, Move, ReadSource, Verify, Update, KillCli, access
    <2>2. members' \subseteq rooms' \X Users
      BY <2>1 DEF access, ContentRest
    <2>3. UNCHANGED reactions
      BY <1>4
    <2> QED BY <1>r, <2>2, <2>3, ZenonT(60)
  \* A request that commits.
  <1>5. ASSUME NEW s \in Slots, NEW x \in BOOLEAN, Len(outbox[s]) < MaxPending, Announce(s, x),
               IsFiniteSet(Active'), Cardinality(Active') <= MaxReactions,
               UNCHANGED <<rooms, members, astray>>
        PROVE  ContentRest'
    <2> DEFINE e == [added |-> x, left |-> Channels]
               q == Append(outbox[s], e)
    <2>1. e \in Commit /\ e.left # {}
      BY ReactionsAssumption DEF Commit
    <2>2. outbox' = [outbox EXCEPT ![s] = q]
      BY <1>5 DEF Announce
    <2> HIDE DEF e, Commit
    <2>3. outbox[s] \in Seq(Commit) /\ Len(outbox[s]) \in Nat
      BY <1>t, LenProperties
    <2>4. /\ Len(q) = Len(outbox[s]) + 1
          /\ \A k \in 1 .. Len(q) : q[k] = IF k <= Len(outbox[s]) THEN outbox[s][k] ELSE e
      BY <2>1, <2>3, AppendProperties
    <2> HIDE DEF q
    <2>5. Len(q) <= MaxPending
      BY <1>t, <1>5, <2>3, <2>4
    <2>o. \A k \in 1 .. Len(outbox[s]) : outbox[s][k].left # {}
      BY DEF ContentRest
    <2>k. ASSUME NEW k \in 1 .. Len(q) PROVE q[k].left # {}
      <3>1. CASE k <= Len(outbox[s])
        <4>1. q[k] = outbox[s][k] /\ k \in 1 .. Len(outbox[s])
          BY <2>3, <2>4, <3>1
        <4> QED BY <2>o, <4>1
      <3>2. CASE ~ (k <= Len(outbox[s]))
        BY <2>1, <2>4, <3>2
      <3> QED BY <3>1, <3>2
    <2>6. \A o \in Slots : outbox'[o] = IF o = s THEN q ELSE outbox[o]
      BY <1>t, <2>2
    <2> QED BY <1>5, <2>5, <2>k, <2>6 DEF ContentRest
  <1>6. ASSUME NEW s \in Slots, AddReaction(s) PROVE ContentRest'
    <2>1. Active' = Active \cup {s} /\ Cardinality(Active) < MaxReactions
      BY <1>t, <1>6 DEF AddReaction, Active
    <2>2. /\ IsFiniteSet(Active) /\ Cardinality(Active) \in Nat
          /\ IsFiniteSet(Active') /\ Cardinality(Active') <= Cardinality(Active) + 1
      <3> DEFINE A == Active
      <3>1. IsFiniteSet(A)
        BY DEF ContentRest
      <3> HIDE DEF A
      <3>2. Cardinality(A) \in Nat
        BY <3>1, FS_CardinalityType
      <3>3. IsFiniteSet(A \cup {s})
            /\ (Cardinality(A \cup {s}) = Cardinality(A) \/ Cardinality(A \cup {s}) = Cardinality(A) + 1)
        BY <3>1, FS_AddElement
      <3>4. Cardinality(A \cup {s}) <= Cardinality(A) + 1
        BY <3>2, <3>3
      <3> QED BY <2>1, <3>1, <3>2, <3>3, <3>4 DEF A
    <2>3. Cardinality(Active') \in Nat
      BY <2>2, FS_CardinalityType
    <2>4. Cardinality(Active') <= MaxReactions
      BY <1>t, <2>1, <2>2, <2>3
    <2> QED BY <1>5, <1>6, <2>2, <2>4 DEF AddReaction, access
  <1>7. ASSUME NEW u \in Users, NEW s \in Slots, RemoveReaction(u, s) PROVE ContentRest'
    <2>1. Active' \subseteq Active
      BY <1>t, <1>7 DEF RemoveReaction, Active
    <2>2. /\ IsFiniteSet(Active') /\ Cardinality(Active') <= Cardinality(Active)
          /\ Cardinality(Active') \in Nat /\ Cardinality(Active) \in Nat
      BY <2>1, FS_Subset, FS_CardinalityType DEF ContentRest
    <2>3. Cardinality(Active') <= MaxReactions
      BY <1>t, <2>2 DEF ContentRest
    <2> QED BY <1>5, <1>7, <2>2, <2>3 DEF RemoveReaction, access
  <1>8. ASSUME NEW s \in Slots, NEW c \in Channels, NEW i \in DOMAIN outbox[s],
               Publish(s, i, c) \/ PublishFails(s, i, c)
        PROVE  ContentRest'
    <2> DEFINE q == outbox[s]
               r == Settled(q, i, c)
    <2>1. /\ outbox' = [outbox EXCEPT ![s] = r] /\ UNCHANGED <<rooms, members, row>>
          /\ astray' \subseteq astray \cup {<<c, s>>}
      BY <1>8 DEF Publish, PublishFails, Done, Settled, access
    <2>2. q \in Seq(Commit)
      BY <1>t
    <2>3. i \in 1 .. Len(q) /\ Len(q) <= MaxPending /\ \A k \in 1 .. Len(q) : q[k].left # {}
      BY <2>2, LenProperties DEF ContentRest
    <2>4. Len(r) <= Len(q) /\ \A k \in 1 .. Len(r) : r[k].left # {}
      BY <2>2, <2>3, SettledFits
    <2>5. Len(r) \in Nat /\ Len(q) \in Nat
      BY <2>2, <2>3, SettledIs, LenProperties
    <2> HIDE DEF r, q
    <2>6. Len(r) <= MaxPending
      BY <1>t, <2>3, <2>4, <2>5
    <2>7. \A o \in Slots : outbox'[o] = IF o = s THEN r ELSE outbox[o]
      BY <1>t, <2>1
    <2>8. Active' = Active
      BY <2>1 DEF Active
    <2> QED BY <2>1, <2>4, <2>6, <2>7, <2>8 DEF ContentRest
  <1>9. CASE Restart
    <2>1. /\ outbox' = [s \in Slots |-> <<>>] /\ UNCHANGED <<rooms, members, row>>
          /\ astray' \subseteq astray \cup (Channels \X Slots)
      BY <1>9 DEF Restart, RestartReactions, access
    <2>2. \A s \in Slots : outbox'[s] = <<>> /\ Len(<<>>) = 0
      BY <2>1
    <2>3. Active' = Active
      BY <2>1 DEF Active
    <2> QED BY <1>t, <2>1, <2>2, <2>3 DEF ContentRest
  <1> QED BY <1>1, <1>2, <1>3, <1>4, <1>6, <1>7, <1>8, <1>9 DEF Next, ReactionsNext

\* Rows, blobs and operations of the attachments have their types, a message
\* never has more reactions than its limit, and only members of rooms that
\* exist are members (attachments.rs; reactions.rs: add_reaction).
THEOREM ContentTyped == Spec => []TypeOK
  <1>1. Init => ContentRest
    <2> SUFFICES ASSUME Init PROVE ContentRest
      OBVIOUS
    <2>1. Active = {} /\ MaxReactions \in Nat /\ MaxPending \in Nat
      BY ReactionsAssumption DEF Init, ReactionsInit, Active
    <2>2. IsFiniteSet(Active) /\ Cardinality(Active) <= MaxReactions
      BY <2>1, FS_EmptySet
    <2>3. \A s \in Slots : outbox[s] = <<>> /\ Len(<<>>) = 0
      BY DEF Init, ReactionsInit
    <2>4. members \subseteq rooms \X Users /\ astray = {}
      BY DEF Init, AccessInit, ReactionsInit
    <2> QED BY <2>1, <2>2, <2>3, <2>4 DEF ContentRest
  <1>2. FilesInv /\ ReactionsInv /\ ContentRest => TypeOK
    <2> SUFFICES ASSUME FilesInv, ReactionsInv, ContentRest PROVE TypeOK
      OBVIOUS
    <2>1. outbox \in [Slots -> Seq(Commit)]
      BY DEF ReactionsInv, ReactionsTypes
    <2>2. ASSUME NEW s \in Slots, NEW i \in DOMAIN outbox[s]
          PROVE  outbox[s][i] \in [added : BOOLEAN, left : (SUBSET Channels) \ {{}}]
      <3>1. i \in 1 .. Len(outbox[s])
        BY <2>1, LenProperties
      <3>2. outbox[s][i] \in Commit
        <4> HIDE DEF Commit
        <4> QED BY <2>1, <3>1, ElementOfSeq
      <3>3. outbox[s][i].left # {}
        BY <3>1 DEF ContentRest
      <3> QED BY <3>2, <3>3 DEF Commit
    <2>3. ReactionsTypeOK
      BY <2>2 DEF ReactionsInv, ReactionsTypes, ContentRest, ReactionsTypeOK
    <2> QED BY <2>3 DEF FilesInv, ContentRest, TypeOK
  <1> QED BY FilesStart, ReactionsStart, <1>1, <1>2, FilesStep, ReactionsStep, ContentRestStep, PTL
          DEF Spec

(***************************************************************************)
(* Backup.                                                                 *)
(***************************************************************************)

BackupSpec == BackupInit /\ [][BackupNext]_backup

HasArchive(j) == tasks[j].at \in {"open", "write", "rename"}

\* No rotation has changed the key under the running server.
Cold == hotSince = LastSecond + 1

\* The archives of a directory that were named before such a rotation have a
\* key that goes with their database.
FitsIn(dir) == \A s \in DOMAIN dir : s < hotSince => KeyFits(dir[s].db, dir[s].key)

\* Until then the key of the file, the key the server has loaded and what a job
\* has read go with the database; a rotation by the command has flagged every
\* user.
KeysFit ==
  /\ KeyFits(database, oprfKey)
  /\ up => loadedKey = oprfKey
  /\ ~ up /\ cli = "rotate" => \A key \in OprfKeys : KeyFits(database, key)
  /\ \A j \in Runners :
       /\ tasks[j].at = "read" => KeyFits(dbFile, oprfKey)
       /\ tasks[j].at = "key" => KeyFits(tasks[j].db, oprfKey)

\* And so do the archives named until then, whatever rotation comes after.
KeysGo ==
  /\ Cold \/ hotSince <= second
  /\ Cold => KeysFit
  /\ \A j \in Runners :
       /\ ~ up => tasks[j] = NoTask
       /\ HasArchive(j) =>
            /\ tasks[j].file # Partial
            /\ tasks[j].second < hotSince => KeyFits(tasks[j].file.db, tasks[j].file.key)
  /\ FitsIn(backups) /\ FitsIn(temps)

\* An archive that is deleted, or about to be, has enough newer ones.
MadeAfter(s) == {t \in made : t > s}
Expendable(s) == Retention > 0 /\ Cardinality(MadeAfter(s)) >= Retention

EnoughNewer ==
  /\ DOMAIN backups \subseteq made
  /\ \A j \in Runners : tasks[j].at = "prune" => \A s \in tasks[j].old : Expendable(s)
  /\ \A s \in made \ DOMAIN backups : Expendable(s)

\* A job that names a second no other does writes a file of its own, which
\* gets its final name complete.
NamesAlone ==
  \A s \in Seconds \ shared :
    /\ s \in DOMAIN backups => backups[s] # Partial
    /\ \A j \in Naming(s) :
         /\ s \notin made
         /\ \A k \in Naming(s) : k = j
         /\ tasks[j].at = "rename" /\ s \in DOMAIN temps => temps[s] = tasks[j].file

BackupInv == BackupTypeOK /\ KeysGo /\ EnoughNewer /\ NamesAlone

ArchiveTask == [at : {"open", "write", "rename"}, file : Archives, second : Seconds]

\* The record of a backup job, by how far it got.
LEMMA TaskIs ==
  ASSUME NEW task \in BackupTasks
  PROVE  /\ task.at = "idle" => task = NoTask
         /\ task.at = "read" => task \in [at : {"read"}, torn : BOOLEAN]
         /\ task.at = "key" => task \in [at : {"key"}, db : Copies]
         /\ task.at \in {"open", "write", "rename"} => task \in ArchiveTask
         /\ task.at = "list" => task = [at |-> "list"]
         /\ task.at = "prune" => task \in [at : {"prune"}, old : SUBSET Seconds]
         /\ NoTask.at = "idle" /\ (task.at # "idle" => task # NoTask)
  BY DEF BackupTasks, NoTask, ArchiveTask

\* The state functions of a directory after an archive came or went.
LEMMA FiledIs ==
  ASSUME NEW dir, NEW s, NEW archive
  PROVE  /\ DOMAIN Filed(dir, s, archive) = DOMAIN dir \cup {s}
         /\ Filed(dir, s, archive)[s] = archive
         /\ \A t \in DOMAIN dir \ {s} : Filed(dir, s, archive)[t] = dir[t]
         /\ DOMAIN Removed(dir, s) = DOMAIN dir \ {s}
         /\ \A t \in DOMAIN dir \ {s} : Removed(dir, s)[t] = dir[t]
  BY DEF Filed, Removed

\* A directory stays one of archives.
LEMMA FiledTyped ==
  ASSUME NEW dir, NEW s \in Seconds, NEW archive \in Archives,
         DOMAIN dir \subseteq Seconds, \A t \in DOMAIN dir : dir[t] \in Archives
  PROVE  /\ DOMAIN Filed(dir, s, archive) \subseteq Seconds
         /\ \A t \in DOMAIN Filed(dir, s, archive) : Filed(dir, s, archive)[t] \in Archives
  <1>1. DOMAIN Filed(dir, s, archive) = DOMAIN dir \cup {s}
    BY FiledIs
  <1>2. ASSUME NEW t \in DOMAIN dir \cup {s} PROVE Filed(dir, s, archive)[t] \in Archives
    BY DEF Filed
  <1> QED BY <1>1, <1>2

\* A directory stays well formed when an archive is removed from it.
LEMMA RemovedTyped ==
  ASSUME NEW dir, NEW s, DOMAIN dir \subseteq Seconds, \A t \in DOMAIN dir : dir[t] \in Archives
  PROVE  /\ DOMAIN Removed(dir, s) \subseteq Seconds
         /\ \A t \in DOMAIN Removed(dir, s) : Removed(dir, s)[t] \in Archives
  <1>1. DOMAIN Removed(dir, s) = DOMAIN dir \ {s}
    BY FiledIs
  <1>2. ASSUME NEW t \in DOMAIN dir \ {s} PROVE Removed(dir, s)[t] \in Archives
    BY DEF Removed
  <1> QED BY <1>1, <1>2

\* A torn copy and an unfinished archive fit any key; a finished archive is not
\* an unfinished one.
LEMMA CopiesAre ==
  /\ Torn \in Copies /\ Partial \in Archives
  /\ \A key : KeyFits(Torn, key)
  /\ KeyFits(Partial.db, Partial.key)
  /\ \A db \in Copies, key \in OprfKeys :
       [db |-> db, key |-> key] \in Archives /\ [db |-> db, key |-> key] # Partial
  <1>1. \A key \in OprfKeys : key # -1
    BY BackupAssumption DEF OprfKeys
  <1> QED BY <1>1 DEF Copies, Torn, Partial, Archives, KeyFits

\* How a copy of the log changes the jobs.
LEMMA CopyLogIs ==
  ASSUME tasks \in [Runners -> BackupTasks], NEW others, CopyLog(others)
  PROVE  /\ dbFile' = database /\ tasks' \in [Runners -> BackupTasks]
         /\ \A j \in Runners :
              \/ tasks'[j].at = "read" /\ (j \in others => tasks[j].at = "read")
              \/ j \in others /\ tasks'[j] = tasks[j]
  <1>1. DOMAIN tasks = Runners /\ \A j \in Runners : tasks[j] \in BackupTasks
    OBVIOUS
  <1> DEFINE copied(j) == IF j \notin others THEN [at |-> "read", torn |-> FALSE]
                          ELSE IF tasks[j].at = "read" /\ dbFile # database
                               THEN [tasks[j] EXCEPT !.torn = TRUE] ELSE tasks[j]
  <1>2. dbFile' = database /\ tasks' = [j \in Runners |-> copied(j)]
    BY <1>1 DEF CopyLog
  <1>3. ASSUME NEW j \in Runners
        PROVE  /\ copied(j) \in BackupTasks
               /\ \/ copied(j).at = "read" /\ (j \in others => tasks[j].at = "read")
                  \/ j \in others /\ copied(j) = tasks[j]
    <2>1. CASE j \notin others
      BY <2>1 DEF BackupTasks
    <2>2. CASE j \in others /\ tasks[j].at = "read"
      <3>1. tasks[j] \in [at : {"read"}, torn : BOOLEAN]
        BY <1>1, <2>2, TaskIs
      <3>2. [tasks[j] EXCEPT !.torn = TRUE] \in [at : {"read"}, torn : BOOLEAN]
        BY <3>1
      <3> QED BY <1>1, <2>2, <3>2 DEF BackupTasks
    <2>3. CASE j \in others /\ tasks[j].at # "read"
      BY <1>1, <2>3
    <2> QED BY <2>1, <2>2, <2>3
  <1> HIDE DEF copied
  <1> QED BY <1>2, <1>3

\* Every step keeps the types.
LEMMA BackupTyped == BackupTypeOK /\ [BackupNext]_backup => BackupTypeOK'
  <1> SUFFICES ASSUME BackupTypeOK, [BackupNext]_backup PROVE BackupTypeOK'
    OBVIOUS
  <1>t. /\ up \in BOOLEAN /\ wal \in BOOLEAN /\ database \in Copies /\ dbFile \in Copies
        /\ oprfKey \in OprfKeys /\ loadedKey \in OprfKeys /\ hotSince \in 0 .. LastSecond + 1
        /\ second \in Seconds /\ started \in 0 .. MaxJobs /\ tasks \in [Runners -> BackupTasks]
        /\ DOMAIN tasks = Runners /\ cli \in {"none", "rotate"}
        /\ made \subseteq Seconds /\ shared \subseteq Seconds
        /\ DOMAIN backups \subseteq Seconds /\ \A s \in DOMAIN backups : backups[s] \in Archives
        /\ DOMAIN temps \subseteq Seconds /\ \A s \in DOMAIN temps : temps[s] \in Archives
    BY DEF BackupTypeOK
  <1>d. ASSUME up' \in BOOLEAN, wal' \in BOOLEAN, database' \in Copies, dbFile' \in Copies,
               oprfKey' \in OprfKeys, loadedKey' \in OprfKeys, hotSince' \in 0 .. LastSecond + 1,
               second' \in Seconds, started' \in 0 .. MaxJobs, tasks' \in [Runners -> BackupTasks],
               cli' \in {"none", "rotate"}, UNCHANGED <<backups, made, shared>>,
               DOMAIN temps' = DOMAIN temps, \A s \in DOMAIN temps : temps'[s] \in {temps[s], Partial}
        PROVE  BackupTypeOK'
    BY <1>t, <1>d, CopiesAre DEF BackupTypeOK
  <1>a. ASSUME made' \subseteq Seconds, shared' \subseteq Seconds,
               DOMAIN backups' \subseteq Seconds, \A s \in DOMAIN backups' : backups'[s] \in Archives,
               DOMAIN temps' \subseteq Seconds, \A s \in DOMAIN temps' : temps'[s] \in Archives,
               tasks' \in [Runners -> BackupTasks],
               UNCHANGED <<up, dbVars, keyVars, counters>>
        PROVE  BackupTypeOK'
    BY <1>t, <1>a DEF BackupTypeOK, dbVars, keyVars, counters
  <1>b. ASSUME NEW j \in Runners, NEW task \in BackupTasks, Become(j, task)
        PROVE  tasks' \in [Runners -> BackupTasks]
    BY <1>t, <1>b DEF Become
  <1>0. CASE UNCHANGED backup
    BY <1>0, <1>t, <1>d DEF backup, dbVars, keyVars, counters, dirVars
  <1>1. ASSUME NEW u \in Logins, Register(u) PROVE BackupTypeOK'
    <2>1. database' = [database EXCEPT ![u] = ToString(loadedKey)] /\ database[u] = "unknown" /\ wal' = TRUE
          /\ UNCHANGED <<up, dbFile, keyVars, counters, dirVars, tasks>>
      BY <1>1 DEF Register
    <2>2. database \in Databases
      BY <1>t, <2>1 DEF Copies, Torn
    <2>3. database' \in Databases
      BY <1>t, <2>1, <2>2 DEF Databases
    <2> QED BY <1>t, <1>d, <2>1, <2>3 DEF Copies, keyVars, counters, dirVars
  <1>2. CASE AutoCheckpoint
    <2>1. tasks' \in [Runners -> BackupTasks] /\ dbFile' = database
      BY <1>2, <1>t, CopyLogIs DEF AutoCheckpoint
    <2> QED BY <1>2, <1>t, <1>d, <2>1 DEF AutoCheckpoint, keyVars, counters, dirVars
  <1>3. ASSUME NEW j \in Runners, CheckpointWal(j) PROVE BackupTypeOK'
    <2>1. tasks' \in [Runners -> BackupTasks] /\ dbFile' = database
      BY <1>3, <1>t, CopyLogIs DEF CheckpointWal
    <2>2. started' \in 0 .. MaxJobs
      BY <1>3, <1>t, BackupAssumption DEF CheckpointWal
    <2> QED BY <1>3, <1>t, <1>d, <2>1, <2>2 DEF CheckpointWal, keyVars, dirVars
  <1>4. ASSUME NEW j \in Runners, ReadDb(j) PROVE BackupTypeOK'
    <2> DEFINE db == IF tasks[j].torn THEN Torn ELSE dbFile
    <2>1. Become(j, [at |-> "key", db |-> db])
      BY <1>4 DEF ReadDb
    <2>2. db \in Copies
      BY <1>t, CopiesAre
    <2> HIDE DEF db
    <2>3. [at |-> "key", db |-> db] \in BackupTasks
      BY <2>2 DEF BackupTasks
    <2>4. tasks' \in [Runners -> BackupTasks]
      BY <1>b, <2>1, <2>3
    <2> QED BY <1>4, <1>t, <1>d, <2>4 DEF ReadDb, dbVars, keyVars, counters, dirVars
  <1>4k. ASSUME NEW j \in Runners, ReadKey(j) PROVE BackupTypeOK'
    <2> DEFINE file == [db |-> tasks[j].db, key |-> oprfKey]
    <2>1. /\ Become(j, [at |-> "open", second |-> second, file |-> file])
          /\ shared' = shared \/ shared' = shared \cup {second}
          /\ UNCHANGED <<up, dbVars, keyVars, counters, backups, temps, made>>
      BY <1>4k DEF ReadKey
    <2>2. file \in Archives
      <3>1. tasks[j].db \in Copies
        BY <1>4k, <1>t, TaskIs DEF ReadKey
      <3> QED BY <1>t, <3>1, CopiesAre
    <2> HIDE DEF file
    <2>3. [at |-> "open", second |-> second, file |-> file] \in BackupTasks
      BY <1>t, <2>2 DEF BackupTasks
    <2> QED BY <1>t, <1>a, <1>b, <2>1, <2>3
  <1>5. ASSUME NEW j \in Runners, OpenTemp(j) PROVE BackupTypeOK'
    <2>1. tasks[j] \in ArchiveTask
      BY <1>5, <1>t, TaskIs DEF OpenTemp
    <2>2. [tasks[j] EXCEPT !.at = "write"] \in BackupTasks /\ tasks[j].second \in Seconds
      BY <2>1 DEF ArchiveTask, BackupTasks
    <2>3. tasks' \in [Runners -> BackupTasks]
      BY <1>5, <1>b, <2>2 DEF OpenTemp
    <2>4. temps' = Filed(temps, tasks[j].second, Partial)
      BY <1>5 DEF OpenTemp
    <2>5. DOMAIN temps' \subseteq Seconds /\ \A s \in DOMAIN temps' : temps'[s] \in Archives
      BY <1>t, <2>2, <2>4, FiledTyped, CopiesAre
    <2> QED BY <1>5, <1>t, <1>a, <2>3, <2>5 DEF OpenTemp
  <1>6. ASSUME NEW j \in Runners, WriteArchive(j) PROVE BackupTypeOK'
    <2>1. tasks[j] \in ArchiveTask
      BY <1>6, <1>t, TaskIs DEF WriteArchive
    <2>2. [tasks[j] EXCEPT !.at = "rename"] \in BackupTasks /\ tasks[j].file \in Archives
      BY <2>1 DEF ArchiveTask, BackupTasks
    <2>3. tasks' \in [Runners -> BackupTasks]
      BY <1>6, <1>b, <2>2 DEF WriteArchive
    <2>4. PICK content \in Archives :
            /\ temps' = temps \/ temps' = [temps EXCEPT ![tasks[j].second] = content]
            /\ backups' = backups \/ backups' = [backups EXCEPT ![tasks[j].second] = content]
      BY <1>6, <2>2, CopiesAre DEF WriteArchive
    <2>5. /\ DOMAIN temps' \subseteq Seconds /\ \A s \in DOMAIN temps' : temps'[s] \in Archives
          /\ DOMAIN backups' \subseteq Seconds /\ \A s \in DOMAIN backups' : backups'[s] \in Archives
      BY <1>t, <2>4
    <2> QED BY <1>6, <1>t, <1>a, <2>3, <2>5 DEF WriteArchive
  <1>7. ASSUME NEW j \in Runners, RenameArchive(j) PROVE BackupTypeOK'
    <2>1. tasks[j] \in ArchiveTask
      BY <1>7, <1>t, TaskIs DEF RenameArchive
    <2>2. tasks[j].second \in Seconds
      BY <2>1 DEF ArchiveTask
    <2>3. [at |-> "list"] \in BackupTasks /\ NoTask \in BackupTasks
      BY DEF BackupTasks
    <2>4. tasks' \in [Runners -> BackupTasks]
      BY <1>7, <1>b, <2>3 DEF RenameArchive
    <2>5. \/ UNCHANGED <<backups, temps, made>>
          \/ /\ tasks[j].second \in DOMAIN temps
             /\ backups' = Filed(backups, tasks[j].second, temps[tasks[j].second])
             /\ temps' = Removed(temps, tasks[j].second) /\ made' = made \cup {tasks[j].second}
      BY <1>7 DEF RenameArchive
    <2>6. /\ DOMAIN temps' \subseteq Seconds /\ \A s \in DOMAIN temps' : temps'[s] \in Archives
          /\ DOMAIN backups' \subseteq Seconds /\ \A s \in DOMAIN backups' : backups'[s] \in Archives
          /\ made' \subseteq Seconds
      BY <1>t, <2>2, <2>5, FiledTyped, RemovedTyped
    <2> QED BY <1>7, <1>t, <1>a, <2>4, <2>6 DEF RenameArchive
  <1>8. ASSUME NEW j \in Runners, ListOld(j) PROVE BackupTypeOK'
    <2>1. [at |-> "prune", old |-> BeyondRetention] \in BackupTasks
      BY <1>t DEF BackupTasks, BeyondRetention
    <2>2. tasks' \in [Runners -> BackupTasks]
      BY <1>8, <1>b, <2>1 DEF ListOld
    <2> QED BY <1>8, <1>t, <1>d, <2>2 DEF ListOld, dbVars, keyVars, counters, dirVars
  <1>9. ASSUME NEW j \in Runners, PruneOld(j) PROVE BackupTypeOK'
    <2>1. tasks[j] \in [at : {"prune"}, old : SUBSET Seconds]
      BY <1>9, <1>t, TaskIs DEF PruneOld
    <2>2. NoTask \in BackupTasks /\ \A s : [tasks[j] EXCEPT !.old = tasks[j].old \ {s}] \in BackupTasks
      BY <2>1 DEF BackupTasks
    <2>3. \E task \in BackupTasks : Become(j, task)
      BY <1>9, <2>2 DEF PruneOld
    <2>4. backups' = backups \/ \E s : backups' = Removed(backups, s)
      BY <1>9 DEF PruneOld
    <2>5. DOMAIN backups' \subseteq Seconds /\ \A s \in DOMAIN backups' : backups'[s] \in Archives
      BY <1>t, <2>4, RemovedTyped
    <2> QED BY <1>9, <1>t, <1>a, <1>b, <2>3, <2>5 DEF PruneOld
  <1>10. ASSUME NEW clean \in BOOLEAN, StopServer(clean) PROVE BackupTypeOK'
    <2>1. NoTask \in BackupTasks
      BY DEF BackupTasks
    <2>2. tasks' \in [Runners -> BackupTasks]
      BY <1>10, <1>t, <2>1 DEF StopServer
    <2> QED BY <1>10, <1>t, <1>d, <2>2 DEF StopServer, counters
  <1>11. CASE FlagUsers
    <2>1. Flagged \in Copies
      <3>1. CASE database = Torn
        <4>1. Flagged = Torn
          BY <3>1 DEF Flagged, Torn
        <4> QED BY <4>1 DEF Copies
      <3>2. CASE database \in Databases
        BY <3>2 DEF Flagged, Databases, Copies
      <3> QED BY <1>t, <3>1, <3>2 DEF Copies
    <2> QED BY <1>11, <1>t, <1>d, <2>1 DEF FlagUsers, counters, dirVars
  <1>12. CASE WriteKey
    <2>1. oprfKey' \in OprfKeys
      BY <1>12, <1>t, BackupAssumption DEF WriteKey, OprfKeys
    <2>2. hotSince' \in 0 .. LastSecond + 1
      BY <1>12, <1>t, BackupAssumption DEF WriteKey, Seconds
    <2> QED BY <1>12, <1>t, <1>d, <2>1, <2>2 DEF WriteKey, dbVars, counters, dirVars
  <1>13. ASSUME NEW s \in Seconds, RestoreBackup(s) PROVE BackupTypeOK'
    <2>1. backups[s].db \in Copies
      <3>1. backups[s] \in Archives
        BY <1>13, <1>t DEF RestoreBackup
      <3> QED BY <3>1, CopiesAre DEF Archives, Partial
    <2> QED BY <1>13, <1>t, <1>d, <2>1, CopiesAre DEF RestoreBackup, keyVars, counters, dirVars
  <1>14. CASE SecondPasses
    <2>1. second' \in Seconds
      BY <1>14, <1>t, BackupAssumption DEF SecondPasses, Seconds
    <2> QED BY <1>14, <1>t, <1>d, <2>1 DEF SecondPasses, dbVars, keyVars, dirVars
  <1>15. CASE StartServer \/ KillCommand
    BY <1>15, <1>t, <1>d DEF StartServer, KillCommand, dbVars, counters, dirVars
  <1> QED BY <1>0, <1>1, <1>2, <1>3, <1>4, <1>4k, <1>5, <1>6, <1>7, <1>8, <1>9, <1>10, <1>11, <1>12,
             <1>13, <1>14, <1>15, <1>t DEF BackupNext

\* Archives whose database fits their key stay so when one is filed or removed.
LEMMA FiledFits ==
  ASSUME NEW dir, NEW s, NEW archive, FitsIn(dir)
  PROVE  /\ (s < hotSince => KeyFits(archive.db, archive.key)) => FitsIn(Filed(dir, s, archive))
         /\ FitsIn(Removed(dir, s))
  <1>1. ASSUME s < hotSince => KeyFits(archive.db, archive.key),
               NEW t \in DOMAIN Filed(dir, s, archive), t < hotSince
        PROVE  KeyFits(Filed(dir, s, archive)[t].db, Filed(dir, s, archive)[t].key)
    <2>1. CASE t = s
      <3>1. Filed(dir, s, archive)[s] = archive
        BY DEF Filed
      <3> QED BY <1>1, <2>1, <3>1
    <2>2. CASE t # s
      <3>1. t \in DOMAIN dir /\ Filed(dir, s, archive)[t] = dir[t]
        BY <1>1, <2>2 DEF Filed
      <3> QED BY <1>1, <3>1 DEF FitsIn
    <2> QED BY <2>1, <2>2
  <1>2. ASSUME NEW t \in DOMAIN Removed(dir, s), t < hotSince
        PROVE  KeyFits(Removed(dir, s)[t].db, Removed(dir, s)[t].key)
    <2>1. t \in DOMAIN dir /\ Removed(dir, s)[t] = dir[t]
      BY <1>2 DEF Removed
    <2> QED BY <1>2, <2>1 DEF FitsIn
  <1> QED BY <1>1, <1>2 DEF FitsIn

\* Every step keeps database and key together, in the process, on disk and in
\* every archive, until the endpoint changes the key.
LEMMA KeysStep == BackupTypeOK /\ KeysGo /\ [BackupNext]_backup => KeysGo'
  <1> SUFFICES ASSUME BackupTypeOK, KeysGo, [BackupNext]_backup PROVE KeysGo'
    OBVIOUS
  <1>t. /\ database \in Copies /\ dbFile \in Copies /\ oprfKey \in OprfKeys
        /\ tasks \in [Runners -> BackupTasks] /\ DOMAIN tasks = Runners
        /\ \A s \in DOMAIN backups : backups[s] \in Archives /\ s \in Seconds
        /\ \A s \in DOMAIN temps : temps[s] \in Archives /\ s \in Seconds
        /\ second \in Seconds /\ hotSince \in 0 .. LastSecond + 1
    BY DEF BackupTypeOK
  <1>f. FitsIn(backups) /\ FitsIn(temps)
    BY DEF KeysGo
  <1>l. LastSecond \in Nat
    BY BackupAssumption
  \* A step of a job.
  <1>j. ASSUME NEW j \in Runners, NEW task, Become(j, task), up,
               UNCHANGED <<up, dbVars, keyVars, counters>>,
               task.at # "read",
               task.at = "key" => (Cold => KeyFits(task.db, oprfKey)),
               task.at \in {"open", "write", "rename"} =>
                 /\ task.file # Partial
                 /\ task.second < hotSince => KeyFits(task.file.db, task.file.key),
               FitsIn(backups'), FitsIn(temps')
        PROVE  KeysGo'
    <2>1. tasks'[j] = task /\ \A k \in Runners \ {j} : tasks'[k] = tasks[k]
      BY <1>t, <1>j DEF Become
    <2>2. UNCHANGED <<up, database, dbFile, oprfKey, loadedKey, cli, hotSince, second>>
      BY <1>j DEF dbVars, keyVars, counters
    <2>3. (Cold \/ hotSince <= second)' /\ FitsIn(backups)' /\ FitsIn(temps)'
      BY <1>j, <2>2 DEF KeysGo, Cold, FitsIn
    <2>4. Cold' => KeysFit'
      BY <1>j, <2>1, <2>2 DEF KeysGo, KeysFit, Cold
    <2>5. ASSUME NEW k \in Runners, HasArchive(k)'
          PROVE  /\ tasks'[k].file # Partial
                 /\ tasks'[k].second < hotSince => KeyFits(tasks'[k].file.db, tasks'[k].file.key)
      <3>1. CASE k = j
        BY <1>j, <2>1, <2>5, <3>1 DEF HasArchive
      <3>2. CASE k # j
        BY <2>1, <2>5, <3>2 DEF HasArchive, KeysGo
      <3> QED BY <3>1, <3>2
    <2> QED BY <1>j, <2>2, <2>3, <2>4, <2>5 DEF KeysGo
  \* A step of the database, of its file or of the keys.
  <1>d. ASSUME UNCHANGED <<backups, second, hotSince>>, FitsIn(temps'),
               Cold => /\ KeyFits(database', oprfKey')
                       /\ up' => loadedKey' = oprfKey'
                       /\ ~ up' /\ cli' = "rotate" => \A key \in OprfKeys : KeyFits(database', key),
               \A j \in Runners :
                 \/ tasks'[j] = NoTask
                 \/ up' /\ up /\ tasks'[j].at = "read" /\ (Cold => KeyFits(dbFile', oprfKey'))
                 \/ up' /\ up /\ tasks'[j] = tasks[j] /\ tasks[j].at # "read" /\ oprfKey' = oprfKey
        PROVE  KeysGo'
    <2>1. NoTask.at = "idle"
      BY DEF NoTask
    <2>2. (Cold \/ hotSince <= second)' /\ FitsIn(backups)' /\ FitsIn(temps)'
      BY <1>d DEF KeysGo, Cold, FitsIn
    <2>3. Cold' => KeysFit'
      BY <1>d, <2>1 DEF KeysGo, KeysFit, Cold
    <2>4. ASSUME NEW j \in Runners
          PROVE  /\ ~ up' => tasks'[j] = NoTask
                 /\ HasArchive(j)' =>
                      /\ tasks'[j].file # Partial
                      /\ tasks'[j].second < hotSince' => KeyFits(tasks'[j].file.db, tasks'[j].file.key)
      BY <1>d, <2>1 DEF KeysGo, HasArchive
    <2> QED BY <2>2, <2>3, <2>4 DEF KeysGo
  \* The jobs and the directories are left alone, and the clock goes on, or the
  \* key is hot from now on.
  <1>h. ASSUME UNCHANGED <<up, backups, temps, tasks>>, second' \in Seconds, second <= second',
               \/ hotSince' = hotSince /\ UNCHANGED <<database, dbFile, oprfKey, loadedKey, cli>>
               \/ hotSince' <= second /\ hotSince' <= hotSince /\ hotSince' \in Int
        PROVE  KeysGo'
    <2>1. (Cold \/ hotSince <= second)'
      BY <1>h, <1>t, <1>l DEF KeysGo, Cold, Seconds
    <2>2. Cold' => Cold /\ UNCHANGED <<database, dbFile, oprfKey, loadedKey, cli>>
      BY <1>h, <1>t, <1>l DEF Cold, Seconds
    <2>3. Cold' => KeysFit'
      BY <1>h, <2>2 DEF KeysGo, KeysFit
    <2>4. \A s \in Seconds : s < hotSince' => s < hotSince
      BY <1>h, <1>t, <1>l DEF Seconds
    <2>5. FitsIn(backups)' /\ FitsIn(temps)'
      BY <1>h, <1>t, <1>f, <2>4 DEF FitsIn
    <2>6. ASSUME NEW j \in Runners, HasArchive(j)
          PROVE  /\ tasks[j].file # Partial
                 /\ tasks[j].second < hotSince' => KeyFits(tasks[j].file.db, tasks[j].file.key)
      <3>1. tasks[j].second \in Seconds
        BY <1>t, <2>6, TaskIs DEF HasArchive, ArchiveTask
      <3> QED BY <2>4, <2>6, <3>1 DEF KeysGo
    <2> QED BY <1>h, <2>1, <2>3, <2>5, <2>6 DEF KeysGo, HasArchive
  <1>i. \A j \in Runners : tasks[j].at # "idle" => up
    BY DEF KeysGo, NoTask
  <1>n. ~ up => \A j \in Runners : tasks[j] = NoTask
    BY DEF KeysGo
  \* Jobs that are left alone, with the file and the key.
  <1>u. ASSUME UNCHANGED <<dbFile, oprfKey, tasks>>, up' = up \/ ~ up
        PROVE  \A j \in Runners :
                 \/ tasks'[j] = NoTask
                 \/ up' /\ up /\ tasks'[j].at = "read" /\ (Cold => KeyFits(dbFile', oprfKey'))
                 \/ up' /\ up /\ tasks'[j] = tasks[j] /\ tasks[j].at # "read" /\ oprfKey' = oprfKey
    BY <1>u, <1>n DEF KeysGo, KeysFit
  <1>0. CASE UNCHANGED backup
    <2>1. second <= second' /\ second' \in Seconds
      BY <1>0, <1>t, <1>l DEF backup, counters, Seconds
    <2> QED BY <1>0, <1>h, <2>1 DEF backup, dbVars, keyVars, counters, dirVars
  <1>1. ASSUME NEW u \in Logins, Register(u) PROVE KeysGo'
    <2>1. database' = [database EXCEPT ![u] = ToString(loadedKey)] /\ up /\ up' = up
          /\ UNCHANGED <<dbFile, oprfKey, loadedKey, cli, hotSince, second, backups, temps, tasks>>
      BY <1>1 DEF Register, keyVars, counters, dirVars
    <2>2. Cold => KeyFits(database', oprfKey) /\ loadedKey = oprfKey
      <3>1. \A v \in Logins : database'[v] = database[v] \/ database'[v] = ToString(loadedKey)
        BY <1>t, <2>1 DEF Copies, Databases, Torn
      <3> QED BY <2>1, <3>1 DEF KeysGo, KeysFit, KeyFits
    <2> QED BY <1>d, <1>f, <1>u, <2>1, <2>2
  <1>2. ASSUME NEW others, CopyLog(others), up,
               UNCHANGED <<up, database, oprfKey, loadedKey, cli, hotSince, second, backups, temps>>
        PROVE  KeysGo'
    <2>1. /\ dbFile' = database
          /\ \A j \in Runners :
               \/ tasks'[j].at = "read" /\ (j \in others => tasks[j].at = "read")
               \/ j \in others /\ tasks'[j] = tasks[j]
      BY <1>2, <1>t, CopyLogIs
    <2>2. Cold => KeyFits(database, oprfKey) /\ loadedKey = oprfKey
      BY <1>2 DEF KeysGo, KeysFit
    <2>3. \A j \in Runners :
            \/ tasks'[j].at = "read"
            \/ tasks'[j] = tasks[j] /\ tasks[j].at # "read"
      BY <2>1
    <2> QED BY <1>2, <1>d, <1>f, <2>1, <2>2, <2>3
  <1>3. ASSUME NEW j \in Runners, ReadDb(j) PROVE KeysGo'
    <2> DEFINE db == IF tasks[j].torn THEN Torn ELSE dbFile
               task == [at |-> "key", db |-> db]
    <2>1. /\ Become(j, task) /\ tasks[j].at = "read"
          /\ UNCHANGED <<up, dbVars, keyVars, counters, backups, temps>>
      BY <1>3 DEF ReadDb, dirVars
    <2>2. Cold => KeyFits(db, oprfKey)
      BY <2>1, CopiesAre DEF KeysGo, KeysFit
    <2>3. task.at = "key" /\ task.db = db
      OBVIOUS
    <2>4. FitsIn(backups') /\ FitsIn(temps')
      BY <1>f, <2>1
    <2> HIDE DEF db, task
    <2> QED BY <1>i, <1>j, <2>1, <2>2, <2>3, <2>4
  <1>3k. ASSUME NEW j \in Runners, ReadKey(j) PROVE KeysGo'
    <2> DEFINE file == [db |-> tasks[j].db, key |-> oprfKey]
               task == [at |-> "open", second |-> second, file |-> file]
    <2>1. /\ Become(j, task) /\ tasks[j].at = "key"
          /\ UNCHANGED <<up, dbVars, keyVars, counters, backups, temps>>
      BY <1>3k DEF ReadKey
    <2>2. tasks[j].db \in Copies
      BY <1>t, <2>1, TaskIs
    <2>3. file # Partial
      BY <1>t, <2>2, CopiesAre
    <2>4. second < hotSince => Cold
      BY <1>t, <1>l DEF KeysGo, Seconds
    <2>5. second < hotSince => KeyFits(file.db, file.key)
      BY <2>1, <2>4 DEF KeysGo, KeysFit
    <2>6. task.at = "open" /\ task.file = file /\ task.second = second
      OBVIOUS
    <2>7. FitsIn(backups') /\ FitsIn(temps')
      BY <1>f, <2>1
    <2> HIDE DEF file, task
    <2> QED BY <1>i, <1>j, <2>1, <2>3, <2>5, <2>6, <2>7
  <1>4. ASSUME NEW j \in Runners, OpenTemp(j) PROVE KeysGo'
    <2>1. tasks[j] \in ArchiveTask /\ tasks[j].at = "open"
      BY <1>4, <1>t, TaskIs DEF OpenTemp
    <2> DEFINE task == [tasks[j] EXCEPT !.at = "write"]
    <2>2. task.at = "write" /\ task.file = tasks[j].file /\ task.second = tasks[j].second
      BY <2>1 DEF ArchiveTask
    <2>3. /\ Become(j, task) /\ temps' = Filed(temps, tasks[j].second, Partial)
          /\ UNCHANGED <<up, dbVars, keyVars, counters, backups>>
      BY <1>4 DEF OpenTemp
    <2>4. /\ tasks[j].file # Partial
          /\ tasks[j].second < hotSince => KeyFits(tasks[j].file.db, tasks[j].file.key)
      BY <2>1 DEF KeysGo, HasArchive
    <2>5. FitsIn(backups') /\ FitsIn(temps')
      BY <1>f, <2>3, FiledFits, CopiesAre
    <2> HIDE DEF task
    <2> QED BY <1>i, <1>j, <2>1, <2>2, <2>3, <2>4, <2>5
  <1>5. ASSUME NEW j \in Runners, WriteArchive(j) PROVE KeysGo'
    <2>1. tasks[j] \in ArchiveTask /\ tasks[j].at = "write"
      BY <1>5, <1>t, TaskIs DEF WriteArchive
    <2> DEFINE task == [tasks[j] EXCEPT !.at = "rename"]
    <2>2. task.at = "rename" /\ task.file = tasks[j].file /\ task.second = tasks[j].second
      BY <2>1 DEF ArchiveTask
    <2>3. /\ tasks[j].file # Partial
          /\ tasks[j].second < hotSince => KeyFits(tasks[j].file.db, tasks[j].file.key)
      BY <2>1 DEF KeysGo, HasArchive
    <2>4. PICK content :
            /\ tasks[j].second < hotSince => KeyFits(content.db, content.key)
            /\ temps' = temps \/ temps' = [temps EXCEPT ![tasks[j].second] = content]
            /\ backups' = backups \/ backups' = [backups EXCEPT ![tasks[j].second] = content]
      BY <1>5, <2>3, CopiesAre DEF WriteArchive
    <2>5. Become(j, task) /\ UNCHANGED <<up, dbVars, keyVars, counters>>
      BY <1>5 DEF WriteArchive
    <2>6. FitsIn(backups') /\ FitsIn(temps')
      BY <1>f, <2>4 DEF FitsIn
    <2> HIDE DEF task
    <2> QED BY <1>i, <1>j, <2>1, <2>2, <2>3, <2>5, <2>6
  <1>6. ASSUME NEW j \in Runners, RenameArchive(j) PROVE KeysGo'
    <2>1. /\ tasks[j].at = "rename" /\ UNCHANGED <<up, dbVars, keyVars, counters>>
          /\ Become(j, [at |-> "list"]) \/ Become(j, NoTask)
      BY <1>6 DEF RenameArchive
    <2>2. \/ UNCHANGED <<backups, temps>>
          \/ /\ tasks[j].second \in DOMAIN temps
             /\ backups' = Filed(backups, tasks[j].second, temps[tasks[j].second])
             /\ temps' = Removed(temps, tasks[j].second)
      BY <1>6 DEF RenameArchive
    <2>3. FitsIn(backups') /\ FitsIn(temps')
      <3>1. tasks[j].second \in DOMAIN temps /\ tasks[j].second < hotSince =>
              KeyFits(temps[tasks[j].second].db, temps[tasks[j].second].key)
        BY <1>f DEF FitsIn
      <3> QED BY <1>f, <2>2, <3>1, FiledFits
    <2>4. NoTask.at = "idle"
      BY DEF NoTask
    <2> QED BY <1>i, <1>j, <2>1, <2>3, <2>4
  <1>7. ASSUME NEW j \in Runners, ListOld(j) PROVE KeysGo'
    <2>1. tasks[j].at = "list" /\ Become(j, [at |-> "prune", old |-> BeyondRetention])
          /\ UNCHANGED <<up, dbVars, keyVars, counters, backups, temps>>
      BY <1>7 DEF ListOld, dirVars
    <2>2. FitsIn(backups') /\ FitsIn(temps')
      BY <1>f, <2>1
    <2> QED BY <1>i, <1>j, <2>1, <2>2
  <1>8. ASSUME NEW j \in Runners, PruneOld(j) PROVE KeysGo'
    <2>1. tasks[j] \in [at : {"prune"}, old : SUBSET Seconds] /\ tasks[j].at = "prune"
      BY <1>8, <1>t, TaskIs DEF PruneOld
    <2>2. PICK task : task.at \in {"idle", "prune"} /\ Become(j, task)
      <3>1. CASE Become(j, NoTask)
        <4>1. NoTask.at = "idle"
          BY DEF NoTask
        <4> QED BY <3>1, <4>1
      <3>2. ASSUME NEW s, Become(j, [tasks[j] EXCEPT !.old = tasks[j].old \ {s}])
            PROVE  \E task : task.at \in {"idle", "prune"} /\ Become(j, task)
        <4> DEFINE task == [tasks[j] EXCEPT !.old = tasks[j].old \ {s}]
        <4>1. task.at = "prune" /\ Become(j, task)
          BY <2>1, <3>2
        <4> HIDE DEF task
        <4> QED BY <4>1
      <3>3. \/ Become(j, NoTask)
            \/ \E s : Become(j, [tasks[j] EXCEPT !.old = tasks[j].old \ {s}])
        BY <1>8 DEF PruneOld
      <3> QED BY <3>1, <3>2, <3>3
    <2>3. backups' = backups \/ \E s : backups' = Removed(backups, s)
      BY <1>8 DEF PruneOld
    <2>4. FitsIn(backups') /\ FitsIn(temps')
      BY <1>8, <1>f, <2>3, FiledFits DEF PruneOld
    <2> QED BY <1>8, <1>i, <1>j, <2>1, <2>2, <2>4 DEF PruneOld
  <1>9. ASSUME NEW clean \in BOOLEAN, StopServer(clean) PROVE KeysGo'
    <2>1. \A j \in Runners : tasks'[j] = NoTask
      BY <1>9, <1>t DEF StopServer
    <2>2. FitsIn(temps')
      BY <1>9, CopiesAre DEF StopServer, FitsIn
    <2>3. up' = FALSE /\ cli' = "none" /\ UNCHANGED <<backups, second, hotSince, database, oprfKey>>
      BY <1>9 DEF StopServer, counters
    <2>4. Cold => KeyFits(database, oprfKey)
      BY DEF KeysGo, KeysFit
    <2> QED BY <1>d, <2>1, <2>2, <2>3, <2>4
  <1>10. CASE StartServer
    <2>1. /\ ~ up /\ up' = TRUE /\ loadedKey' = oprfKey
          /\ UNCHANGED <<database, dbFile, oprfKey, cli, hotSince, second, backups, temps, tasks>>
      BY <1>10 DEF StartServer, dbVars, counters, dirVars
    <2>2. Cold => KeyFits(database, oprfKey)
      BY DEF KeysGo, KeysFit
    <2> QED BY <1>d, <1>f, <1>u, <2>1, <2>2
  <1>11. CASE FlagUsers
    <2>1. \A key : KeyFits(Flagged, key)
      BY DEF KeyFits, Flagged
    <2>2. /\ database' = Flagged
          /\ UNCHANGED <<up, dbFile, oprfKey, loadedKey, hotSince, second, backups, temps, tasks>>
      BY <1>11 DEF FlagUsers, counters, dirVars
    <2>3. Cold /\ up => loadedKey = oprfKey
      BY DEF KeysGo, KeysFit
    <2> QED BY <1>d, <1>f, <1>u, <2>1, <2>2, <2>3
  <1>12. CASE WriteKey
    <2>1. oprfKey + 1 \in OprfKeys
      BY <1>12, <1>t, BackupAssumption DEF WriteKey, OprfKeys
    <2>2. cli = "rotate" /\ oprfKey' = oprfKey + 1 /\ cli' = "none"
          /\ UNCHANGED <<up, database, second, backups, temps, tasks>>
      BY <1>12 DEF WriteKey, dbVars, counters, dirVars
    <2>3. CASE up
      <3>1. hotSince' = IF second < hotSince THEN second ELSE hotSince
        BY <1>12, <2>3 DEF WriteKey
      <3>2. /\ hotSince' <= second /\ hotSince' <= hotSince /\ hotSince' \in Int
            /\ second' \in Seconds /\ second <= second'
        BY <1>t, <1>l, <2>2, <3>1 DEF Seconds
      <3> QED BY <1>h, <2>2, <3>2
    <2>4. CASE ~ up
      <3>1. hotSince' = hotSince
        BY <1>12, <2>4 DEF WriteKey
      <3>2. Cold => KeyFits(database', oprfKey')
        BY <2>1, <2>2, <2>4 DEF KeysGo, KeysFit
      <3>3. \A j \in Runners : tasks'[j] = NoTask
        BY <1>n, <2>2, <2>4
      <3> QED BY <1>d, <1>f, <2>2, <2>4, <3>1, <3>2, <3>3
    <2> QED BY <2>3, <2>4
  <1>13. CASE KillCommand
    <2>1. cli' = "none" /\ UNCHANGED <<up, database, dbFile, oprfKey, loadedKey, hotSince, second,
                                       backups, temps, tasks>>
      BY <1>13 DEF KillCommand, dbVars, counters, dirVars
    <2>2. Cold => KeyFits(database, oprfKey) /\ (up => loadedKey = oprfKey)
      BY DEF KeysGo, KeysFit
    <2> QED BY <1>d, <1>f, <1>u, <2>1, <2>2
  <1>14. ASSUME NEW s \in Seconds, RestoreBackup(s) PROVE KeysGo'
    <2>1. /\ ~ up /\ cli = "none" /\ s \in DOMAIN backups /\ backups[s].key = oprfKey
          /\ dbFile' = backups[s].db /\ database' \in {Torn, dbFile'}
          /\ UNCHANGED <<up, oprfKey, loadedKey, cli, hotSince, second, backups, temps, tasks>>
      BY <1>14 DEF RestoreBackup, keyVars, counters, dirVars
    <2>2. Cold => s < hotSince
      BY <1>l DEF Cold, Seconds
    <2>3. Cold => KeyFits(backups[s].db, oprfKey)
      BY <1>f, <2>1, <2>2 DEF FitsIn
    <2>4. Cold => KeyFits(database', oprfKey')
      BY <2>1, <2>3, CopiesAre
    <2>5. \A j \in Runners : tasks'[j] = NoTask
      BY <1>n, <2>1
    <2> QED BY <1>d, <1>f, <2>1, <2>4, <2>5
  <1>15. CASE SecondPasses
    <2>1. second' \in Seconds /\ second <= second'
      BY <1>15, <1>t, <1>l DEF SecondPasses, Seconds
    <2> QED BY <1>15, <1>h, <2>1 DEF SecondPasses, dbVars, keyVars, dirVars
  <1>16. ASSUME NEW j \in Runners, CheckpointWal(j) PROVE KeysGo'
    BY <1>16, <1>2 DEF CheckpointWal, keyVars, dirVars
  <1>17. CASE AutoCheckpoint
    BY <1>17, <1>2 DEF AutoCheckpoint, keyVars, counters, dirVars
  <1> QED BY <1>0, <1>1, <1>3, <1>3k, <1>4, <1>5, <1>6, <1>7, <1>8, <1>9, <1>10, <1>11, <1>12,
             <1>13, <1>14, <1>15, <1>16, <1>17, <1>t DEF BackupNext

\* An archive with enough newer ones keeps having enough.
LEMMA ExpendableStays ==
  ASSUME made \subseteq made', made' \subseteq Seconds, NEW s, Expendable(s)
  PROVE  Expendable(s)'
  <1>1. IsFiniteSet(Seconds)
    <2>1. 0 \in Int /\ LastSecond \in Int
      BY BackupAssumption
    <2> QED BY <2>1, FS_Interval DEF Seconds
  <1>2. IsFiniteSet({t \in made' : t > s})
    <2>1. {t \in made' : t > s} \subseteq Seconds
      OBVIOUS
    <2> QED BY <1>1, <2>1, FS_Subset
  <1>3. {t \in made : t > s} \subseteq {t \in made' : t > s}
    OBVIOUS
  <1>4. /\ Cardinality({t \in made : t > s}) <= Cardinality({t \in made' : t > s})
        /\ IsFiniteSet({t \in made : t > s})
    BY <1>2, <1>3, FS_Subset
  <1>5. /\ Cardinality({t \in made : t > s}) \in Nat
        /\ Cardinality({t \in made' : t > s}) \in Nat
    BY <1>2, <1>4, FS_CardinalityType
  <1>6. Retention \in Nat
    BY BackupAssumption
  <1> QED BY <1>4, <1>5, <1>6 DEF Expendable, MadeAfter

\* Every archive that is gone, or about to be pruned, has enough newer ones.
LEMMA NewerStep == BackupTypeOK /\ BackupTypeOK' /\ EnoughNewer /\ [BackupNext]_backup => EnoughNewer'
  <1> SUFFICES ASSUME BackupTypeOK, BackupTypeOK', EnoughNewer, [BackupNext]_backup
               PROVE  EnoughNewer'
    OBVIOUS
  <1>t. /\ tasks \in [Runners -> BackupTasks] /\ DOMAIN tasks = Runners
        /\ made \subseteq Seconds /\ made' \subseteq Seconds
    BY DEF BackupTypeOK
  <1>e. ASSUME made \subseteq made', DOMAIN backups' \subseteq made',
               \A s \in made' \ DOMAIN backups' : s \in made /\ (s \in DOMAIN backups => Expendable(s)),
               \A j \in Runners : tasks'[j].at = "prune" =>
                 \A s \in tasks'[j].old :
                   Expendable(s) \/ (tasks[j].at = "prune" /\ s \in tasks[j].old)
        PROVE  EnoughNewer'
    <2>1. \A s : Expendable(s) => Expendable(s)'
      BY <1>e, <1>t, ExpendableStays
    <2>2. \A j \in Runners : tasks'[j].at = "prune" => \A s \in tasks'[j].old : Expendable(s)'
      BY <1>e, <2>1 DEF EnoughNewer
    <2>3. \A s \in made' \ DOMAIN backups' : Expendable(s)'
      BY <1>e, <2>1 DEF EnoughNewer
    <2> QED BY <1>e, <2>2, <2>3 DEF EnoughNewer
  \* No archive comes or goes, and no job begins to delete.
  <1>k. ASSUME DOMAIN backups' = DOMAIN backups, made' = made,
               \A j \in Runners : tasks'[j].at = "prune" => tasks'[j] = tasks[j]
        PROVE  EnoughNewer'
    BY <1>k, <1>e DEF EnoughNewer
  <1>b. ASSUME NEW j \in Runners, NEW task, Become(j, task)
        PROVE  tasks'[j] = task /\ \A k \in Runners \ {j} : tasks'[k] = tasks[k]
    BY <1>b, <1>t DEF Become
  <1>0. CASE UNCHANGED <<dirVars, tasks>>
    BY <1>0, <1>k DEF dirVars
  <1>1. ASSUME NEW others, CopyLog(others), UNCHANGED dirVars PROVE EnoughNewer'
    <2>1. \A j \in Runners : tasks'[j].at = "prune" => tasks'[j] = tasks[j]
      BY <1>1, <1>t, CopyLogIs
    <2> QED BY <1>1, <1>k, <2>1 DEF dirVars
  <1>2. ASSUME NEW j \in Runners, ReadDb(j) \/ ReadKey(j) \/ OpenTemp(j) \/ WriteArchive(j)
        PROVE  EnoughNewer'
    <2>1. DOMAIN backups' = DOMAIN backups /\ made' = made
      BY <1>2 DEF ReadDb, ReadKey, OpenTemp, WriteArchive, dirVars
    <2>2. \E task : Become(j, task) /\ task.at # "prune"
      <3>0. CASE ReadDb(j)
        <4> DEFINE task == [at |-> "key", db |-> IF tasks[j].torn THEN Torn ELSE dbFile]
        <4>1. Become(j, task) /\ task.at # "prune"
          BY <3>0 DEF ReadDb
        <4> HIDE DEF task
        <4> QED BY <4>1
      <3>1. CASE ReadKey(j)
        <4> DEFINE task == [at |-> "open", second |-> second,
                            file |-> [db |-> tasks[j].db, key |-> oprfKey]]
        <4>1. Become(j, task) /\ task.at # "prune"
          BY <3>1 DEF ReadKey
        <4> HIDE DEF task
        <4> QED BY <4>1
      <3>2. CASE OpenTemp(j)
        <4> DEFINE task == [tasks[j] EXCEPT !.at = "write"]
        <4>1. tasks[j] \in ArchiveTask
          BY <3>2, <1>t, TaskIs DEF OpenTemp
        <4>2. Become(j, task) /\ task.at # "prune"
          BY <3>2, <4>1 DEF OpenTemp, ArchiveTask
        <4> HIDE DEF task
        <4> QED BY <4>2
      <3>3. CASE WriteArchive(j)
        <4> DEFINE task == [tasks[j] EXCEPT !.at = "rename"]
        <4>1. tasks[j] \in ArchiveTask
          BY <3>3, <1>t, TaskIs DEF WriteArchive
        <4>2. Become(j, task) /\ task.at # "prune"
          BY <3>3, <4>1 DEF WriteArchive, ArchiveTask
        <4> HIDE DEF task
        <4> QED BY <4>2
      <3> QED BY <1>2, <3>0, <3>1, <3>2, <3>3
    <2> QED BY <1>k, <1>b, <2>1, <2>2
  <1>3. ASSUME NEW j \in Runners, RenameArchive(j) PROVE EnoughNewer'
    <2>1. Become(j, [at |-> "list"]) \/ Become(j, NoTask)
      BY <1>3 DEF RenameArchive
    <2>2. \A k \in Runners : tasks'[k].at = "prune" => tasks'[k] = tasks[k]
      BY <1>b, <2>1 DEF NoTask
    <2>3. \/ backups' = backups /\ made' = made
          \/ /\ DOMAIN backups' = DOMAIN backups \cup {tasks[j].second}
             /\ made' = made \cup {tasks[j].second}
      <3>1. \/ backups' = backups /\ made' = made
            \/ /\ backups' = Filed(backups, tasks[j].second, temps[tasks[j].second])
               /\ made' = made \cup {tasks[j].second}
        BY <1>3 DEF RenameArchive
      <3>2. DOMAIN Filed(backups, tasks[j].second, temps[tasks[j].second])
              = DOMAIN backups \cup {tasks[j].second}
        BY DEF Filed
      <3> QED BY <3>1, <3>2
    <2> QED BY <1>e, <2>2, <2>3 DEF EnoughNewer
  <1>4. ASSUME NEW j \in Runners, ListOld(j) PROVE EnoughNewer'
    <2> DEFINE task == [at |-> "prune", old |-> BeyondRetention]
    <2>1. Become(j, task) /\ UNCHANGED <<backups, made>>
      BY <1>4 DEF ListOld, dirVars
    <2>2. ASSUME NEW s \in BeyondRetention PROVE Expendable(s)
      <3>1. Retention \in Nat /\ Retention > 0 /\ Cardinality(Newer(s)) >= Retention
        BY <2>2, BackupAssumption DEF BeyondRetention
      <3>2. IsFiniteSet(MadeAfter(s))
        <4>1. 0 \in Int /\ LastSecond \in Int
          BY BackupAssumption
        <4>2. IsFiniteSet(Seconds) /\ MadeAfter(s) \subseteq Seconds
          BY <1>t, <4>1, FS_Interval DEF Seconds, MadeAfter
        <4> QED BY <4>2, FS_Subset
      <3>3. Newer(s) \subseteq MadeAfter(s)
        BY DEF EnoughNewer, Newer, MadeAfter
      <3>4. Cardinality(Newer(s)) <= Cardinality(MadeAfter(s)) /\ IsFiniteSet(Newer(s))
        BY <3>2, <3>3, FS_Subset
      <3>5. Cardinality(Newer(s)) \in Nat /\ Cardinality(MadeAfter(s)) \in Nat
        BY <3>2, <3>4, FS_CardinalityType
      <3> QED BY <3>1, <3>4, <3>5 DEF Expendable
    <2>3. \A s \in task.old : Expendable(s)
      BY <2>2
    <2>4. tasks'[j] = task /\ \A k \in Runners \ {j} : tasks'[k] = tasks[k]
      BY <1>b, <2>1
    <2> HIDE DEF task
    <2> QED BY <1>e, <2>1, <2>3, <2>4 DEF EnoughNewer
  <1>5. ASSUME NEW j \in Runners, PruneOld(j) PROVE EnoughNewer'
    <2>1. tasks[j] \in [at : {"prune"}, old : SUBSET Seconds] /\ made' = made
      BY <1>5, <1>t, TaskIs DEF PruneOld
    <2>2. CASE Become(j, NoTask) /\ UNCHANGED backups
      BY <1>b, <1>k, <2>1, <2>2 DEF NoTask
    <2>3. ASSUME NEW s \in tasks[j].old, Become(j, [tasks[j] EXCEPT !.old = tasks[j].old \ {s}]),
                 backups' \in {backups, Removed(backups, s)}
          PROVE  EnoughNewer'
      <3> DEFINE task == [tasks[j] EXCEPT !.old = tasks[j].old \ {s}]
      <3>1. task.old \subseteq tasks[j].old /\ tasks[j].at = "prune"
        BY <2>1
      <3>2. tasks'[j] = task /\ \A k \in Runners \ {j} : tasks'[k] = tasks[k]
        BY <1>b, <2>3
      <3>3. Expendable(s)
        BY <3>1 DEF EnoughNewer
      <3>4. DOMAIN backups' = DOMAIN backups \/ DOMAIN backups' = DOMAIN backups \ {s}
        BY <2>3, FiledIs
      <3> HIDE DEF task
      <3> QED BY <1>e, <2>1, <3>1, <3>2, <3>3, <3>4 DEF EnoughNewer
    <2> QED BY <1>5, <2>2, <2>3 DEF PruneOld
  <1>6. ASSUME NEW clean \in BOOLEAN, StopServer(clean) PROVE EnoughNewer'
    <2>1. \A j \in Runners : tasks'[j].at = "idle"
      BY <1>6, <1>t DEF StopServer, NoTask
    <2> QED BY <1>6, <1>k, <2>1 DEF StopServer, dirVars
  <1> QED BY <1>0, <1>1, <1>2, <1>3, <1>4, <1>5, <1>6, <1>t DEF BackupNext, backup, Register,
             AutoCheckpoint, CheckpointWal, StartServer, FlagUsers, WriteKey, KillCommand, RestoreBackup,
             SecondPasses

\* A name two jobs share stays known as shared; any other is written by one.
LEMMA NamesStep ==
  BackupTypeOK /\ KeysGo /\ EnoughNewer /\ NamesAlone /\ [BackupNext]_backup => NamesAlone'
  <1> SUFFICES ASSUME BackupTypeOK, KeysGo, EnoughNewer, NamesAlone, [BackupNext]_backup
               PROVE  NamesAlone'
    OBVIOUS
  <1>t. /\ tasks \in [Runners -> BackupTasks] /\ DOMAIN tasks = Runners
        /\ DOMAIN backups \subseteq made
    BY DEF BackupTypeOK, EnoughNewer
  <1>b. ASSUME NEW j \in Runners, NEW task, Become(j, task)
        PROVE  /\ tasks'[j] = task /\ \A k \in Runners \ {j} : tasks'[k] = tasks[k]
               /\ DOMAIN tasks' = Runners
    BY <1>b, <1>t DEF Become
  \* A job may go on to another step, or another archive go.
  <1>k. ASSUME DOMAIN tasks' = Runners, UNCHANGED <<made, shared, temps>>,
               \A j \in Runners : tasks'[j].at \in {"open", "write", "rename"} => tasks'[j] = tasks[j],
               DOMAIN backups' \subseteq DOMAIN backups,
               \A s \in DOMAIN backups' : backups'[s] = backups[s]
        PROVE  NamesAlone'
    <2>1. \A s : Naming(s)' \subseteq Naming(s) /\ \A j \in Naming(s)' : tasks'[j] = tasks[j]
      BY <1>k, <1>t DEF Naming
    <2> QED BY <1>k, <2>1 DEF NamesAlone
  <1>0. CASE UNCHANGED <<dirVars, tasks>>
    BY <1>0, <1>k, <1>t DEF dirVars
  <1>1. ASSUME NEW others, CopyLog(others), UNCHANGED dirVars PROVE NamesAlone'
    <2>1. \A j \in Runners : tasks'[j].at \in {"open", "write", "rename"} => tasks'[j] = tasks[j]
      BY <1>1, <1>t, CopyLogIs
    <2>2. DOMAIN tasks' = Runners
      BY <1>1, <1>t, CopyLogIs
    <2> QED BY <1>1, <1>k, <2>1, <2>2 DEF dirVars
  <1>r. ASSUME NEW j \in Runners, ReadDb(j) PROVE NamesAlone'
    <2> DEFINE task == [at |-> "key", db |-> IF tasks[j].torn THEN Torn ELSE dbFile]
    <2>1. Become(j, task) /\ task.at = "key" /\ UNCHANGED dirVars
      BY <1>r DEF ReadDb
    <2> HIDE DEF task
    <2> QED BY <1>b, <1>k, <2>1 DEF dirVars
  <1>2. ASSUME NEW j \in Runners, ReadKey(j) PROVE NamesAlone'
    <2> DEFINE task == [at |-> "open", second |-> second,
                        file |-> [db |-> tasks[j].db, key |-> oprfKey]]
    <2>1. /\ tasks[j].at = "key" /\ Become(j, task) /\ UNCHANGED <<backups, temps, made, second>>
          /\ shared' = shared \cup
               IF second \in DOMAIN temps \cup made \/ Naming(second) # {} THEN {second} ELSE {}
      BY <1>2 DEF ReadKey, counters
    <2>2. task.at = "open" /\ task.second = second
      OBVIOUS
    <2> HIDE DEF task
    <2>3. /\ tasks'[j] = task /\ \A k \in Runners \ {j} : tasks'[k] = tasks[k]
          /\ DOMAIN tasks' = Runners
      BY <1>b, <2>1
    <2>4. \A s : s # second => /\ Naming(s)' = Naming(s) /\ \A k \in Naming(s) : tasks'[k] = tasks[k]
      BY <1>t, <2>1, <2>2, <2>3 DEF Naming
    <2>5. Naming(second)' = Naming(second) \cup {j}
      BY <1>t, <2>1, <2>2, <2>3 DEF Naming
    <2>6. second \notin shared' => second \notin DOMAIN temps \cup made /\ Naming(second) = {}
      BY <2>1
    <2>7. ASSUME NEW s \in Seconds \ shared'
          PROVE  /\ s \in DOMAIN backups' => backups'[s] # Partial
                 /\ \A i \in Naming(s)' :
                      /\ s \notin made'
                      /\ \A k \in Naming(s)' : k = i
                      /\ tasks'[i].at = "rename" /\ s \in DOMAIN temps' => temps'[s] = tasks'[i].file
      <3>1. CASE s = second
        BY <2>1, <2>2, <2>3, <2>5, <2>6, <2>7, <3>1, <1>t
      <3>2. CASE s # second
        BY <2>1, <2>4, <2>7, <3>2 DEF NamesAlone
      <3> QED BY <3>1, <3>2
    <2> QED BY <2>7 DEF NamesAlone
  \* The job that opens or writes an archive touches no other's.
  <1>w. ASSUME NEW j \in Runners, NEW task, Become(j, task),
               tasks[j] \in ArchiveTask, task.second = tasks[j].second, task.file = tasks[j].file,
               task.at \in {"write", "rename"}, UNCHANGED <<made, shared>>,
               DOMAIN backups' = DOMAIN backups,
               \A s \in DOMAIN backups : s # tasks[j].second => backups'[s] = backups[s],
               \A s : s # tasks[j].second =>
                 /\ s \in DOMAIN temps' <=> s \in DOMAIN temps
                 /\ s \in DOMAIN temps => temps'[s] = temps[s],
               task.at = "rename" =>
                 \/ \E k \in Naming(tasks[j].second) : k # j
                 \/ tasks[j].second \notin DOMAIN temps'
                 \/ temps'[tasks[j].second] = tasks[j].file
        PROVE  NamesAlone'
    <2>1. /\ tasks'[j] = task /\ \A k \in Runners \ {j} : tasks'[k] = tasks[k]
          /\ DOMAIN tasks' = Runners
      BY <1>b, <1>w
    <2>2. tasks[j].at \in {"open", "write", "rename"}
      BY <1>w DEF ArchiveTask
    <2>3. \A s : Naming(s)' = Naming(s)
      BY <1>t, <1>w, <2>1, <2>2 DEF Naming
    <2>4. j \in Naming(tasks[j].second)
      BY <1>t, <2>2 DEF Naming
    <2>5. ASSUME NEW s \in Seconds \ shared'
          PROVE  /\ s \in DOMAIN backups' => backups'[s] # Partial
                 /\ \A i \in Naming(s)' :
                      /\ s \notin made'
                      /\ \A k \in Naming(s)' : k = i
                      /\ tasks'[i].at = "rename" /\ s \in DOMAIN temps' => temps'[s] = tasks'[i].file
      <3>1. CASE s = tasks[j].second
        <4>1. s \notin made /\ \A k \in Naming(s) : k = j
          BY <1>w, <2>4, <2>5, <3>1 DEF NamesAlone
        <4>2. s \notin DOMAIN backups'
          BY <1>w, <1>t, <4>1
        <4> QED BY <1>w, <2>1, <2>3, <3>1, <4>1, <4>2
      <3>2. CASE s # tasks[j].second
        <4>1. \A k \in Naming(s) : k # j /\ k \in Runners
          BY <1>t, <3>2 DEF Naming
        <4>2. /\ s \in DOMAIN backups => backups[s] # Partial
              /\ \A i \in Naming(s) :
                   /\ s \notin made
                   /\ \A k \in Naming(s) : k = i
                   /\ tasks[i].at = "rename" /\ s \in DOMAIN temps => temps[s] = tasks[i].file
          BY <1>w, <2>5 DEF NamesAlone
        <4> QED BY <1>w, <2>1, <2>3, <3>2, <4>1, <4>2
      <3> QED BY <3>1, <3>2
    <2> QED BY <2>5 DEF NamesAlone
  <1>3. ASSUME NEW j \in Runners, OpenTemp(j) PROVE NamesAlone'
    <2>1. tasks[j] \in ArchiveTask
      BY <1>3, <1>t, TaskIs DEF OpenTemp
    <2> DEFINE task == [tasks[j] EXCEPT !.at = "write"]
    <2>2. task.second = tasks[j].second /\ task.file = tasks[j].file /\ task.at = "write"
      BY <2>1 DEF ArchiveTask
    <2>3. Become(j, task) /\ UNCHANGED <<made, shared, backups>>
          /\ temps' = Filed(temps, tasks[j].second, Partial)
      BY <1>3 DEF OpenTemp
    <2>4. \A s : s # tasks[j].second => (s \in DOMAIN temps' <=> s \in DOMAIN temps)
                                        /\ (s \in DOMAIN temps => temps'[s] = temps[s])
      BY <2>3 DEF Filed
    <2> HIDE DEF task
    <2> QED BY <1>w, <2>1, <2>2, <2>3, <2>4
  <1>4. ASSUME NEW j \in Runners, WriteArchive(j) PROVE NamesAlone'
    <2>1. tasks[j] \in ArchiveTask
      BY <1>4, <1>t, TaskIs DEF WriteArchive
    <2> DEFINE task == [tasks[j] EXCEPT !.at = "rename"]
    <2>2. task.second = tasks[j].second /\ task.file = tasks[j].file /\ task.at = "rename"
      BY <2>1 DEF ArchiveTask
    <2>3. Become(j, task) /\ UNCHANGED <<made, shared>>
      BY <1>4 DEF WriteArchive
    <2>s. PICK s \in Seconds : s = tasks[j].second
      BY <2>1 DEF ArchiveTask
    <2>4. PICK content :
            /\ content = tasks[j].file \/ \E k \in Naming(s) : k # j
            /\ temps' = IF s \in DOMAIN temps THEN [temps EXCEPT ![s] = content] ELSE temps
            /\ backups' = backups \/ backups' = [backups EXCEPT ![s] = content]
      BY <1>4, <2>s DEF WriteArchive
    <2>5. /\ DOMAIN backups' = DOMAIN backups /\ DOMAIN temps' = DOMAIN temps
          /\ \A r \in DOMAIN backups : r # s => backups'[r] = backups[r]
          /\ \A r \in DOMAIN temps : r # s => temps'[r] = temps[r]
          /\ s \in DOMAIN temps => temps'[s] = content
      BY <2>4
    <2> HIDE DEF task
    <2> QED BY <1>w, <2>1, <2>2, <2>3, <2>s, <2>4, <2>5
  <1>5. ASSUME NEW j \in Runners, RenameArchive(j) PROVE NamesAlone'
    <2>1. tasks[j] \in ArchiveTask /\ tasks[j].at = "rename"
      BY <1>5, <1>t, TaskIs DEF RenameArchive
    <2>s. PICK s \in Seconds : s = tasks[j].second
      BY <2>1 DEF ArchiveTask
    <2>2. PICK task : task.at \in {"list", "idle"} /\ Become(j, task)
      <3>1. [at |-> "list"].at = "list" /\ NoTask.at = "idle"
        BY DEF NoTask
      <3>2. Become(j, [at |-> "list"]) \/ Become(j, NoTask)
        BY <1>5 DEF RenameArchive
      <3>3. CASE Become(j, [at |-> "list"])
        <4> DEFINE task == [at |-> "list"]
        <4>1. task.at = "list" /\ Become(j, task)
          BY <3>3
        <4> HIDE DEF task
        <4> QED BY <4>1
      <3> QED BY <3>1, <3>2, <3>3
    <2>3. /\ tasks'[j] = task /\ \A k \in Runners \ {j} : tasks'[k] = tasks[k]
          /\ DOMAIN tasks' = Runners
      BY <1>b, <2>2
    <2>4. \/ UNCHANGED <<backups, temps, made>> /\ s \notin DOMAIN temps
          \/ /\ backups' = Filed(backups, s, temps[s]) /\ temps' = Removed(temps, s)
             /\ made' = made \cup {s} /\ s \in DOMAIN temps
      BY <1>5, <2>s DEF RenameArchive
    <2>5. shared' = shared
      BY <1>5 DEF RenameArchive
    <2>6. \A r : Naming(r)' = Naming(r) \ {j} /\ (r # s => j \notin Naming(r))
      BY <1>t, <2>2, <2>3, <2>s DEF Naming
    <2>7. j \in Naming(s)
      BY <1>t, <2>1, <2>s DEF Naming
    <2>8. \A r : r # s =>
            /\ r \in DOMAIN backups' <=> r \in DOMAIN backups
            /\ r \in DOMAIN backups => backups'[r] = backups[r]
            /\ r \in DOMAIN temps' <=> r \in DOMAIN temps
            /\ r \in DOMAIN temps => temps'[r] = temps[r]
            /\ r \in made' <=> r \in made
      BY <2>4 DEF Filed, Removed
    <2>9. ASSUME NEW r \in Seconds \ shared'
          PROVE  /\ r \in DOMAIN backups' => backups'[r] # Partial
                 /\ \A i \in Naming(r)' :
                      /\ r \notin made'
                      /\ \A k \in Naming(r)' : k = i
                      /\ tasks'[i].at = "rename" /\ r \in DOMAIN temps' => temps'[r] = tasks'[i].file
      <3>0. /\ r \in DOMAIN backups => backups[r] # Partial
            /\ \A i \in Naming(r) :
                 /\ r \notin made
                 /\ \A k \in Naming(r) : k = i
                 /\ tasks[i].at = "rename" /\ r \in DOMAIN temps => temps[r] = tasks[i].file
        BY <2>5, <2>9 DEF NamesAlone
      <3>1. CASE r = s
        <4>1. Naming(r)' = {}
          BY <2>6, <2>7, <3>0, <3>1
        <4>2. tasks[j].file # Partial
          BY <2>1 DEF KeysGo, HasArchive
        <4>3. s \in DOMAIN temps => temps[s] # Partial
          BY <2>1, <2>7, <3>0, <3>1, <4>2
        <4>4. s \in DOMAIN temps => Filed(backups, s, temps[s])[s] = temps[s]
          BY DEF Filed
        <4> QED BY <2>4, <3>0, <3>1, <4>1, <4>3, <4>4
      <3>2. CASE r # s
        <4>1. Naming(r)' = Naming(r) /\ \A k \in Naming(r) : tasks'[k] = tasks[k]
          BY <1>t, <2>3, <2>6, <3>2 DEF Naming
        <4> QED BY <2>8, <3>0, <3>2, <4>1
      <3> QED BY <3>1, <3>2
    <2> QED BY <2>9 DEF NamesAlone
  <1>6. ASSUME NEW j \in Runners, ListOld(j) PROVE NamesAlone'
    <2> DEFINE task == [at |-> "prune", old |-> BeyondRetention]
    <2>1. Become(j, task) /\ task.at = "prune" /\ UNCHANGED dirVars
      BY <1>6 DEF ListOld
    <2> HIDE DEF task
    <2> QED BY <1>b, <1>k, <2>1 DEF dirVars
  <1>7. ASSUME NEW j \in Runners, PruneOld(j) PROVE NamesAlone'
    <2>1. tasks[j] \in [at : {"prune"}, old : SUBSET Seconds]
      BY <1>7, <1>t, TaskIs DEF PruneOld
    <2>2. UNCHANGED <<made, shared, temps>>
      BY <1>7 DEF PruneOld
    <2>3. CASE Become(j, NoTask) /\ UNCHANGED backups
      <3>1. NoTask.at = "idle"
        BY DEF NoTask
      <3> QED BY <1>b, <1>k, <2>2, <2>3, <3>1
    <2>4. ASSUME NEW s, Become(j, [tasks[j] EXCEPT !.old = tasks[j].old \ {s}]),
                 backups' \in {backups, Removed(backups, s)}
          PROVE  NamesAlone'
      <3> DEFINE task == [tasks[j] EXCEPT !.old = tasks[j].old \ {s}]
      <3>1. Become(j, task) /\ task.at = "prune"
        BY <2>1, <2>4
      <3>2. DOMAIN backups' \subseteq DOMAIN backups /\ \A r \in DOMAIN backups' : backups'[r] = backups[r]
        BY <2>4 DEF Removed
      <3> HIDE DEF task
      <3> QED BY <1>b, <1>k, <2>2, <3>1, <3>2
    <2> QED BY <1>7, <2>3, <2>4 DEF PruneOld
  <1>8. ASSUME NEW clean \in BOOLEAN, StopServer(clean) PROVE NamesAlone'
    <2>1. \A j \in Runners : tasks'[j].at = "idle"
      BY <1>8, <1>t DEF StopServer, NoTask
    <2>2. DOMAIN tasks' = Runners
      BY <1>8, <1>t DEF StopServer
    <2>3. \A s : Naming(s)' = {}
      BY <2>1, <2>2 DEF Naming
    <2> QED BY <1>8, <2>3 DEF StopServer, NamesAlone
  <1> QED BY <1>0, <1>1, <1>r, <1>2, <1>3, <1>4, <1>5, <1>6, <1>7, <1>8, <1>t DEF BackupNext, backup,
             Register, AutoCheckpoint, CheckpointWal, StartServer, FlagUsers, WriteKey, KillCommand,
             RestoreBackup, SecondPasses

\* There is no archive at the start.
LEMMA BackupStart == BackupInit => BackupInv
  <1> SUFFICES ASSUME BackupInit PROVE BackupInv
    OBVIOUS
  <1>1. /\ up = TRUE /\ wal = FALSE /\ database = [u \in Logins |-> "unknown"] /\ dbFile = database
        /\ oprfKey = 0 /\ loadedKey = 0 /\ hotSince = LastSecond + 1 /\ second = 0 /\ started = 0
        /\ backups = <<>> /\ temps = <<>>
        /\ tasks = [j \in Runners |-> NoTask] /\ cli = "none" /\ made = {} /\ shared = {}
    BY DEF BackupInit
  <1>2. DOMAIN backups = {} /\ DOMAIN temps = {}
    BY <1>1
  <1>3. BackupTypeOK
    <2>1. database \in Copies
      BY <1>1 DEF Copies, Databases
    <2>2. /\ oprfKey \in OprfKeys /\ loadedKey \in OprfKeys
          /\ second \in Seconds /\ started \in 0 .. MaxJobs /\ hotSince \in 0 .. LastSecond + 1
      BY <1>1, BackupAssumption DEF OprfKeys, Seconds
    <2>3. tasks \in [Runners -> BackupTasks]
      BY <1>1 DEF BackupTasks
    <2> QED BY <1>1, <1>2, <2>1, <2>2, <2>3 DEF BackupTypeOK
  <1>4. \A j \in Runners : tasks[j] = NoTask /\ tasks[j].at = "idle"
    BY <1>1 DEF NoTask
  <1>5. KeysGo
    BY <1>1, <1>2, <1>4 DEF KeysGo, KeysFit, Cold, FitsIn, HasArchive, KeyFits
  <1>6. EnoughNewer
    BY <1>1, <1>2, <1>4 DEF EnoughNewer
  <1>7. NamesAlone
    BY <1>1, <1>2, <1>4 DEF NamesAlone, Naming
  <1> QED BY <1>3, <1>5, <1>6, <1>7 DEF BackupInv

\* NewestKept: the newest archives stay, complete and with the key that goes
\* with their database, through overlapping jobs, kills and rotations
\* (backup.rs: run_once, prune_old_backups; the restore and rotate commands).
THEOREM NewestAreKept == BackupSpec => []NewestKept
  <1>1. BackupInv /\ [BackupNext]_backup => BackupInv'
    BY BackupTyped, KeysStep, NewerStep, NamesStep DEF BackupInv
  <1>2. BackupInv => NewestKept
    <2> SUFFICES ASSUME BackupInv, NEW s \in made,
                        Retention = 0 \/ Cardinality({t \in made : t > s}) < Retention
                 PROVE  /\ s \in DOMAIN backups
                        /\ s \notin shared => backups[s] # Partial
                        /\ s < hotSince => KeyFits(backups[s].db, backups[s].key)
      BY DEF NewestKept
    <2>1. s \in Seconds /\ made \subseteq Seconds
      BY DEF BackupInv, BackupTypeOK
    <2>2. ~ Expendable(s)
      <3>1. 0 \in Int /\ LastSecond \in Int /\ Retention \in Nat
        BY BackupAssumption
      <3>2. IsFiniteSet(Seconds) /\ MadeAfter(s) \subseteq Seconds
        BY <2>1, <3>1, FS_Interval DEF Seconds, MadeAfter
      <3>3. Cardinality(MadeAfter(s)) \in Nat
        BY <3>2, FS_Subset, FS_CardinalityType
      <3> QED BY <3>1, <3>3 DEF Expendable, MadeAfter
    <2>3. s \in DOMAIN backups
      BY <2>2 DEF BackupInv, EnoughNewer
    <2> QED BY <2>1, <2>3 DEF BackupInv, KeysGo, FitsIn, NamesAlone
  <1> QED BY BackupStart, <1>1, <1>2, PTL DEF BackupSpec

\* The database, the jobs and the archive directory keep their types: whatever
\* is killed, a file of the directory is an archive, whole or partial, named by
\* a second of the clock (backup.rs: run_once, prune_old_backups; the restore and
\* rotate commands).
THEOREM ArchivesTyped == BackupSpec => []BackupTypeOK
  <1>1. BackupInit => BackupTypeOK
    BY BackupStart DEF BackupInv
  <1> QED BY <1>1, BackupTyped, PTL DEF BackupSpec

(***************************************************************************)
(* ExtensionProxy.                                                         *)
(***************************************************************************)

\* What was let through in the window of a row.
Units(k) == UNION {{e} \X (1 .. taken[e]) : e \in WithinRow[k]}
InWindow(k) == Cardinality(Units(k))

\* The same, picked out of all that was let through.
LEMMA UnitsAre ==
  ASSUME ProxyTypeOK, NEW k \in RowKeys
  PROVE  Units(k) = {u \in LetThrough : u[1] \in WithinRow[k]}
  <1>1. WithinRow[k] \subseteq Events
    BY DEF WithinRow
  <1>2. \A e \in Events : taken[e] \in Nat /\ (1 .. taken[e] # {} => taken[e] > 0)
    BY DEF ProxyTypeOK
  <1>3. \A u : u \in LetThrough <=> \E e \in Events : u \in {e} \X (1 .. taken[e])
    <2> TAKE u
    <2>1. \A e \in Events : u \in {e} \X (1 .. taken[e]) => taken[e] > 0
      BY <1>2
    <2> QED BY <2>1 DEF LetThrough
  <1>4. \A u, e : u \in {e} \X (1 .. taken[e]) => u[1] = e
    OBVIOUS
  <1> QED BY <1>1, <1>3, <1>4 DEF Units

ProxySpec == ProxyInit /\ [][ProxyNext]_proxy

ProxyInv ==
  /\ ProxyTypeOK
  /\ \A k \in RowKeys : IsFiniteSet(Units(k)) /\ used[k] = InWindow(k) /\ used[k] <= LimitOf[k]

\* A request is counted in the rows of its windows and in no others.
LEMMA RowsAreWindows ==
  ASSUME NEW kind \in {"requests", "bytes"}, NEW u \in Callers, NEW x \in Extensions,
         NEW t \in Minutes, NEW k \in RowKeys
  PROVE  k \in RowsOf(kind, u, x, t) <=> <<kind, u, x, t>> \in WithinRow[k]
  <1>1. PICK kind0 \in {"requests", "bytes"}, u0 \in Callers, x0 \in Extensions, t0 \in Minutes :
          k \in RowsOf(kind0, u0, x0, t0)
    BY DEF RowKeys
  <1>2. PICK s0 \in {x0, Total}, w0 \in Windows[kind0] :
          k = <<kind0, u0, s0, w0, WindowAt(w0, t0)>>
    BY <1>1 DEF RowsOf
  <1>3. k[1] = kind0 /\ k[2] = u0 /\ k[3] = s0 /\ k[4] = w0 /\ k[5] = WindowAt(w0, t0)
    BY <1>2
  <1>4. <<kind, u, x, t>> \in WithinRow[k] <=>
          kind = kind0 /\ u = u0 /\ s0 \in {x, Total} /\ WindowAt(w0, t) = WindowAt(w0, t0)
    BY <1>3 DEF WithinRow, Events
  <1>5. k \in RowsOf(kind, u, x, t) <=>
          kind = kind0 /\ u = u0 /\ s0 \in {x, Total} /\ WindowAt(w0, t) = WindowAt(w0, t0)
    <2>1. ASSUME kind = kind0, u = u0, s0 \in {x, Total}, WindowAt(w0, t) = WindowAt(w0, t0)
          PROVE  k \in RowsOf(kind, u, x, t)
      BY <1>2, <2>1 DEF RowsOf
    <2>2. ASSUME k \in RowsOf(kind, u, x, t)
          PROVE  kind = kind0 /\ u = u0 /\ s0 \in {x, Total} /\ WindowAt(w0, t) = WindowAt(w0, t0)
      <3>1. PICK s \in {x, Total}, w \in Windows[kind] : k = <<kind, u, s, w, WindowAt(w, t)>>
        BY <2>2 DEF RowsOf
      <3> QED BY <1>2, <3>1
    <2> QED BY <2>1, <2>2
  <1> QED BY <1>4, <1>5

\* An event that counts n more adds n to every window it is in.
LEMMA UnitsGrow ==
  ASSUME taken \in [Events -> Nat], NEW e \in Events, NEW n \in Nat,
         taken' = [taken EXCEPT ![e] = @ + n], NEW k \in RowKeys, IsFiniteSet(Units(k))
  PROVE  /\ IsFiniteSet(Units(k)')
         /\ e \notin WithinRow[k] => InWindow(k)' = InWindow(k)
         /\ e \in WithinRow[k] => InWindow(k)' = InWindow(k) + n
  <1> DEFINE a == taken[e]
             more == {e} \X ((a + 1) .. (a + n))
  <1>1. a \in Nat /\ taken'[e] = a + n /\ \A d \in Events \ {e} : taken'[d] = taken[d]
    OBVIOUS
  <1>2. Units(k)' = UNION {{d} \X (1 .. taken'[d]) : d \in WithinRow[k]}
    BY DEF Units, WithinRow
  <1>3. WithinRow[k] \subseteq Events
    BY DEF WithinRow
  <1>4. CASE e \notin WithinRow[k]
    <2>1. Units(k)' = Units(k)
      BY <1>1, <1>2, <1>3, <1>4 DEF Units
    <2> QED BY <1>4, <2>1 DEF InWindow
  <1>5. CASE e \in WithinRow[k]
    <2>1. 1 .. (a + n) = (1 .. a) \cup ((a + 1) .. (a + n))
      BY <1>1
    <2>2. Units(k)' = Units(k) \cup more
      BY <1>1, <1>2, <1>3, <1>5, <2>1 DEF Units
    <2>3. Units(k) \cap more = {}
      BY <1>1 DEF Units
    <2>4. IsFiniteSet((a + 1) .. (a + n)) /\ Cardinality((a + 1) .. (a + n)) = n
      <3>1. a + 1 \in Int /\ a + n \in Int /\ (a + 1 > a + n <=> n = 0) /\ (a + n) - (a + 1) + 1 = n
        BY <1>1
      <3> DEFINE lo == a + 1
                 hi == a + n
      <3>2. lo \in Int /\ hi \in Int /\ (lo > hi <=> n = 0) /\ hi - lo + 1 = n
        BY <3>1
      <3> HIDE DEF lo, hi
      <3>3. IsFiniteSet(lo .. hi) /\ Cardinality(lo .. hi) = n
        BY <3>2, FS_Interval
      <3> QED BY <3>3 DEF lo, hi
    <2> DEFINE new == (a + 1) .. (a + n)
    <2>5. IsFiniteSet(more) /\ Cardinality(more) = n
      <3>1. IsFiniteSet({e}) /\ Cardinality({e}) = 1
        BY FS_Singleton
      <3>2. IsFiniteSet(new) /\ Cardinality(new) = n
        BY <2>4
      <3> HIDE DEF new
      <3>3. IsFiniteSet({e} \X new) /\ Cardinality({e} \X new) = 1 * n
        BY <3>1, <3>2, FS_Product
      <3>4. 1 * n = n
        OBVIOUS
      <3> QED BY <3>3, <3>4 DEF new
    <2> DEFINE old == Units(k)
    <2>6. old \cap more = {} /\ IsFiniteSet(old)
      BY <2>3
    <2> HIDE DEF more, new, old, a
    <2>7. Cardinality(old \cap more) = 0
      BY <2>6, FS_EmptySet
    <2>8. /\ IsFiniteSet(old \cup more)
          /\ Cardinality(old \cup more) = Cardinality(old) + Cardinality(more) - Cardinality(old \cap more)
      BY <2>5, <2>6, FS_Union
    <2>9. Cardinality(old) \in Nat
      BY <2>6, FS_CardinalityType
    <2>10. Cardinality(old \cup more) = Cardinality(old) + n
      BY <2>5, <2>7, <2>8, <2>9
    <2>11. Units(k)' = old \cup more /\ Units(k) = old
      BY <2>2 DEF old
    <2> QED BY <1>5, <2>8, <2>10, <2>11 DEF InWindow
  <1> QED BY <1>4, <1>5

\* What the record of a request says, by how far it got.
LEMMA FetchIs ==
  ASSUME ProxyTypeOK, NEW j \in Fetches
  PROVE  /\ fetches[j].at = "check" => fetches[j].ask \in Asked /\ fetches[j].time \in Minutes
         /\ fetches[j].at = "start" => fetches[j].ask \in Asked
         /\ fetches[j].at = "send" => /\ fetches[j].ask \in Asked /\ fetches[j].hops \in 0 .. MaxRedirects
                                      /\ fetches[j].list \in SUBSET Hosts
         /\ fetches[j].at = "charge" => /\ fetches[j].user \in Callers /\ fetches[j].ext \in Extensions
                                        /\ fetches[j].bytes \in 0 .. 2 * MaxBody
         /\ fetches[j].at = "record" => /\ fetches[j].user \in Callers /\ fetches[j].ext \in Extensions
                                        /\ fetches[j].bytes \in 0 .. 2 * MaxBody
                                        /\ fetches[j].time \in Minutes
  BY DEF ProxyTypeOK, FetchStates, NoFetch

\* A request that goes on keeps its record well formed.
LEMMA ProceedTyped ==
  ASSUME ProxyTypeOK, NEW j \in Fetches, NEW step \in FetchStates, Proceed(j, step)
  PROVE  fetches' \in [Fetches -> FetchStates]
  BY DEF ProxyTypeOK, Proceed

\* The records a request may go on to.
LEMMA StepsTyped ==
  ASSUME NEW ask \in Asked
  PROVE  /\ NoFetch \in FetchStates
         /\ \A t \in Minutes : [at |-> "check", ask |-> ask, time |-> t] \in FetchStates
         /\ [at |-> "start", ask |-> ask] \in FetchStates
         /\ \A hops \in 0 .. MaxRedirects, list \in SUBSET Hosts :
              [at |-> "send", ask |-> ask, hops |-> hops, list |-> list] \in FetchStates
         /\ \A n \in 0 .. MaxBody :
              [at |-> "charge", user |-> ask.user, ext |-> ask.ext, bytes |-> ask.body + n] \in FetchStates
  <1>1. NoFetch \in FetchStates
    BY DEF FetchStates
  <1>2. \A t \in Minutes : [at |-> "check", ask |-> ask, time |-> t] \in FetchStates
    BY DEF FetchStates
  <1>3. [at |-> "start", ask |-> ask] \in FetchStates
    BY DEF FetchStates
  <1>4. \A hops \in 0 .. MaxRedirects, list \in SUBSET Hosts :
          [at |-> "send", ask |-> ask, hops |-> hops, list |-> list] \in FetchStates
    BY DEF FetchStates
  <1>5. ASSUME NEW n \in 0 .. MaxBody
        PROVE  [at |-> "charge", user |-> ask.user, ext |-> ask.ext, bytes |-> ask.body + n] \in FetchStates
    <2>1. ask.user \in Callers /\ ask.ext \in Extensions /\ ask.body \in 0 .. MaxBody
      BY DEF Asked
    <2>2. ask.body + n \in 0 .. 2 * MaxBody
      BY <1>5, <2>1, ExtensionProxyAssumption
    <2> QED BY <2>1, <2>2 DEF FetchStates
  <1> QED BY <1>1, <1>2, <1>3, <1>4, <1>5

\* A step that counts nothing.
LEMMA ProxyQuiet ==
  ASSUME ProxyInv, used' = used, taken' = taken,
         minute' \in Minutes, denied' \in SUBSET Hosts, fetches' \in [Fetches -> FetchStates]
  PROVE  ProxyInv'
  <1>1. ProxyTypeOK'
    BY DEF ProxyInv, ProxyTypeOK
  <1>2. ASSUME NEW k \in RowKeys
        PROVE  Units(k)' = Units(k)
    BY DEF Units, WithinRow
  <1>3. ASSUME NEW k \in RowKeys
        PROVE  IsFiniteSet(Units(k)') /\ used'[k] = Cardinality(Units(k)') /\ used'[k] <= LimitOf[k]
    BY <1>2 DEF ProxyInv, InWindow
  <1> QED BY <1>1, <1>3 DEF ProxyInv, InWindow

\* A charge that fits: the rows of its windows grow by what was let through.
LEMMA ProxyCharge ==
  ASSUME ProxyInv, NEW kind \in {"requests", "bytes"}, NEW u \in Callers, NEW x \in Extensions,
         NEW t \in Minutes, NEW n \in Nat, Fits(kind, u, x, t, n), Add(kind, u, x, t, n),
         minute' = minute, denied' = denied, fetches' \in [Fetches -> FetchStates]
  PROVE  ProxyInv'
  <1> DEFINE e == <<kind, u, x, t>>
  <1>1. e \in Events
    BY DEF Events
  <1>2. taken' = [taken EXCEPT ![e] = @ + n] /\ taken \in [Events -> Nat] /\ used \in [RowKeys -> Nat]
    BY DEF Add, ProxyInv, ProxyTypeOK
  <1>3. used' = [k \in RowKeys |-> IF k \in RowsOf(kind, u, x, t) THEN used[k] + n ELSE used[k]]
    BY DEF Add
  <1>4. ProxyTypeOK'
    <2>1. taken' \in [Events -> Nat]
      BY <1>1, <1>2
    <2>2. used' \in [RowKeys -> Nat]
      BY <1>2, <1>3
    <2> QED BY <2>1, <2>2 DEF ProxyInv, ProxyTypeOK
  <1>5. ASSUME NEW k \in RowKeys
        PROVE  IsFiniteSet(Units(k)') /\ used'[k] = InWindow(k)' /\ used'[k] <= LimitOf[k]
    <2>1. IsFiniteSet(Units(k)) /\ used[k] = InWindow(k) /\ used[k] <= LimitOf[k]
      BY DEF ProxyInv
    <2>2. k \in RowsOf(kind, u, x, t) <=> e \in WithinRow[k]
      BY RowsAreWindows
    <2> HIDE DEF e
    <2>3. /\ IsFiniteSet(Units(k)')
          /\ e \notin WithinRow[k] => InWindow(k)' = InWindow(k)
          /\ e \in WithinRow[k] => InWindow(k)' = InWindow(k) + n
      BY <1>1, <1>2, <2>1, UnitsGrow
    <2>4. CASE k \in RowsOf(kind, u, x, t)
      <3>1. used'[k] = used[k] + n
        BY <1>3, <2>4
      <3>2. used[k] + n <= LimitOf[k]
        BY <2>4 DEF Fits
      <3> QED BY <2>1, <2>2, <2>3, <2>4, <3>1, <3>2
    <2>5. CASE k \notin RowsOf(kind, u, x, t)
      <3>1. used'[k] = used[k]
        BY <1>3, <2>5
      <3> QED BY <2>1, <2>2, <2>3, <2>5, <3>1
    <2> QED BY <2>4, <2>5
  <1> QED BY <1>4, <1>5 DEF ProxyInv

\* Contacting a host, or not: a hop more for the same fetch.
LEMMA ContactTyped ==
  ASSUME ProxyTypeOK, NEW j \in Fetches, NEW ask \in Asked, NEW hops \in 0 .. MaxRedirects,
         NEW list \in SUBSET Hosts, Contact(j, ask, hops, list)
  PROVE  fetches' \in [Fetches -> FetchStates]
  <1>1. CASE ask.host \in list
    <2>1. Proceed(j, NoFetch)
      BY <1>1 DEF Contact, End
    <2> QED BY <2>1, StepsTyped, ProceedTyped
  <1>2. CASE ask.host \notin list
    <2> DEFINE step == [at |-> "send", ask |-> ask, hops |-> hops, list |-> list]
    <2>1. Proceed(j, step)
      BY <1>2 DEF Contact
    <2>2. step \in FetchStates
      BY StepsTyped
    <2> HIDE DEF step
    <2> QED BY <2>1, <2>2, ProceedTyped
  <1> QED BY <1>1, <1>2

\* The end of a fetch.
LEMMA DoneTyped ==
  ASSUME ProxyTypeOK, NEW j \in Fetches, fetches[j].ask \in Asked, NEW n \in 0 .. MaxBody, FetchDone(j, n)
  PROVE  fetches' \in [Fetches -> FetchStates]
  <1> DEFINE ask == fetches[j].ask
             step == [at |-> "charge", user |-> ask.user, ext |-> ask.ext, bytes |-> ask.body + n]
  <1>1. Proceed(j, step)
    BY DEF FetchDone
  <1>2. step \in FetchStates
    <2>1. ask \in Asked
      OBVIOUS
    <2> HIDE DEF ask
    <2> QED BY <2>1, StepsTyped
  <1> HIDE DEF step
  <1> QED BY <1>1, <1>2, ProceedTyped

\* A request that ends leaves its place free.
LEMMA EndTyped ==
  ASSUME ProxyTypeOK, NEW j \in Fetches, End(j)
  PROVE  fetches' \in [Fetches -> FetchStates]
  <1>1. NoFetch \in FetchStates
    BY DEF FetchStates
  <1> QED BY <1>1, ProceedTyped DEF End

\* Every step of the proxy keeps its rows and what was let through in step.
LEMMA ProxyStep ==
  ASSUME ProxyInv, [ProxyNext]_proxy
  PROVE  ProxyInv'
  <1>1. /\ ProxyTypeOK /\ minute \in Minutes /\ denied \in SUBSET Hosts
        /\ fetches \in [Fetches -> FetchStates]
    BY DEF ProxyInv, ProxyTypeOK
  <1>2. 0 \in 0 .. MaxBody /\ 0 \in 0 .. MaxRedirects /\ MaxRedirects \in Nat
    BY ExtensionProxyAssumption
  <1>3. ASSUME NEW j \in Fetches, NEW ask \in Asked, ProxyHandler(j, ask)
        PROVE  ProxyInv'
    <2> DEFINE step == [at |-> "check", ask |-> ask, time |-> minute]
    <2>1. step \in FetchStates /\ Proceed(j, step)
      BY <1>1, <1>3, StepsTyped DEF ProxyHandler
    <2> HIDE DEF step
    <2>2. fetches' \in [Fetches -> FetchStates]
      BY <1>1, <2>1, ProceedTyped
    <2> QED BY <1>1, <1>3, <2>2, ProxyQuiet DEF ProxyHandler
  <1>4. ASSUME NEW j \in Fetches, CheckRate(j)
        PROVE  ProxyInv'
    <2> DEFINE ask == fetches[j].ask
               t == fetches[j].time
               step == [at |-> "start", ask |-> ask]
    <2>1. ask \in Asked /\ t \in Minutes
      BY <1>1, <1>4, FetchIs DEF CheckRate
    <2>2. ask.user \in Callers /\ ask.ext \in Extensions
      BY <2>1 DEF Asked
    <2>3. \/ /\ Fits("requests", ask.user, ask.ext, t, 1)
             /\ Add("requests", ask.user, ask.ext, t, 1)
             /\ Proceed(j, step)
          \/ Refuse("requests", ask.user, ask.ext, t, 1) /\ End(j)
      BY <1>4 DEF CheckRate
    <2>4. minute' = minute /\ denied' = denied
      BY <1>4 DEF CheckRate
    <2>5. step \in FetchStates
      <3> HIDE DEF ask
      <3> QED BY <2>1, StepsTyped
    <2> HIDE DEF step
    <2>6. CASE /\ Fits("requests", ask.user, ask.ext, t, 1)
               /\ Add("requests", ask.user, ask.ext, t, 1)
               /\ Proceed(j, step)
      <3>1. fetches' \in [Fetches -> FetchStates]
        BY <1>1, <2>5, <2>6, ProceedTyped
      <3> HIDE DEF ask, t
      <3> QED BY <2>1, <2>2, <2>4, <2>6, <3>1, ProxyCharge
    <2>7. CASE Refuse("requests", ask.user, ask.ext, t, 1) /\ End(j)
      <3>1. fetches' \in [Fetches -> FetchStates]
        BY <1>1, <2>7, EndTyped
      <3> QED BY <1>1, <2>4, <2>7, <3>1, ProxyQuiet DEF Refuse
    <2> QED BY <2>3, <2>6, <2>7
  <1>5. ASSUME NEW j \in Fetches, StartFetch(j)
        PROVE  ProxyInv'
    <2>1. fetches[j].ask \in Asked
      BY <1>1, <1>5, FetchIs DEF StartFetch
    <2>2. fetches' \in [Fetches -> FetchStates]
      BY <1>1, <1>2, <1>5, <2>1, ContactTyped DEF StartFetch
    <2> QED BY <1>1, <1>5, <2>2, ProxyQuiet DEF StartFetch
  <1>6. ASSUME NEW j \in Fetches, NEW h \in Hosts, NEW keeps \in BOOLEAN, Redirect(j, h, keeps)
        PROVE  ProxyInv'
    <2> DEFINE ask == [fetches[j].ask EXCEPT !.host = h]
               hops == fetches[j].hops + 1
               list == fetches[j].list
    <2>1. fetches[j].ask \in Asked /\ fetches[j].hops \in 0 .. MaxRedirects /\ list \in SUBSET Hosts
      BY <1>1, <1>6, FetchIs DEF Redirect
    <2>2. ask \in Asked
      BY <2>1 DEF Asked
    <2>3. FetchDone(j, 0) \/ End(j) \/ (fetches[j].hops # MaxRedirects /\ Contact(j, ask, hops, list))
      BY <1>6 DEF Redirect
    <2>4. fetches' \in [Fetches -> FetchStates]
      <3>1. CASE FetchDone(j, 0)
        BY <1>1, <1>2, <2>1, <3>1, DoneTyped
      <3>2. CASE End(j)
        BY <1>1, <3>2, EndTyped
      <3>3. CASE fetches[j].hops # MaxRedirects /\ Contact(j, ask, hops, list)
        <4>1. hops \in 0 .. MaxRedirects
          BY <1>2, <2>1, <3>3
        <4> HIDE DEF ask, hops, list
        <4> QED BY <1>1, <2>1, <2>2, <3>3, <4>1, ContactTyped
      <3> QED BY <2>3, <3>1, <3>2, <3>3
    <2> QED BY <1>1, <1>6, <2>4, ProxyQuiet DEF Redirect
  <1>7. ASSUME NEW j \in Fetches, NEW n \in 0 .. MaxBody, Fetched(j, n)
        PROVE  ProxyInv'
    <2>1. fetches[j].ask \in Asked
      BY <1>1, <1>7, FetchIs DEF Fetched
    <2>2. fetches' \in [Fetches -> FetchStates]
      BY <1>1, <1>7, <2>1, DoneTyped DEF Fetched
    <2> QED BY <1>1, <1>7, <2>2, ProxyQuiet DEF Fetched
  <1>8. ASSUME NEW j \in Fetches, Abandon(j)
        PROVE  ProxyInv'
    <2>1. fetches' \in [Fetches -> FetchStates]
      BY <1>1, <1>8, EndTyped DEF Abandon
    <2> QED BY <1>1, <1>8, <2>1, ProxyQuiet DEF Abandon
  <1>9. ASSUME NEW j \in Fetches, CountBytes(j)
        PROVE  ProxyInv'
    <2> DEFINE r == fetches[j]
               step == [at |-> "record", user |-> r.user, ext |-> r.ext, bytes |-> r.bytes, time |-> minute]
    <2>1. r.user \in Callers /\ r.ext \in Extensions /\ r.bytes \in 0 .. 2 * MaxBody
      BY <1>1, <1>9, FetchIs DEF CountBytes
    <2>2. Proceed(j, step)
      BY <1>9 DEF CountBytes
    <2>3. step \in FetchStates
      BY <1>1, <2>1 DEF FetchStates
    <2> HIDE DEF step
    <2>4. fetches' \in [Fetches -> FetchStates]
      BY <1>1, <2>2, <2>3, ProceedTyped
    <2> QED BY <1>1, <1>9, <2>4, ProxyQuiet DEF CountBytes
  <1>10. ASSUME NEW j \in Fetches, Record(j)
         PROVE  ProxyInv'
    <2> DEFINE r == fetches[j]
    <2>1. r.user \in Callers /\ r.ext \in Extensions /\ r.bytes \in Nat /\ r.time \in Minutes
      BY <1>1, <1>10, FetchIs DEF Record
    <2>2. fetches' \in [Fetches -> FetchStates]
      BY <1>1, <1>10, EndTyped DEF Record
    <2>3. \/ /\ Fits("bytes", r.user, r.ext, r.time, r.bytes)
             /\ Add("bytes", r.user, r.ext, r.time, r.bytes)
          \/ Refuse("bytes", r.user, r.ext, r.time, r.bytes)
      BY <1>10 DEF Record
    <2>4. minute' = minute /\ denied' = denied
      BY <1>10 DEF Record
    <2>5. CASE /\ Fits("bytes", r.user, r.ext, r.time, r.bytes)
               /\ Add("bytes", r.user, r.ext, r.time, r.bytes)
      <3> HIDE DEF r
      <3> QED BY <2>1, <2>2, <2>4, <2>5, ProxyCharge
    <2>6. CASE Refuse("bytes", r.user, r.ext, r.time, r.bytes)
      BY <1>1, <2>2, <2>4, <2>6, ProxyQuiet DEF Refuse
    <2> QED BY <2>3, <2>5, <2>6
  <1>11. ASSUME NEW file \in SUBSET Hosts, ReloadBlocklist(file) \/ RestartProxy(file)
         PROVE  ProxyInv'
    <2>1. denied' \in SUBSET Hosts
      BY <1>11, ExtensionProxyAssumption DEF ReloadBlocklist, RestartProxy, LoadBlocklist
    <2>2. fetches' \in [Fetches -> FetchStates]
      BY <1>1, <1>11 DEF ReloadBlocklist, RestartProxy, FetchStates
    <2> QED BY <1>1, <1>11, <2>1, <2>2, ProxyQuiet DEF ReloadBlocklist, RestartProxy
  <1>12. CASE Clock
    <2>1. minute' \in Minutes
      BY <1>1, <1>12, ExtensionProxyAssumption DEF Clock, Minutes
    <2> QED BY <1>1, <1>12, <2>1, ProxyQuiet DEF Clock
  <1>13. CASE UNCHANGED proxy
    BY <1>1, <1>13, ProxyQuiet DEF proxy
  <1> QED BY <1>3, <1>4, <1>5, <1>6, <1>7, <1>8, <1>9, <1>10, <1>11, <1>12, <1>13 DEF ProxyNext

\* Nothing is charged at the start.
LEMMA ProxyStart == ProxyInit => ProxyInv
  <1> SUFFICES ASSUME ProxyInit
               PROVE  ProxyInv
    OBVIOUS
  <1>1. ProxyTypeOK
    BY ExtensionProxyAssumption DEF ProxyInit, ProxyTypeOK, LoadBlocklist, FetchStates, Minutes
  <1>2. ASSUME NEW k \in RowKeys
        PROVE  IsFiniteSet(Units(k)) /\ used[k] = InWindow(k) /\ used[k] <= LimitOf[k]
    <2>1. \A e \in Events : 1 .. taken[e] = {}
      BY DEF ProxyInit
    <2>2. Units(k) = {}
      BY <2>1 DEF Units, WithinRow
    <2>3. LimitOf[k] \in Nat
      <3>1. PICK kind \in {"requests", "bytes"}, u \in Callers, x \in Extensions, t \in Minutes :
              k \in RowsOf(kind, u, x, t)
        BY DEF RowKeys
      <3>2. k[1] \in {"requests", "bytes"} /\ k[4] \in {"min", "hour", "day"}
        BY <3>1 DEF RowsOf, Windows
      <3> QED BY <3>2, ExtensionProxyAssumption DEF LimitOf
    <2>4. used[k] = 0
      BY DEF ProxyInit
    <2> QED BY <2>2, <2>3, <2>4, FS_EmptySet DEF InWindow
  <1> QED BY <1>1, <1>2 DEF ProxyInv

\* However many requests are in flight between the two charges of a fetch, a
\* rate row of the extension proxy (check_and_increment in extension_proxy.rs)
\* counts exactly the requests and the bytes let through in its window, and is
\* within its limit.
THEOREM ChargesAgree == ProxySpec => []ChargesMatch
  <1>1. ProxyInv /\ [ProxyNext]_proxy => ProxyInv'
    BY ProxyStep
  <1>2. ProxyInv => ChargesMatch
    BY UnitsAre DEF ProxyInv, ChargesMatch, InWindow
  <1> QED BY ProxyStart, <1>1, <1>2, PTL DEF ProxySpec

\* A fetch is in one of its stages with a body and redirects within the
\* limits, and a rate row is a count (extension_proxy.rs: proxy_handler).
THEOREM ProxyTyped == ProxySpec => []ProxyTypeOK
  <1>1. ProxyInv /\ [ProxyNext]_proxy => ProxyInv'
    BY ProxyStep
  <1>2. ProxyInv => ProxyTypeOK
    BY DEF ProxyInv
  <1> QED BY ProxyStart, <1>1, <1>2, PTL DEF ProxySpec

=============================================================================
