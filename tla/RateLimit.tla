----------------------------- MODULE RateLimit ------------------------------
(***************************************************************************)
(* Fixed-window rate limits: a row counts the requests of a key in a       *)
(* window of an hour or a day, and a cleanup job deletes old rows.  Time   *)
(* is counted in hours; windows of a minute are as those of an hour.       *)
(***************************************************************************)
EXTENDS Integers

CONSTANTS Buckets,    \* keys: a kind of request and who makes it
          Daily,      \* those with a window of a day; the others' is an hour
          Quota,      \* requests allowed in a window
          DayHours,   \* hours of a day (24)
          LastHour,   \* bound on the time
          MaxCount    \* bound on the requests of a window

ASSUME RateLimitAssumption ==
  /\ Daily \subseteq Buckets
  /\ {Quota, DayHours, LastHour, MaxCount} \subseteq Nat /\ DayHours > 0

VARIABLES hour,      \* the clock
          counted,   \* counted[k][w]: the row of key k, window start w; 0 if none
          allowed    \* history: requests of each key let through in its window

quotas == <<hour, counted, allowed>>

Hours == 0 .. LastHour
DayOf(h) == h \div DayHours

(* The window of k that is open at h.                                      *)
WindowStart(k, h) == IF k \in Daily THEN DayOf(h) * DayHours ELSE h

QuotasInit ==
  /\ hour = 0
  /\ counted = [k \in Buckets |-> [w \in Hours |-> 0]]
  /\ allowed = [k \in Buckets |-> 0]

(* A kind of request has its key, its window and its limit.                *)
Row(k, h) == [key |-> k, window |-> WindowStart(k, h), limit |-> Quota]

(* One upsert counts the request, refused ones too, and returns the count. *)
Check(k) ==
  LET w == Row(k, hour).window
      n == counted[k][w] + 1
  IN  /\ n <= MaxCount
      /\ counted' = [counted EXCEPT ![k][w] = n]
      /\ allowed' = IF n <= Row(k, hour).limit THEN [allowed EXCEPT ![k] = @ + 1] ELSE allowed
      /\ hour' = hour

(* Variant: the cutoff is half a day ago.                                  *)
CleanupEarly ==
  /\ counted' = [k \in Buckets |-> [w \in Hours |->
       IF w < hour - (DayHours \div 2) THEN 0 ELSE counted[k][w]]]
  /\ counted' # counted
  /\ UNCHANGED <<hour, allowed>>

(* Rows older than a day.  The two times compare as texts of different     *)
(* forms, which agree on the date only: a row goes once the date of its    *)
(* window is before the date of a day ago.                                 *)
Cleanup ==
  /\ counted' = [k \in Buckets |-> [w \in Hours |->
       IF DayOf(w) + 1 < DayOf(hour) THEN 0 ELSE counted[k][w]]]
  /\ counted' # counted
  /\ UNCHANGED <<hour, allowed>>

Tick ==
  /\ hour < LastHour
  /\ hour' = hour + 1
  /\ allowed' = [k \in Buckets |->
       IF WindowStart(k, hour') = WindowStart(k, hour) THEN allowed[k] ELSE 0]
  /\ counted' = counted

QuotasNext == (\E k \in Buckets : Check(k)) \/ Cleanup \/ Tick

-----------------------------------------------------------------------------
QuotasTypeOK ==
  /\ hour \in Hours
  /\ counted \in [Buckets -> [Hours -> 0 .. MaxCount]]
  /\ allowed \in [Buckets -> Nat]

(* No key is let through more often than its quota in a window: the        *)
(* cleanup job never forgets the count of a window that is still open,     *)
(* whenever it runs and however long the window is.                        *)
QuotaHolds == \A k \in Buckets : allowed[k] <= Quota

(* Violated for every n > 1: an export of the same user's data is let      *)
(* through once in EXPORT_RATE_LIMIT_HOURS = n hours                       *)
(* (src/server/README.md:570).  The window of RateLimitKey::DataExport is  *)
(* the current hour whatever n is; n only moves the time the refusal names.*)
ExportsSpaced(k, n) ==
  \A v, w \in Hours : v < w /\ w < v + n => counted[k][v] = 0 \/ counted[k][w] = 0
=============================================================================
