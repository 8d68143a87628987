--------------------------- MODULE ExtensionProxy ---------------------------
(***************************************************************************)
(* The proxy that fetches a URL for a client extension.  A request is      *)
(* counted in four windows -- of a minute and of an hour, for the          *)
(* extension and for all extensions of the user --, follows redirects      *)
(* under the blocklist read when the fetch started, and is charged for the *)
(* bytes it moved in four more windows, of an hour and of a day, before    *)
(* its answer goes out.  The operator may reload the blocklist meanwhile.  *)
(*                                                                         *)
(* Abstracted: encryption of the envelopes, headers, compression, and the  *)
(* addresses a host resolves to.                                           *)
(***************************************************************************)
EXTENDS Integers, FiniteSets

CONSTANTS Callers,       \* users
          Extensions,    \* extension ids
          Total,         \* scope of all extensions of a user
          Fetches,          \* requests the server runs at a time
          Hosts,         \* hosts
          EnvDenied,     \* hosts denied by the environment
          Limit,         \* Limit[kind, scope, window], scope "own" or "total"
          MaxRedirects,  \* redirects followed (5)
          MaxBody,       \* largest body of a request and of a response
          HourMinutes,   \* minutes of an hour (60)
          DayMinutes,    \* minutes of a day (1440)
          LastMinute     \* bound on the time

Windows == [requests |-> {"min", "hour"}, bytes |-> {"hour", "day"}]

ASSUME ExtensionProxyAssumption ==
  /\ Total \notin Extensions /\ EnvDenied \subseteq Hosts
  /\ {MaxRedirects, MaxBody, HourMinutes, DayMinutes, LastMinute} \subseteq Nat
  /\ HourMinutes > 0 /\ DayMinutes > 0 /\ DayMinutes % HourMinutes = 0
  /\ Limit \in [{"requests", "bytes"} \X {"own", "total"} \X {"min", "hour", "day"} -> Nat]

VARIABLES minute,    \* the clock
          used,      \* used[key]: the row of a key and its window; 0 if none
          denied,    \* the blocklist in use
           fetches,      \* requests under way
          taken      \* history: what was let through, per kind, user, extension, minute

proxy == <<minute, used, denied, fetches, taken>>

Minutes == 0 .. LastMinute
Events == {"requests", "bytes"} \X Callers \X Extensions \X Minutes
NoFetch == [at |-> "free"]
Asked == [user : Callers, ext : Extensions, post : BOOLEAN, body : 0 .. MaxBody, host : Hosts]
FetchStates ==
  {NoFetch} \cup
  [at : {"check"}, ask : Asked, time : Minutes] \cup
  [at : {"start"}, ask : Asked] \cup
  [at : {"send"}, ask : Asked, hops : 0 .. MaxRedirects, list : SUBSET Hosts] \cup
  [at : {"charge"}, user : Callers, ext : Extensions, bytes : 0 .. 2 * MaxBody] \cup
  [at : {"record"}, user : Callers, ext : Extensions, bytes : 0 .. 2 * MaxBody, time : Minutes]

(* The window of length w that is open at t, by its first minute.          *)
WindowAt(w, t) ==
  t - (t % CASE w = "min" -> 1 [] w = "hour" -> HourMinutes [] w = "day" -> DayMinutes)

(* The rows a request made at t by extension x of u is counted in.         *)
RowsOf(kind, u, x, t) ==
  {<<kind, u, s, w, WindowAt(w, t)>> : s \in {x, Total}, w \in Windows[kind]}

RowKeys == UNION {RowsOf(kind, u, x, t) :
  kind \in {"requests", "bytes"}, u \in Callers, x \in Extensions, t \in Minutes}

LimitOf == [k \in RowKeys |-> Limit[<<k[1], IF k[3] = Total THEN "total" ELSE "own", k[4]>>]]

(* The blocklist in use: the hosts of the environment and of a file.       *)
LoadBlocklist(file) == EnvDenied \cup file

ProxyInit ==
  /\ minute = 0
  /\ used = [k \in RowKeys |-> 0]
  /\ \E file \in SUBSET Hosts : denied = LoadBlocklist(file)
  /\ fetches = [j \in Fetches |-> NoFetch]
  /\ taken = [e \in Events |-> 0]

-----------------------------------------------------------------------------
Proceed(j, step) == fetches' = [fetches EXCEPT ![j] = step]
End(j) == Proceed(j, NoFetch)

(* Only a POST has a body.                                                 *)
ValidRequest(ask) == ask.post \/ ask.body = 0

(* A valid request.  The time of its windows is read before the transaction *)
(* waits for the database.                                                 *)
ProxyHandler(j, ask) ==
  /\ fetches[j] = NoFetch /\ ValidRequest(ask)
  /\ Proceed(j, [at |-> "check", ask |-> ask, time |-> minute])
  /\ UNCHANGED <<minute, used, denied, taken>>

(* One transaction adds n to the four rows; it commits if all fit.         *)
Fits(kind, u, x, t, n) == \A k \in RowsOf(kind, u, x, t) : used[k] + n <= LimitOf[k]

Add(kind, u, x, t, n) ==
  LET rows == RowsOf(kind, u, x, t) IN
  /\ used' = [k \in RowKeys |-> IF k \in rows THEN used[k] + n ELSE used[k]]
  /\ taken' = [taken EXCEPT ![<<kind, u, x, t>>] = @ + n]

(* Variant: the rows that fit keep the charge of a refused request.        *)
RefuseCounted(kind, u, x, t, n) ==
  LET rows == RowsOf(kind, u, x, t) IN
  /\ ~Fits(kind, u, x, t, n) /\ UNCHANGED taken
  /\ used' = [k \in RowKeys |->
       IF k \in rows /\ used[k] + n <= LimitOf[k] THEN used[k] + n ELSE used[k]]

Refuse(kind, u, x, t, n) == ~Fits(kind, u, x, t, n) /\ UNCHANGED <<used, taken>>

CheckRate(j) ==
  LET ask == fetches[j].ask
      t == fetches[j].time IN
  /\ fetches[j].at = "check"
  /\ \/ /\ Fits("requests", ask.user, ask.ext, t, 1)
        /\ Add("requests", ask.user, ask.ext, t, 1)
        /\ Proceed(j, [at |-> "start", ask |-> ask])
     \/ Refuse("requests", ask.user, ask.ext, t, 1) /\ End(j)
  /\ UNCHANGED <<minute, denied>>

-----------------------------------------------------------------------------
(* Every hop is checked before its host is contacted, against the blocklist *)
(* the fetch started with.                                                 *)
Contact(j, ask, hops, list) ==
  IF ask.host \in list THEN End(j)
  ELSE Proceed(j, [at |-> "send", ask |-> ask, hops |-> hops, list |-> list])

StartFetch(j) ==
  /\ fetches[j].at = "start" /\ Contact(j, fetches[j].ask, 0, denied)
  /\ UNCHANGED <<minute, used, denied, taken>>

(* The fetch is over: the bytes of the request and of the answer count.    *)
FetchDone(j, n) ==
  LET ask == fetches[j].ask
  IN  Proceed(j, [at |-> "charge", user |-> ask.user, ext |-> ask.ext, bytes |-> ask.body + n])

(* The host redirects.  A POST follows only a redirect that keeps the      *)
(* method; another is its answer, with an empty body.                      *)
Redirect(j, h, keeps) ==
  LET r == fetches[j] IN
  /\ r.at = "send"
  /\ IF r.ask.post /\ ~keeps THEN FetchDone(j, 0)
     ELSE IF r.hops = MaxRedirects THEN End(j)
     ELSE Contact(j, [r.ask EXCEPT !.host = h], r.hops + 1, r.list)
  /\ UNCHANGED <<minute, used, denied, taken>>

(* The host answers with n bytes (none are kept of the answer to a HEAD).  *)
Fetched(j, n) ==
  /\ fetches[j].at = "send" /\ FetchDone(j, n)
  /\ UNCHANGED <<minute, used, denied, taken>>

(* A time-out, an error, an answer that is too large, or a client that     *)
(* left, which drops its request wherever it waits.                        *)
Abandon(j) ==
  /\ fetches[j].at \in {"check", "send", "record"}
  /\ End(j)
  /\ UNCHANGED <<minute, used, denied, taken>>

(* The time is read again for the bandwidth.                               *)
CountBytes(j) ==
  LET r == fetches[j] IN
  /\ r.at = "charge"
  /\ Proceed(j, [at |-> "record", user |-> r.user, ext |-> r.ext, bytes |-> r.bytes,
                 time |-> minute])
  /\ UNCHANGED <<minute, used, denied, taken>>

(* The answer goes out once it is charged; otherwise it is withheld.       *)
Record(j) ==
  LET r == fetches[j] IN
  /\ r.at = "record"
  /\ \/ /\ Fits("bytes", r.user, r.ext, r.time, r.bytes)
        /\ Add("bytes", r.user, r.ext, r.time, r.bytes)
     \/ Refuse("bytes", r.user, r.ext, r.time, r.bytes)
  /\ End(j)
  /\ UNCHANGED <<minute, denied>>

-----------------------------------------------------------------------------
(* The operator has edited the file and has it read again; were it missing, *)
(* the blocklist would stay.  A restart reads it too -- a missing file as   *)
(* an empty one -- and drops the requests.                                 *)
ReloadBlocklist(file) ==
  /\ denied' = LoadBlocklist(file) /\ denied' # denied
  /\ UNCHANGED <<minute, used, fetches, taken>>

RestartProxy(file) ==
  /\ denied' = LoadBlocklist(file) /\ fetches' = [j \in Fetches |-> NoFetch]
  /\ UNCHANGED <<minute, used, taken>>

Clock ==
  /\ minute < LastMinute /\ minute' = minute + 1
  /\ UNCHANGED <<used, denied, fetches, taken>>

ProxyNext ==
  \/ \E j \in Fetches :
       \/ \E ask \in Asked : ProxyHandler(j, ask)
       \/ CheckRate(j) \/ StartFetch(j)
       \/ \E h \in Hosts, keeps \in BOOLEAN : Redirect(j, h, keeps)
       \/ \E n \in 0 .. MaxBody : Fetched(j, n)
       \/ Abandon(j) \/ CountBytes(j) \/ Record(j)
  \/ \E file \in SUBSET Hosts : ReloadBlocklist(file) \/ RestartProxy(file)
  \/ Clock

-----------------------------------------------------------------------------
ProxyTypeOK ==
  /\ minute \in Minutes
  /\ used \in [RowKeys -> Nat]
  /\ denied \in SUBSET Hosts
  /\ fetches \in [Fetches -> FetchStates]
  /\ taken \in [Events -> Nat]

(* The events that count in a row, by its scope and its window.            *)
WithinRow == [k \in RowKeys |->
  {e \in Events : /\ e[1] = k[1] /\ e[2] = k[2] /\ k[3] \in {e[3], Total}
                  /\ WindowAt(k[4], e[4]) = k[5]}]

(* Every request and every byte that was let through.                      *)
LetThrough == UNION {{e} \X (1 .. taken[e]) : e \in {d \in Events : taken[d] > 0}}

(* Every row counts exactly what was let through in its window -- a        *)
(* request refused in one window leaves no charge in another, a charge     *)
(* falls in the same windows in all four rows -- and is within its limit,  *)
(* however many requests are in flight between the two charges.            *)
ChargesMatch ==
  LET units == LetThrough IN
  \A k \in RowKeys : /\ used[k] = Cardinality({u \in units : u[1] \in WithinRow[k]})
                     /\ used[k] <= LimitOf[k]
=============================================================================
