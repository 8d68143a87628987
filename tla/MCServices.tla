----------------------------- MODULE MCServices -----------------------------
(***************************************************************************)
(* Attachments and their retention, reactions, push, model hosting, rate   *)
(* limits, the proxy and backups.  Attachments and reactions share the     *)
(* rooms, their members and the restarts; otherwise the code shares no     *)
(* state between these, and a step of one neither enables nor disables a   *)
(* step of another.  Every invariant is about one of them, so it is enough *)
(* to let one of them, `focus', move in a behaviour.                       *)
(***************************************************************************)
EXTENDS RoomContent, Push, ModelFiles, RateLimit, ExtensionProxy, Backup, RetentionDays

CONSTANTS alice, bob, room, w1, f1, smile, heart, channel, b1, p1, p2, h1, h2, n1,
          q1, q2, k1, k2, x1, x2, j1, j2, t1, l1, schedule, trigger, r1, r2, a1

VARIABLE focus

MCAuthor(s) == IF s = heart THEN alice ELSE bob
MCManifests == [Kinds \X Names -> Hashes]
MCLimit == [l \in {"requests", "bytes"} \X {"own", "total"} \X {"min", "hour", "day"} |->
  IF l \in {<<"requests", "own", "min">>, <<"requests", "total", "min">>,
            <<"bytes", "own", "hour">>, <<"bytes", "total", "hour">>} THEN 1 ELSE 2]

MCInit ==
  /\ Init /\ PushInit /\ ModelsInit /\ QuotasInit /\ ProxyInit /\ BackupInit /\ DaysInit
  /\ focus \in {"files", "reactions", "push", "models", "quotas", "proxy", "backup", "days"}
  /\ focus # "files" => serving = "fs"
  /\ focus # "proxy" => denied = {}
  /\ focus # "models" => manifest = CHOOSE m \in Manifests : TRUE

MCNext ==
  /\ focus' = focus
  /\ \/ focus = "files" /\ UNCHANGED <<reactions, push, models, quotas, proxy, backup, days>> /\ Next
     \/ focus = "reactions" /\ UNCHANGED <<files, push, models, quotas, proxy, backup, days>> /\ Next
     \/ focus = "push" /\ PushNext /\ UNCHANGED <<vars, models, quotas, proxy, backup, days>>
     \/ focus = "models" /\ ModelsNext /\ UNCHANGED <<vars, push, quotas, proxy, backup, days>>
     \/ focus = "quotas" /\ QuotasNext /\ UNCHANGED <<vars, push, models, proxy, backup, days>>
     \/ focus = "proxy" /\ ProxyNext /\ UNCHANGED <<vars, push, models, quotas, backup, days>>
     \/ focus = "backup" /\ BackupNext /\ UNCHANGED <<vars, push, models, quotas, proxy, days>>
     \/ focus = "days" /\ DaysNext /\ UNCHANGED <<vars, push, models, quotas, proxy, backup>>

MCSpec == MCInit /\ [][MCNext]_<<vars, push, models, quotas, proxy, backup, days, focus>>

MCTypes == TypeOK /\ PushTypeOK /\ ModelsTypeOK /\ QuotasTypeOK /\ ProxyTypeOK /\ BackupTypeOK
           /\ DaysTypeOK
=============================================================================
