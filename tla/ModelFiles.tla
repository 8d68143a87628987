----------------------------- MODULE ModelFiles -----------------------------
(***************************************************************************)
(* Hosting of speech models.  A manifest names the files of each kind and  *)
(* their hashes.  A request for a file looks it up for the ETag, makes     *)
(* sure the file is on disk -- in proxy mode it is fetched from upstream   *)
(* into a temporary file of its own, verified and renamed -- and serves    *)
(* what is there, to be cached for ever.  The manifest may be reloaded, and *)
(* a command may fetch files, at any time in between.                      *)
(*                                                                         *)
(* Abstracted: ranges, rate limits, sizes (a hash stands for size and      *)
(* hash), voices, JSON.  A temporary file is part of its request: its name *)
(* holds the process and the time, and nothing reads it.                   *)
(***************************************************************************)
EXTENDS Integers, FiniteSets

CONSTANTS Kinds,       \* "stt", "tts"
          Names,       \* model, version and file name
          Hashes,      \* contents, by their hash
          Cut,         \* an incomplete or damaged content
          Manifests,   \* manifests an operator installs: [Kinds \X Names -> Hashes]
          Requests,    \* requests the server runs at a time
          Proxy        \* whether missing files are fetched

ASSUME ModelFilesAssumption ==
  Cut \notin Hashes /\ Proxy \in BOOLEAN /\ Manifests \subseteq [Kinds \X Names -> Hashes]

VARIABLES manifest,   \* the manifest file
          loaded,     \* the manifest the server uses
          hosted,     \* hosted[f]: what is under the path of f; "none" if nothing
          failed,     \* failure cache: names whose fetch failed lately
          reqs,       \* requests under way
          fetch,      \* the fetch command, one file at a time
          sent,       \* history: <<file, ETag, content>> of responses
          changed     \* history: files whose hash changed under the same name

models == <<manifest, loaded, hosted, failed, reqs, fetch, sent, changed>>

FileKeys == Kinds \X Names
NoReq == [at |-> "free"]
Reqs == {NoReq} \cup
  [at : {"ensure", "get", "rename", "open"}, file : FileKeys, tag : Hashes,
   want : Hashes \cup {"none"}]

ModelsInit ==
  /\ manifest \in Manifests /\ loaded = manifest
  /\ hosted = [f \in FileKeys |-> "none"]
  /\ failed = {}
  /\ reqs = [q \in Requests |-> NoReq]
  /\ fetch = NoReq
  /\ sent = {} /\ changed = {}

Failure(q) ==
  /\ failed' = failed \cup {reqs[q].file[2]}
  /\ reqs' = [reqs EXCEPT ![q] = NoReq]

-----------------------------------------------------------------------------
(* The entry of a file in the manifest the server uses.                    *)
Find(f) == loaded[f]

(* A request: the ETag is the hash the manifest has now.                   *)
Request(q, f) ==
  /\ reqs[q] = NoReq
  /\ reqs' = [reqs EXCEPT ![q] =
       [at |-> "ensure", file |-> f, tag |-> Find(f), want |-> "none"]]
  /\ UNCHANGED <<manifest, loaded, hosted, failed, fetch, sent, changed>>

(* A file that exists is taken as it is.  The failure cache is by name: a  *)
(* failure of one kind also stops the other.                               *)
Ensure(q) ==
  /\ reqs[q].at = "ensure"
  /\ LET f == reqs[q].file
     IN  reqs' = [reqs EXCEPT ![q] =
           IF hosted[f] # "none" THEN [@ EXCEPT !.at = "open"]
           ELSE IF Proxy /\ f[2] \notin failed
                THEN [@ EXCEPT !.at = "get", !.want = Find(f)] ELSE NoReq]
  /\ UNCHANGED <<manifest, loaded, hosted, failed, fetch, sent, changed>>

(* Variant: a whole download is not compared with the manifest.            *)
DownloadUnverified(q) ==
  /\ reqs[q].at = "get"
  /\ \E c \in Hashes :
       reqs' = [reqs EXCEPT ![q].at = "rename", ![q].want = c]
  /\ UNCHANGED <<manifest, loaded, hosted, failed, fetch, sent, changed>>

(* Upstream may send other content, break off, or fail.                    *)
Download(q) ==
  /\ reqs[q].at = "get"
  /\ \E c \in Hashes \cup {Cut} :
       IF c = reqs[q].want
       THEN reqs' = [reqs EXCEPT ![q].at = "rename"] /\ failed' = failed
       ELSE Failure(q)
  /\ UNCHANGED <<manifest, loaded, hosted, fetch, sent, changed>>

Install(q) ==
  /\ reqs[q].at = "rename"
  /\ \/ /\ hosted' = [hosted EXCEPT ![reqs[q].file] = reqs[q].want]
        /\ reqs' = [reqs EXCEPT ![q].at = "open"] /\ failed' = failed
     \/ Failure(q) /\ hosted' = hosted
  /\ UNCHANGED <<manifest, loaded, fetch, sent, changed>>

(* The file is opened and streamed with the ETag of the beginning.         *)
Respond(q) ==
  /\ reqs[q].at = "open"
  /\ LET f == reqs[q].file
     IN  sent' = IF hosted[f] = "none" THEN sent
                 ELSE sent \cup {<<f, reqs[q].tag, hosted[f]>>}
  /\ reqs' = [reqs EXCEPT ![q] = NoReq]
  /\ UNCHANGED <<manifest, loaded, hosted, failed, fetch, changed>>

ForgetFailure(n) ==
  /\ n \in failed
  /\ failed' = failed \ {n}
  /\ UNCHANGED <<manifest, loaded, hosted, reqs, fetch, sent, changed>>

-----------------------------------------------------------------------------
(* The operator and the fetch command.                                     *)

NewManifest(m) ==
  /\ m \in Manifests /\ m # manifest
  /\ manifest' = m
  /\ changed' = changed \cup {f \in FileKeys : m[f] # manifest[f]}
  /\ UNCHANGED <<loaded, hosted, failed, reqs, fetch, sent>>

Reload ==
  /\ loaded # manifest
  /\ loaded' = manifest
  /\ UNCHANGED <<manifest, hosted, failed, reqs, fetch, sent, changed>>

(* What the verify command reports of a file, and the fetch command asks.  *)
VerifyFile(f, hash) == hosted[f] = hash

FetchFile(f, force) ==
  /\ fetch = NoReq /\ (force \/ ~VerifyFile(f, manifest[f]))
  /\ fetch' = [at |-> "get", file |-> f, tag |-> manifest[f], want |-> manifest[f]]
  /\ UNCHANGED <<manifest, loaded, hosted, failed, reqs, sent, changed>>

(* Only content with the hash the command was started with is renamed.     *)
FetchEnds ==
  /\ fetch # NoReq
  /\ \E c \in {fetch.want, Cut} :
       hosted' = IF c = fetch.want THEN [hosted EXCEPT ![fetch.file] = c] ELSE hosted
  /\ fetch' = NoReq
  /\ UNCHANGED <<manifest, loaded, failed, reqs, sent, changed>>

RestartModels ==
  /\ loaded' = manifest
  /\ failed' = {} /\ reqs' = [q \in Requests |-> NoReq]
  /\ UNCHANGED <<manifest, hosted, fetch, sent, changed>>

ModelsNext ==
  \/ \E q \in Requests, f \in FileKeys : Request(q, f)
  \/ \E q \in Requests : Ensure(q) \/ Download(q) \/ Install(q) \/ Respond(q)
  \/ \E n \in Names : ForgetFailure(n)
  \/ \E m \in Manifests : NewManifest(m)
  \/ \E f \in FileKeys, force \in BOOLEAN : FetchFile(f, force)
  \/ FetchEnds \/ Reload \/ RestartModels

-----------------------------------------------------------------------------
ModelsTypeOK ==
  /\ manifest \in Manifests /\ loaded \in Manifests
  /\ hosted \in [FileKeys -> Hashes \cup {"none"}]
  /\ failed \subseteq Names
  /\ reqs \in [Requests -> Reqs] /\ fetch \in Reqs
  /\ sent \subseteq FileKeys \X Hashes \X Hashes
  /\ changed \subseteq FileKeys

(* A response that tells caches to keep it for ever carries the content    *)
(* its ETag names, as long as no manifest gives the same file another      *)
(* hash: whatever upstream sends, whoever else fetches the file at the     *)
(* same time, and however often the server is restarted.                   *)
TagNamesContent ==
  \A r \in sent : r[1] \notin changed => r[2] = r[3]

(* Not so: a file that is on disk is served under the hash of a manifest   *)
(* that has replaced the one it was verified against.                      *)
TagAlwaysNamesContent == \A r \in sent : r[2] = r[3]
=============================================================================
