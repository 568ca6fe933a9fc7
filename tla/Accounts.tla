------------------------------- MODULE Accounts -------------------------------
(***************************************************************************)
(* Principals and what they own: guest credentials, linking a device to    *)
(* an account, saved reports, upload targets, admission of investigations  *)
(* with idempotency keys and daily quotas, voice actions, and the sweep    *)
(* that expires workspaces.                                                *)
(*                                                                         *)
(* current_principal authenticates on a connection of its own, so a        *)
(* request carries a principal that may have been merged or erased by the  *)
(* time its own transaction starts: caller[r] is that stale identity.      *)
(* A transaction is one action, except where the code holds it open over   *)
(* something slow or leaves a window: the body of an upload streams under  *)
(* the row lock (holders), and an admission reads the key and the usage    *)
(* before it writes (admission), under the principal's lock only when      *)
(* quotas are enabled.  A refused request changes nothing (Leave).         *)
(***************************************************************************)
EXTENDS Naturals, FiniteSets

CONSTANTS
    Principals,     \* rows of the principals table
    Subjects,       \* verified Google subjects
    Requests,       \* API requests in flight
    Uploads,        \* upload targets; an identifier is free again once its row is gone
    Keys,           \* Idempotency-Key values
    VoiceIds,       \* request_id values of voice actions
    Checks,         \* investigations; the one report version of each has the same name
    None,
    DailyChecks,    \* quota_daily_checks
    DailyUploads,   \* quota_daily_upload_bytes, in uploads
    ActiveChecks,   \* quota_active_checks
    LastDay,        \* bound: days 0..LastDay
    MaxCalls        \* bound: authenticated requests of a behaviour

ASSUME AccountsAssumption == /\ None \notin Principals \cup Subjects \cup Requests \cup Uploads \cup Checks
                             /\ {DailyChecks, DailyUploads, ActiveChecks, LastDay, MaxCalls} \subseteq Nat

VARIABLES
    quotas,         \* settings.quotas_enabled of this deployment
    principal,      \* [Principals -> kind, google_sub, merged_into, live credential, past its lifetime]
    saved,          \* saved_reports: pairs <<owner, report>>
    upload,         \* [Uploads -> owner, state, past expires_at, stored bytes, requests streaming into its file]
    check,          \* [Checks -> owner, key, body, day, the jobs it has in progress, has a report]
    stored,         \* idempotency_keys: [owner, key, request body, investigation]
    usage,          \* quota_usage: [Principals -> day, checks, uploads]
    voiced,         \* voice_actions: the <<owner, request_id>> answered, accepted or denied
    caller,         \* [Requests -> the principal it authenticated as]
    admission,      \* [Requests -> the open _create transaction]
    owners,         \* the workspaces the running sweep selected
    day,
    calls           \* requests authenticated so far, for the bound

pvars == <<quotas, principal, saved, upload, check, stored, usage, voiced, caller, admission, owners, day, calls>>

Absent == [kind |-> "absent", google_sub |-> None, merged_into |-> None, live |-> FALSE, old |-> FALSE]
NoUpload == [owner |-> None, state |-> "none", late |-> FALSE, bytes |-> "none", holders |-> {}]
NoCheck == [owner |-> None, key |-> None, body |-> None, day |-> 0, jobs |-> "none", report |-> FALSE]
NoUsage == [day |-> 0, checks |-> 0, uploads |-> 0]

Bodies == Uploads \cup {"url"}      \* the request's source: an upload or a link

(* The rows of the tables. *)
PrincipalRow == [kind : {"absent", "guest", "account", "erased"}, google_sub : Subjects \cup {None},
                 merged_into : Principals \cup {None}, live : BOOLEAN, old : BOOLEAN]
UploadRow == [owner : Principals \cup {None}, state : {"none", "pending", "completed"},
              late : BOOLEAN, bytes : {"none", "right", "wrong"}, holders : SUBSET Requests]
CheckRow == [owner : Principals \cup {None}, key : Keys \cup {None}, body : Bodies \cup {None},
             day : 0..LastDay, jobs : {"none", "first", "more"}, report : BOOLEAN]
KeyRow == [owner : Principals, key : Keys, body : Bodies, check : Checks]
UsageRow == [day : 0..LastDay, checks : Nat, uploads : Nat]
SavedRow == Principals \X Checks
VoiceRow == Principals \X VoiceIds

TypeOK ==
    /\ quotas \in BOOLEAN
    /\ principal \in [Principals -> PrincipalRow]
    /\ saved \subseteq SavedRow
    /\ upload \in [Uploads -> UploadRow]
    /\ check \in [Checks -> CheckRow]
    /\ stored \subseteq KeyRow
    /\ usage \in [Principals -> UsageRow]
    /\ voiced \subseteq VoiceRow
    /\ caller \in [Requests -> Principals \cup {None}]
    /\ \A r \in Requests : admission[r] # None =>
          admission[r] \in [key : Keys, body : Bodies, used : UsageRow]
    /\ owners \subseteq Principals
    /\ day \in 0..LastDay
    /\ calls \in 0..MaxCalls

PInit ==
    /\ quotas \in BOOLEAN
    /\ principal = [p \in Principals |-> Absent]
    /\ saved = {}
    /\ upload = [u \in Uploads |-> NoUpload]
    /\ check = [i \in Checks |-> NoCheck]
    /\ stored = {}
    /\ usage = [p \in Principals |-> NoUsage]
    /\ voiced = {}
    /\ caller = [r \in Requests |-> None]
    /\ admission = [r \in Requests |-> None]
    /\ owners = {}
    /\ day = 0
    /\ calls = 0

Lives(p) == principal[p].kind \in {"guest", "account"}

(* A request that is not in the middle of a transaction it opened. *)
Idle(r) == /\ caller[r] # None
           /\ admission[r] = None
           /\ \A u \in Uploads : r \notin upload[u].holders

(* The answer is sent: the request is over. *)
Answered(r) == caller' = [caller EXCEPT ![r] = None]

(* FOR NO KEY UPDATE on the principal, held by an admission until it commits. *)
Locked(p) == quotas /\ \E r \in Requests : admission[r] # None /\ caller[r] = p

(* Mutant: the save trusts the credential checked on the other connection. *)
ActiveTrusted(p) == Lives(p)

(* lock_active_principal: a merged or erased principal is refused with 401. *)
Active(p) == Lives(p) /\ principal[p].merged_into = None

LockActive(p) == Active(p) /\ ~Locked(p)

-----------------------------------------------------------------------------
(* Principals: dependency.py, linking.py *)

CreateGuest(p) ==
    /\ principal[p].kind = "absent"
    /\ principal' = [principal EXCEPT ![p].kind = "guest", ![p].live = TRUE]
    /\ UNCHANGED <<quotas, saved, upload, check, stored, usage, voiced, caller, admission, owners, day, calls>>

Authenticate(r, p) ==
    /\ caller[r] = None
    /\ Lives(p) /\ principal[p].live
    /\ calls < MaxCalls
    /\ calls' = calls + 1
    /\ caller' = [caller EXCEPT ![r] = p]
    /\ UNCHANGED <<quotas, principal, saved, upload, check, stored, usage, voiced, admission, owners, day>>

Leave(r) ==
    /\ Idle(r)
    /\ Answered(r)
    /\ UNCHANGED <<quotas, principal, saved, upload, check, stored, usage, voiced, admission, owners, day, calls>>

(* transfer_saved_reports: a report both saved keeps the account's row. *)
Transferred(from, to) ==
    {s \in saved : s[1] # from} \cup {<<to, s[2]>> : s \in {t \in saved : t[1] = from}}

(* The first device of a subject upgrades its guest in place. *)
LinkFirst(r, s) ==
    LET p == caller[r] IN
    /\ Idle(r) /\ Lives(p) /\ ~Locked(p)
    /\ principal[p].google_sub = None
    /\ \A q \in Principals : principal[q].google_sub # s
    /\ principal' = [principal EXCEPT ![p].google_sub = s, ![p].kind = "account"]
    /\ Answered(r)
    /\ UNCHANGED <<quotas, saved, upload, check, stored, usage, voiced, admission, owners, day, calls>>

(* A later device continues as the account: its saves move, its credentials
   are revoked and a new one is minted on the account.  merged_into of the
   caller is not read, so a second link already in flight runs in full.    *)
LinkSecond(r, s) ==
    LET p == caller[r] IN
    /\ Idle(r) /\ Lives(p) /\ ~Locked(p)
    /\ principal[p].google_sub = None
    /\ \E a \in Principals :
          /\ principal[a].google_sub = s /\ ~Locked(a)
          /\ saved' = Transferred(p, a)
          /\ principal' = [principal EXCEPT ![p].merged_into = a, ![p].live = FALSE, ![a].live = TRUE]
    /\ Answered(r)
    /\ UNCHANGED <<quotas, upload, check, stored, usage, voiced, admission, owners, day, calls>>

-----------------------------------------------------------------------------
(* Saved reports and voice: reports.py, routes/voice.py *)

(* The caller's own version, or one it already saved. *)
Savable(p, i) == <<p, i>> \in saved \/ (check[i].owner = p /\ check[i].report)

Save(r, i) ==
    /\ Idle(r) /\ LockActive(caller[r])
    /\ Savable(caller[r], i)
    /\ saved' = saved \cup {<<caller[r], i>>}
    /\ Answered(r)
    /\ UNCHANGED <<quotas, principal, upload, check, stored, usage, voiced, admission, owners, day, calls>>

Unsave(r, i) ==
    /\ Idle(r) /\ LockActive(caller[r])
    /\ saved' = saved \ {<<caller[r], i>>}
    /\ Answered(r)
    /\ UNCHANGED <<quotas, principal, upload, check, stored, usage, voiced, admission, owners, day, calls>>

(* save_report by voice: the action and its audit row are one transaction; a
   report that cannot be saved is a denial with its row, a repeated request_id
   is answered from the row, a merged caller is a 401 that leaves no row. *)
VoiceSave(r, v, i) ==
    LET p == caller[r] IN
    /\ Idle(r) /\ LockActive(p)
    /\ <<p, v>> \notin voiced
    /\ saved' = IF Savable(p, i) THEN saved \cup {<<p, i>>} ELSE saved
    /\ voiced' = voiced \cup {<<p, v>>}
    /\ Answered(r)
    /\ UNCHANGED <<quotas, principal, upload, check, stored, usage, admission, owners, day, calls>>

-----------------------------------------------------------------------------
(* Quotas and upload targets: quotas.py, routes/uploads.py, storage.py *)

(* quota_usage of today: yesterday's row counts for nothing. *)
Used(p) == IF usage[p].day = day THEN usage[p] ELSE [NoUsage EXCEPT !.day = day]

(* lock_owner: with quotas off nothing is locked and a merged caller passes. *)
LockOwner(p) == quotas => LockActive(p)

CreateUpload(r, u) ==
    LET p == caller[r] IN
    /\ Idle(r) /\ Lives(p) /\ LockOwner(p)
    /\ upload[u].state = "none"
    /\ quotas => Used(p).uploads < DailyUploads
    /\ usage' = IF quotas THEN [usage EXCEPT ![p] = [Used(p) EXCEPT !.uploads = @ + 1]] ELSE usage
    /\ upload' = [upload EXCEPT ![u] = [NoUpload EXCEPT !.owner = p, !.state = "pending"]]
    /\ Answered(r)
    /\ UNCHANGED <<quotas, principal, saved, check, stored, voiced, admission, owners, day, calls>>

(* load_owned(..., for_update=True) of a row nobody else has locked. *)
OwnedFree(r, u) == upload[u].owner = caller[r] /\ upload[u].holders = {}

Fillable(u) == upload[u].state = "pending" /\ ~upload[u].late

(* The file is truncated, and the body starts to arrive. *)
PutStart(r, u) ==
    /\ Idle(r) /\ OwnedFree(r, u) /\ Fillable(u)
    /\ upload' = [upload EXCEPT ![u].holders = @ \cup {r}, ![u].bytes = "wrong"]
    /\ UNCHANGED <<quotas, principal, saved, check, stored, usage, voiced, caller, admission, owners, day, calls>>

(* The whole body is stored ("right" or "wrong" against the declaration); a
   body past the limit or a client that goes away removes the file ("none");
   a process that dies leaves what it wrote, and its lock is released.     *)
PutEnd(r, u) ==
    /\ r \in upload[u].holders
    /\ \E b \in {"none", "right", "wrong"} :
          upload' = [upload EXCEPT ![u].holders = @ \ {r}, ![u].bytes = b]
    /\ Answered(r)
    /\ UNCHANGED <<quotas, principal, saved, check, stored, usage, voiced, admission, owners, day, calls>>

(* What complete_upload leaves of the row and its file. *)
Verified(row) ==
    CASE row.bytes = "right" -> [row EXCEPT !.state = "completed"]
      [] row.bytes = "wrong" -> [row EXCEPT !.bytes = "none"]
      [] row.bytes = "none"  -> row

CompleteUpload(r, u) ==
    /\ Idle(r) /\ OwnedFree(r, u) /\ Fillable(u)
    /\ upload' = [upload EXCEPT ![u] = Verified(@)]
    /\ Answered(r)
    /\ UNCHANGED <<quotas, principal, saved, check, stored, usage, voiced, admission, owners, day, calls>>

-----------------------------------------------------------------------------
(* Admission of an investigation: routes/investigations.py _create *)

(* active_checks: the investigations of p with a job queued, leased or running. *)
Running(p) == Cardinality({i \in Checks : check[i].owner = p /\ check[i].jobs # "none"})

(* charge(checks=1): the budgets it reads before it writes. *)
Chargeable(p) == quotas => Running(p) < ActiveChecks /\ Used(p).checks < DailyChecks

(* The transaction up to its writes.  A stored key is answered by _replay. *)
CreateCheck(r, k, b) ==
    LET p == caller[r] IN
    /\ Idle(r) /\ Lives(p) /\ LockOwner(p)
    /\ ~\E e \in stored : e.owner = p /\ e.key = k
    /\ b \in Uploads => upload[b].owner = p /\ upload[b].state = "completed"
    /\ Chargeable(p)
    /\ admission' = [admission EXCEPT ![r] = [key |-> k, body |-> b, used |-> Used(p)]]
    /\ UNCHANGED <<quotas, principal, saved, upload, check, stored, usage, voiced, caller, owners, day, calls>>

(* Mutant: two rows may carry the same key. *)
InsertableTwice(p, k) == Lives(p)

(* The primary key of idempotency_keys and the foreign keys of the inserts. *)
Insertable(p, k) == Lives(p) /\ ~\E e \in stored : e.owner = p /\ e.key = k

(* Investigation, intake job, response and charge commit together. *)
CommitCheck(r) ==
    LET p == caller[r]
        t == admission[r] IN
    /\ t # None /\ Insertable(p, t.key)
    /\ \E i \in Checks :
          /\ check[i].owner = None
          /\ check' = [check EXCEPT ![i] = [owner |-> p, key |-> t.key, body |-> t.body,
                                            day |-> t.used.day, jobs |-> "first", report |-> FALSE]]
          /\ stored' = stored \cup {[owner |-> p, key |-> t.key, body |-> t.body, check |-> i]}
    /\ usage' = IF quotas THEN [usage EXCEPT ![p] = [t.used EXCEPT !.checks = @ + 1]] ELSE usage
    /\ admission' = [admission EXCEPT ![r] = None]
    /\ Answered(r)
    /\ UNCHANGED <<quotas, principal, saved, upload, voiced, owners, day, calls>>

(* IntegrityError or a crash: rolled back; the loser answers with _replay. *)
AbortCheck(r) ==
    /\ admission[r] # None
    /\ admission' = [admission EXCEPT ![r] = None]
    /\ Answered(r)
    /\ UNCHANGED <<quotas, principal, saved, upload, check, stored, usage, voiced, owners, day, calls>>

(* The jobs of an investigation end, with a report or without. *)
Publish(i) ==
    /\ check[i].jobs # "none"
    /\ \E published \in BOOLEAN :
          check' = [check EXCEPT ![i].jobs = "none", ![i].report = @ \/ published]
    /\ UNCHANGED <<quotas, principal, saved, upload, stored, usage, voiced, caller, admission, owners, day, calls>>

(* A check whose jobs had all ended has one again, with no charge: the speech
   retry requeues its failed upload_asr job, settle_inputs() enqueues windows
   once the text deadline passed, reconciliation follows the last window. *)
Resume(i) ==
    /\ quotas                      \* nothing counts jobs otherwise
    /\ check[i].owner # None /\ check[i].jobs = "none"
    /\ check' = [check EXCEPT ![i].jobs = "more"]
    /\ UNCHANGED <<quotas, principal, saved, upload, stored, usage, voiced, caller, admission, owners, day, calls>>

-----------------------------------------------------------------------------
(* Time and the retention sweep: privacy.py *)

Age(p) ==
    /\ principal[p].kind = "guest" /\ ~principal[p].old
    /\ principal' = [principal EXCEPT ![p].old = TRUE]
    /\ UNCHANGED <<quotas, saved, upload, check, stored, usage, voiced, caller, admission, owners, day, calls>>

Late(u) ==
    /\ upload[u].state = "pending" /\ ~upload[u].late
    /\ upload' = [upload EXCEPT ![u].late = TRUE]
    /\ UNCHANGED <<quotas, principal, saved, check, stored, usage, voiced, caller, admission, owners, day, calls>>

NewDay ==
    /\ quotas /\ day < LastDay     \* nothing reads the date otherwise
    /\ day' = day + 1
    /\ UNCHANGED <<quotas, principal, saved, upload, check, stored, usage, voiced, caller, admission, owners, calls>>

(* _expired_workspace: guests past their lifetime, merged ones included. *)
ExpiredWorkspace(p) == principal[p].kind = "guest" /\ principal[p].old

(* The sweep selects its owners on a connection of its own. *)
Sweep ==
    /\ owners = {}
    /\ owners' = {p \in Principals : ExpiredWorkspace(p)}
    /\ owners' # {}
    /\ UNCHANGED <<quotas, principal, saved, upload, check, stored, usage, voiced, caller, admission, day, calls>>

(* FOR UPDATE on the principal and all of its uploads. *)
Lockable(p) == ~Locked(p) /\ \A u \in Uploads : upload[u].owner = p => upload[u].holders = {}

Expirable(p) == ExpiredWorkspace(p) /\ Lockable(p)

(* Everything of the owner goes: rows cascade, files are deleted. *)
Expire(p) ==
    /\ p \in owners /\ Expirable(p)
    /\ principal' = [principal EXCEPT ![p] = [Absent EXCEPT !.kind = "erased"]]
    /\ saved' = {s \in saved : s[1] # p}
    /\ upload' = [u \in Uploads |-> IF upload[u].owner = p THEN NoUpload ELSE upload[u]]
    /\ check' = [i \in Checks |-> IF check[i].owner = p THEN NoCheck ELSE check[i]]
    /\ stored' = {e \in stored : e.owner # p}
    /\ usage' = [usage EXCEPT ![p] = NoUsage]
    /\ voiced' = {e \in voiced : e[1] # p}
    /\ owners' = owners \ {p}
    /\ UNCHANGED <<quotas, caller, admission, day, calls>>

(* The transaction fails after files were deleted: the rows stay. *)
ExpireFails(p) ==
    /\ p \in owners /\ Expirable(p)
    /\ upload' = [u \in Uploads |-> IF upload[u].owner = p THEN [upload[u] EXCEPT !.bytes = "none"]
                                                           ELSE upload[u]]
    /\ owners' = {}
    /\ UNCHANGED <<quotas, principal, saved, check, stored, usage, voiced, caller, admission, day, calls>>

(* The workspace is no longer expired: linked since, or erased. *)
ExpireSkips(p) ==
    /\ p \in owners /\ ~ExpiredWorkspace(p)
    /\ owners' = owners \ {p}
    /\ UNCHANGED <<quotas, principal, saved, upload, check, stored, usage, voiced, caller, admission, day, calls>>

(* Pending targets past their expiry; SKIP LOCKED leaves one being written. *)
ExpireUpload(u) ==
    /\ upload[u].state = "pending" /\ upload[u].late /\ upload[u].holders = {}
    /\ upload' = [upload EXCEPT ![u] = NoUpload]
    /\ UNCHANGED <<quotas, principal, saved, check, stored, usage, voiced, caller, admission, owners, day, calls>>

-----------------------------------------------------------------------------
PNext ==
    \/ \E p \in Principals : CreateGuest(p) \/ Age(p) \/ Expire(p) \/ ExpireFails(p) \/ ExpireSkips(p)
    \/ \E r \in Requests, p \in Principals : Authenticate(r, p)
    \/ \E r \in Requests, s \in Subjects : LinkFirst(r, s) \/ LinkSecond(r, s)
    \/ \E r \in Requests, i \in Checks : Save(r, i) \/ Unsave(r, i)
    \/ \E r \in Requests, v \in VoiceIds, i \in Checks : VoiceSave(r, v, i)
    \/ \E r \in Requests, u \in Uploads :
          CreateUpload(r, u) \/ PutStart(r, u) \/ PutEnd(r, u) \/ CompleteUpload(r, u)
    \/ \E r \in Requests, k \in Keys, b \in Bodies : CreateCheck(r, k, b)
    \/ \E r \in Requests : Leave(r) \/ CommitCheck(r) \/ AbortCheck(r)
    \/ \E i \in Checks : Publish(i) \/ Resume(i)
    \/ \E u \in Uploads : Late(u) \/ ExpireUpload(u)
    \/ NewDay \/ Sweep

PSpec == PInit /\ [][PNext]_pvars

-----------------------------------------------------------------------------
(* A saved report is only lost by the owner removing it or by the expiry of
   a workspace that was never linked.  Linking, in every order with saves,
   sweeps and other links, keeps it (linking.py, privacy.py
   _expired_workspace), and no save is left under a guest whose device went
   on as an account, where nobody could reach it (lock_active_principal).  *)
Reachable(p) == Lives(p) /\ (principal[p].merged_into # None => principal[p].kind = "account")

Kept(s) ==
    \/ s \in saved'
    \/ /\ principal'[s[1]].merged_into # principal[s[1]].merged_into
       /\ <<principal'[s[1]].merged_into, s[2]>> \in saved'
    \/ \E r \in Requests : caller[r] = s[1] /\ Unsave(r, s[2])
    \/ principal[s[1]].kind = "guest" /\ principal'[s[1]].kind = "erased"

SavedSurvive == [][(\A s \in saved : Kept(s)) /\ (\A s \in saved' : Reachable(s[1])')]_pvars

(* The bytes behind a completed upload are the declared ones: no order of
   put_content, complete_upload, expiry and crashes lets other bytes take
   their place.  They are missing only when a failed sweep of an expired
   workspace deleted the file before its transaction rolled back.  Bytes
   never outlive their row.                                                *)
CompletedMatches ==
    \A u \in Uploads :
       /\ upload[u].state = "completed" =>
             \/ upload[u].bytes = "right"
             \/ upload[u].bytes = "none" /\ principal[upload[u].owner].old
       /\ upload[u].state = "none" => upload[u].bytes = "none"

(* A key admits one investigation for its owner however often and however
   concurrently it is sent, the stored answer names that investigation, and
   with quotas on an owner admits at most DailyChecks a day and has at most
   ActiveChecks in progress of those that were admitted and have run ever
   since (_create, charge).  A check that is resumed is not charged, so with
   it an owner may have more: charge() counts it, but only when the next
   check is admitted.                                                      *)
OnceAdmitted ==
    /\ \A i, j \in Checks :
          (check[i].owner # None /\ check[i].owner = check[j].owner /\ check[i].key = check[j].key) => i = j
    /\ \A i \in Checks : check[i].owner # None =>
          [owner |-> check[i].owner, key |-> check[i].key, body |-> check[i].body, check |-> i] \in stored
    /\ quotas => \A p \in Principals :
          /\ Cardinality({i \in Checks : check[i].owner = p /\ check[i].day = day}) <= DailyChecks
          /\ Cardinality({i \in Checks : check[i].owner = p /\ check[i].jobs = "first"}) <= ActiveChecks

(* Concurrent requests of an owner end as if they had come one by one.     *)
RequestsSerialize == CompletedMatches /\ OnceAdmitted
=============================================================================
