--------------------------- MODULE Accounts_proofs ---------------------------
(***************************************************************************)
(* Proofs that concurrent requests of principals serialize, that quotas    *)
(* and idempotency keys hold, and that saved reports survive linking and   *)
(* retention, for any number of principals, requests, uploads and checks   *)
(* and any quota.                                                          *)
(***************************************************************************)
EXTENDS Accounts, FiniteSetTheorems, TLAPS

Admission == [key : Keys, body : Bodies, used : UsageRow]

Typed == TypeOK /\ admission \in [Requests -> Admission \cup {None}]

(* An account is a principal with a subject, and the owner of a save is a  *)
(* principal somebody can still act as.                                    *)
LinksOK ==
  /\ \A p \in Principals : principal[p].kind = "account" <=> principal[p].google_sub # None
  /\ \A s \in saved : Reachable(s[1])

(* Bytes only arrive for a pending target, and a target has an owner. *)
UploadsOK ==
  /\ CompletedMatches
  /\ \A u \in Uploads :
       /\ upload[u].holders # {} => upload[u].state = "pending"
       /\ upload[u].state # "none" => upload[u].owner \in Principals

(* An open admission belongs to a request that does nothing else, and with *)
(* quotas on a principal has at most one.                                  *)
AdmissionsOK ==
  /\ \A r \in Requests : admission[r] # None =>
       /\ caller[r] \in Principals
       /\ \A u \in Uploads : r \notin upload[u].holders
  /\ quotas => \A r, s \in Requests :
       (admission[r] # None /\ admission[s] # None /\ caller[r] = caller[s]) => r = s

(* Every investigation has its stored answer; only so many exist. *)
Admitted(c) == {i \in Checks : c[i].owner # None}

KeysOK ==
  /\ \A i \in Checks : check[i].owner # None =>
       [owner |-> check[i].owner, key |-> check[i].key, body |-> check[i].body, check |-> i] \in stored
  /\ \A i, j \in Checks :
       (check[i].owner # None /\ check[i].owner = check[j].owner /\ check[i].key = check[j].key) => i = j
  /\ IsFiniteSet(Admitted(check))

(* The investigations c of principal p that are of day d, or in progress  *)
(* since they were admitted.                                               *)
OnDay(c, p, d) == {i \in Checks : c[i].owner = p /\ c[i].day = d}
InProgress(c, p) == {i \in Checks : c[i].owner = p /\ c[i].jobs = "first"}

(* What the usage row u of p says, on day d, of p's investigations c: the  *)
(* row counts those of its own day, and none is of a later day.            *)
Counted(c, u, p, d) ==
  /\ \A i \in Checks : c[i].owner = p => c[i].day <= u.day
  /\ u.day <= d
  /\ Cardinality(OnDay(c, p, u.day)) <= u.checks /\ u.checks <= DailyChecks
  /\ Cardinality(InProgress(c, p)) <= ActiveChecks

(* What an open admission of p that read the usage t relies on: the row is *)
(* still the one it read, and there is room for one more investigation.    *)
Reserved(c, u, p, t, d) ==
  /\ u.day <= t.day /\ t.day <= d
  /\ t.checks = (IF u.day = t.day THEN u.checks ELSE 0) /\ t.checks < DailyChecks
  /\ Cardinality(InProgress(c, p)) < ActiveChecks

QuotaOK ==
  quotas =>
    /\ \A p \in Principals : Counted(check, usage[p], p, day)
    /\ \A r \in Requests : admission[r] # None =>
         Reserved(check, usage[caller[r]], caller[r], admission[r].used, day)

(* The inductive invariant. *)
AInv == Typed /\ LinksOK /\ UploadsOK /\ AdmissionsOK /\ KeysOK /\ QuotaOK

-----------------------------------------------------------------------------
LEMMA InitHolds == PInit => AInv
  <1> SUFFICES ASSUME PInit PROVE AInv
    OBVIOUS
  <1> USE DEF PInit
  <1>1. /\ Absent \in PrincipalRow /\ NoUpload \in UploadRow /\ NoCheck \in CheckRow
        /\ NoUsage \in UsageRow
    BY AccountsAssumption DEF Absent, NoUpload, NoCheck, NoUsage, PrincipalRow, UploadRow, CheckRow, UsageRow
  <1>2. Typed
    BY <1>1, AccountsAssumption DEF Typed, TypeOK
  <1>3. LinksOK BY DEF LinksOK, Absent
  <1>4. UploadsOK BY DEF UploadsOK, CompletedMatches, NoUpload
  <1>5. AdmissionsOK BY DEF AdmissionsOK
  <1>6. Admitted(check) = {} BY DEF Admitted, NoCheck
  <1>7. KeysOK BY <1>6, FS_EmptySet DEF KeysOK, NoCheck
  <1>8. QuotaOK
    <2>1. ASSUME NEW p \in Principals PROVE Counted(check, usage[p], p, day)
      <3>1. OnDay(check, p, 0) = {} /\ InProgress(check, p) = {}
        BY AccountsAssumption DEF OnDay, InProgress, NoCheck
      <3>2. usage[p].day = 0 /\ usage[p].checks = 0 /\ day = 0 BY DEF NoUsage
      <3>3. \A i \in Checks : check[i].owner # p BY AccountsAssumption DEF NoCheck
      <3>4. Cardinality({}) = 0 BY FS_EmptySet
      <3>5. DailyChecks \in Nat /\ ActiveChecks \in Nat BY AccountsAssumption
      <3> HIDE DEF PInit
      <3> QED BY <3>1, <3>2, <3>3, <3>4, <3>5 DEF Counted
    <2> QED BY <2>1 DEF QuotaOK
  <1> QED BY <1>2, <1>3, <1>4, <1>5, <1>7, <1>8 DEF AInv

-----------------------------------------------------------------------------
(* What a step leaves alone stays right *)

(* Admissions may end, and requests without one may come and go. *)
Closing == \A r \in Requests : admission'[r] # None =>
             admission'[r] = admission[r] /\ caller'[r] = caller[r]

LEMMA LinksFrame ==
  ASSUME LinksOK, UNCHANGED <<principal, saved>>
  PROVE  LinksOK'
  BY DEF LinksOK, Reachable, Lives

LEMMA UploadsFrame ==
  ASSUME UploadsOK, UNCHANGED upload,
         \A p \in Principals : principal[p].old => principal'[p].old
  PROVE  UploadsOK'
  <1> SUFFICES ASSUME NEW u \in Uploads
               PROVE  /\ upload[u].state = "completed" =>
                           \/ upload[u].bytes = "right"
                           \/ upload[u].bytes = "none" /\ principal'[upload[u].owner].old
                      /\ upload[u].state = "none" => upload[u].bytes = "none"
                      /\ upload[u].holders # {} => upload[u].state = "pending"
                      /\ upload[u].state # "none" => upload[u].owner \in Principals
    BY DEF UploadsOK, CompletedMatches
  <1> QED BY DEF UploadsOK, CompletedMatches

LEMMA AdmissionsFrame ==
  ASSUME AdmissionsOK, Closing, UNCHANGED quotas,
         \A u \in Uploads : upload'[u].holders \subseteq upload[u].holders
  PROVE  AdmissionsOK'
  BY DEF AdmissionsOK, Closing

LEMMA KeysFrame ==
  ASSUME KeysOK, UNCHANGED <<check, stored>>
  PROVE  KeysOK'
  BY DEF KeysOK

LEMMA QuotaFrame ==
  ASSUME QuotaOK, Closing, UNCHANGED <<quotas, check, usage, day>>
  PROVE  QuotaOK'
  BY DEF QuotaOK, Closing

(* A request that holds no admission is answered. *)
LEMMA AnsweredCloses ==
  ASSUME Typed, NEW r \in Requests, admission[r] = None, Answered(r), UNCHANGED admission
  PROVE  Closing /\ caller' \in [Requests -> Principals \cup {None}]
  BY DEF Typed, TypeOK, Answered, Closing

(* A caller that is not None is a principal. *)
LEMMA CallerIs ==
  ASSUME Typed, NEW r \in Requests, Idle(r)
  PROVE  /\ caller[r] \in Principals /\ admission[r] = None
         /\ \A u \in Uploads : r \notin upload[u].holders
  BY DEF Typed, TypeOK, Idle

LEMMA UnchangedStep ==
  ASSUME AInv, UNCHANGED pvars
  PROVE  AInv'
  <1> USE DEF pvars, AInv
  <1>1. Typed' BY DEF Typed, TypeOK
  <1>2. Closing BY DEF Closing
  <1> QED BY <1>1, <1>2, LinksFrame, UploadsFrame, AdmissionsFrame, KeysFrame, QuotaFrame

-----------------------------------------------------------------------------
(* Requests that come and go, and the sweep's choice of owners *)

LEMMA AuthenticateStep ==
  ASSUME AInv, NEW r \in Requests, NEW p \in Principals, Authenticate(r, p)
  PROVE  AInv'
  <1> USE DEF AInv
  <1>1. /\ caller[r] = None /\ caller' = [caller EXCEPT ![r] = p] /\ calls' = calls + 1
        /\ calls < MaxCalls
        /\ UNCHANGED <<quotas, principal, saved, upload, check, stored, usage, voiced, admission, owners, day>>
    BY DEF Authenticate
  <1>2. admission[r] = None BY <1>1, AccountsAssumption DEF AdmissionsOK
  <1>3. Closing BY <1>1, <1>2 DEF Closing, Typed, TypeOK
  <1>4. Typed' BY <1>1, AccountsAssumption DEF Typed, TypeOK
  <1> QED BY <1>1, <1>3, <1>4, LinksFrame, UploadsFrame, AdmissionsFrame, KeysFrame, QuotaFrame

LEMMA LeaveStep ==
  ASSUME AInv, NEW r \in Requests, Leave(r)
  PROVE  AInv'
  <1> USE DEF AInv
  <1>1. /\ Idle(r) /\ Answered(r)
        /\ UNCHANGED <<quotas, principal, saved, upload, check, stored, usage, voiced, admission, owners, day, calls>>
    BY DEF Leave
  <1>2. Closing /\ caller' \in [Requests -> Principals \cup {None}]
    BY <1>1, CallerIs, AnsweredCloses
  <1>3. Typed' BY <1>1, <1>2 DEF Typed, TypeOK
  <1> QED BY <1>1, <1>2, <1>3, LinksFrame, UploadsFrame, AdmissionsFrame, KeysFrame, QuotaFrame

LEMMA AbortCheckStep ==
  ASSUME AInv, NEW r \in Requests, AbortCheck(r)
  PROVE  AInv'
  <1> USE DEF AInv
  <1>1. /\ Answered(r) /\ admission' = [admission EXCEPT ![r] = None]
        /\ UNCHANGED <<quotas, principal, saved, upload, check, stored, usage, voiced, owners, day, calls>>
    BY DEF AbortCheck
  <1>2. Closing BY <1>1 DEF Closing, Answered, Typed, TypeOK
  <1>3. Typed' BY <1>1 DEF Typed, TypeOK, Answered
  <1> QED BY <1>1, <1>2, <1>3, LinksFrame, UploadsFrame, AdmissionsFrame, KeysFrame, QuotaFrame

LEMMA SweepStep ==
  ASSUME AInv, Sweep \/ \E p \in Principals : ExpireSkips(p)
  PROVE  AInv'
  <1> USE DEF AInv
  <1>1. /\ owners' \subseteq Principals
        /\ UNCHANGED <<quotas, principal, saved, upload, check, stored, usage, voiced, caller, admission, day, calls>>
    BY DEF Sweep, ExpireSkips, Typed, TypeOK
  <1>2. Closing BY <1>1 DEF Closing
  <1>3. Typed' BY <1>1 DEF Typed, TypeOK
  <1> QED BY <1>1, <1>2, <1>3, LinksFrame, UploadsFrame, AdmissionsFrame, KeysFrame, QuotaFrame

-----------------------------------------------------------------------------
(* Principals, linking and saves *)

LEMMA CreateGuestStep ==
  ASSUME AInv, NEW p \in Principals, CreateGuest(p)
  PROVE  AInv'
  <1> USE DEF AInv
  <1> DEFINE q == [principal[p] EXCEPT !.kind = "guest", !.live = TRUE]
  <1>1. /\ principal[p].kind = "absent" /\ principal' = [principal EXCEPT ![p] = q]
        /\ UNCHANGED <<quotas, saved, upload, check, stored, usage, voiced, caller, admission, owners, day, calls>>
    BY DEF CreateGuest, Typed, TypeOK
  <1>2. /\ q \in PrincipalRow /\ q.kind = "guest" /\ q.google_sub = principal[p].google_sub
        /\ q.merged_into = principal[p].merged_into /\ q.old = principal[p].old
    BY DEF Typed, TypeOK, PrincipalRow
  <1> HIDE DEF q
  <1>3. principal \in [Principals -> PrincipalRow] BY DEF Typed, TypeOK
  <1>4. \A x \in Principals : principal'[x] = IF x = p THEN q ELSE principal[x] BY <1>1, <1>3
  <1>5. Typed' BY <1>1, <1>2, <1>3 DEF Typed, TypeOK
  <1>6. LinksOK'
    <2>1. \A x \in Principals : principal'[x].kind = "account" <=> principal'[x].google_sub # None
      BY <1>1, <1>2, <1>4 DEF LinksOK
    <2>2. \A s \in saved : s[1] \in Principals /\ s[1] # p
      BY <1>1 DEF LinksOK, Reachable, Lives, Typed, TypeOK, SavedRow
    <2> QED BY <1>1, <1>4, <2>1, <2>2 DEF LinksOK, Reachable, Lives
  <1>7. UploadsOK' BY <1>1, <1>2, <1>4, UploadsFrame
  <1>8. Closing BY <1>1 DEF Closing
  <1> QED BY <1>1, <1>5, <1>6, <1>7, <1>8, AdmissionsFrame, KeysFrame, QuotaFrame

LEMMA AgeStep ==
  ASSUME AInv, NEW p \in Principals, Age(p)
  PROVE  AInv'
  <1> USE DEF AInv
  <1> DEFINE q == [principal[p] EXCEPT !.old = TRUE]
  <1>1. /\ principal' = [principal EXCEPT ![p] = q]
        /\ UNCHANGED <<quotas, saved, upload, check, stored, usage, voiced, caller, admission, owners, day, calls>>
    BY DEF Age, Typed, TypeOK
  <1>2. /\ q \in PrincipalRow /\ q.kind = principal[p].kind /\ q.google_sub = principal[p].google_sub
        /\ q.merged_into = principal[p].merged_into /\ q.old
    BY DEF Typed, TypeOK, PrincipalRow
  <1> HIDE DEF q
  <1>3. principal \in [Principals -> PrincipalRow] BY DEF Typed, TypeOK
  <1>4. \A x \in Principals : principal'[x] = IF x = p THEN q ELSE principal[x] BY <1>1, <1>3
  <1>5. Typed' BY <1>1, <1>2, <1>3 DEF Typed, TypeOK
  <1>6. LinksOK'
    <2>1. \A s \in saved : s[1] \in Principals BY DEF Typed, TypeOK, SavedRow
    <2> QED BY <1>1, <1>2, <1>4, <2>1 DEF LinksOK, Reachable, Lives
  <1>7. UploadsOK' BY <1>1, <1>2, <1>4, UploadsFrame
  <1>8. Closing BY <1>1 DEF Closing
  <1> QED BY <1>1, <1>5, <1>6, <1>7, <1>8, AdmissionsFrame, KeysFrame, QuotaFrame

LEMMA LinkFirstStep ==
  ASSUME AInv, NEW r \in Requests, NEW s \in Subjects, LinkFirst(r, s)
  PROVE  AInv'
  <1> USE DEF AInv
  <1> DEFINE p == caller[r]
             q == [principal[p] EXCEPT !.google_sub = s, !.kind = "account"]
  <1>1. /\ Idle(r) /\ Answered(r) /\ principal' = [principal EXCEPT ![p] = q]
        /\ UNCHANGED <<quotas, saved, upload, check, stored, usage, voiced, admission, owners, day, calls>>
    BY DEF LinkFirst, Typed, TypeOK
  <1>2. p \in Principals /\ Closing /\ caller' \in [Requests -> Principals \cup {None}]
    BY <1>1, CallerIs, AnsweredCloses
  <1>3. /\ q \in PrincipalRow /\ q.kind = "account" /\ q.google_sub = s /\ s # None
        /\ q.old = principal[p].old
    <2>1. principal[p] \in PrincipalRow BY <1>2 DEF Typed, TypeOK
    <2>2. s # None BY AccountsAssumption
    <2> HIDE DEF p
    <2> QED BY <2>1, <2>2 DEF PrincipalRow
  <1>4. principal \in [Principals -> PrincipalRow] BY DEF Typed, TypeOK
  <1> HIDE DEF q, p
  <1>5. \A x \in Principals : principal'[x] = IF x = p THEN q ELSE principal[x] BY <1>1, <1>4
  <1>6. Typed' BY <1>1, <1>2, <1>3, <1>4 DEF Typed, TypeOK
  <1>7. LinksOK'
    <2>1. \A x \in saved : x[1] \in Principals BY DEF Typed, TypeOK, SavedRow
    <2> QED BY <1>1, <1>3, <1>5, <2>1 DEF LinksOK, Reachable, Lives
  <1>8. UploadsOK' BY <1>1, <1>3, <1>5, UploadsFrame
  <1> QED BY <1>1, <1>2, <1>6, <1>7, <1>8, AdmissionsFrame, KeysFrame, QuotaFrame

(* What the second link of a subject does: the saves of guest p move to    *)
(* account a, which is another principal.                                  *)
LEMMA LinkSecondDoes ==
  ASSUME Typed, LinksOK, NEW r \in Requests, NEW s \in Subjects, LinkSecond(r, s)
  PROVE  \E p, a \in Principals :
           /\ p = caller[r] /\ a # p
           /\ principal[p].google_sub = None /\ principal[a].kind = "account"
           /\ principal' \in [Principals -> PrincipalRow]
           /\ principal'[p].merged_into = a
           /\ \A x \in Principals :
                /\ principal'[x].kind = principal[x].kind
                /\ principal'[x].google_sub = principal[x].google_sub
                /\ principal'[x].old = principal[x].old
                /\ x # p => principal'[x].merged_into = principal[x].merged_into
           /\ saved' \subseteq SavedRow
           /\ \A x \in saved' : x[1] # p /\ (x \in saved \/ x[1] = a)
           /\ \A x \in saved : x[1] # p => x \in saved'
           /\ \A x \in saved : x[1] = p => <<a, x[2]>> \in saved'
  <1> DEFINE p == caller[r]
  <1>1. PICK a \in Principals :
          /\ principal[a].google_sub = s /\ saved' = Transferred(p, a)
          /\ principal' = [principal EXCEPT ![p].merged_into = a, ![p].live = FALSE, ![a].live = TRUE]
    BY DEF LinkSecond
  <1>2. Idle(r) /\ principal[p].google_sub = None BY DEF LinkSecond
  <1>3. p \in Principals BY <1>2, CallerIs
  <1> HIDE DEF p
  <1>4. a # p /\ principal[a].kind = "account"
    BY <1>1, <1>2, AccountsAssumption DEF LinksOK
  <1>5. principal \in [Principals -> PrincipalRow] BY DEF Typed, TypeOK
  <1> DEFINE q == [principal[p] EXCEPT !.merged_into = a, !.live = FALSE]
             b == [principal[a] EXCEPT !.live = TRUE]
  <1>6. /\ q \in PrincipalRow /\ q.merged_into = a /\ q.kind = principal[p].kind
        /\ q.google_sub = principal[p].google_sub /\ q.old = principal[p].old
        /\ b \in PrincipalRow /\ b.merged_into = principal[a].merged_into
        /\ b.kind = principal[a].kind
        /\ b.google_sub = principal[a].google_sub /\ b.old = principal[a].old
    BY <1>3, <1>5 DEF PrincipalRow
  <1>7. principal' = [principal EXCEPT ![p] = q, ![a] = b] BY <1>1, <1>3, <1>4, <1>5
  <1> HIDE DEF q, b
  <1>8. /\ principal' \in [Principals -> PrincipalRow]
        /\ \A x \in Principals : principal'[x] = IF x = a THEN b ELSE IF x = p THEN q ELSE principal[x]
    BY <1>3, <1>5, <1>6, <1>7
  <1>9. /\ saved' \subseteq SavedRow
        /\ \A x \in saved' : x[1] # p /\ (x \in saved \/ x[1] = a)
        /\ \A x \in saved : x[1] # p => x \in saved'
        /\ \A x \in saved : x[1] = p => <<a, x[2]>> \in saved'
    BY <1>1, <1>4 DEF Transferred, Typed, TypeOK, SavedRow
  <1>10. /\ principal'[p].merged_into = a
         /\ \A x \in Principals :
                /\ principal'[x].kind = principal[x].kind
                /\ principal'[x].google_sub = principal[x].google_sub
                /\ principal'[x].old = principal[x].old
                /\ x # p => principal'[x].merged_into = principal[x].merged_into
    BY <1>3, <1>4, <1>6, <1>8
  <1> QED BY <1>2, <1>3, <1>4, <1>8, <1>9, <1>10 DEF p

LEMMA LinkSecondStep ==
  ASSUME AInv, NEW r \in Requests, NEW s \in Subjects, LinkSecond(r, s)
  PROVE  AInv'
  <1> USE DEF AInv
  <1>1. /\ Idle(r) /\ Answered(r)
        /\ UNCHANGED <<quotas, upload, check, stored, usage, voiced, admission, owners, day, calls>>
    BY DEF LinkSecond
  <1>2. Closing /\ caller' \in [Requests -> Principals \cup {None}]
    BY <1>1, CallerIs, AnsweredCloses
  <1>3. PICK p, a \in Principals :
          /\ principal[a].kind = "account"
          /\ principal' \in [Principals -> PrincipalRow]
          /\ \A x \in Principals :
                /\ principal'[x].kind = principal[x].kind
                /\ principal'[x].google_sub = principal[x].google_sub
                /\ principal'[x].old = principal[x].old
                /\ x # p => principal'[x].merged_into = principal[x].merged_into
          /\ saved' \subseteq SavedRow
          /\ \A x \in saved' : x[1] # p /\ (x \in saved \/ x[1] = a)
    BY LinkSecondDoes
  <1>4. Typed' BY <1>1, <1>2, <1>3 DEF Typed, TypeOK
  <1>5. LinksOK'
    <2>1. \A x \in Principals : principal'[x].kind = "account" <=> principal'[x].google_sub # None
      BY <1>3 DEF LinksOK
    <2>2. ASSUME NEW x \in saved' PROVE Reachable(x[1])'
      <3>1. x[1] \in Principals BY <1>3 DEF SavedRow
      <3> QED BY <1>3, <3>1 DEF LinksOK, Reachable, Lives
    <2> QED BY <2>1, <2>2 DEF LinksOK
  <1>6. UploadsOK' BY <1>1, <1>3, UploadsFrame
  <1> QED BY <1>1, <1>2, <1>4, <1>5, <1>6, AdmissionsFrame, KeysFrame, QuotaFrame

(* Save, Unsave and VoiceSave: a save is only added under an active caller. *)
LEMMA SaveStep ==
  ASSUME AInv, NEW r \in Requests, NEW i \in Checks,
         Save(r, i) \/ Unsave(r, i) \/ \E v \in VoiceIds : VoiceSave(r, v, i)
  PROVE  AInv'
  <1> USE DEF AInv
  <1>1. /\ Idle(r) /\ Answered(r) /\ Active(caller[r]) /\ saved' \subseteq saved \cup {<<caller[r], i>>}
        /\ UNCHANGED <<quotas, principal, upload, check, stored, usage, admission, owners, day, calls>>
        /\ voiced' = voiced \/ \E v \in VoiceIds : voiced' = voiced \cup {<<caller[r], v>>}
    BY DEF Save, Unsave, VoiceSave, LockActive
  <1>2. /\ Closing /\ caller' \in [Requests -> Principals \cup {None}] /\ caller[r] \in Principals
    BY <1>1, CallerIs, AnsweredCloses
  <1>3. Typed' BY <1>1, <1>2 DEF Typed, TypeOK, SavedRow, VoiceRow
  <1>4. LinksOK' BY <1>1 DEF LinksOK, Reachable, Lives, Active
  <1> QED BY <1>1, <1>2, <1>3, <1>4, UploadsFrame, AdmissionsFrame, KeysFrame, QuotaFrame

-----------------------------------------------------------------------------
(* Upload targets *)

(* Target u becomes row, which keeps the promise, and nobody starts to     *)
(* write who holds an admission.                                           *)
LEMMA UploadChanges ==
  ASSUME Typed, UploadsOK, NEW u \in Uploads, NEW row \in UploadRow,
         upload' = [upload EXCEPT ![u] = row],
         \A p \in Principals : principal[p].old => principal'[p].old,
         row.state = "completed" => \/ row.bytes = "right"
                                    \/ row.bytes = "none" /\ principal'[row.owner].old,
         row.state = "none" => row.bytes = "none",
         row.holders # {} => row.state = "pending",
         row.state # "none" => row.owner \in Principals
  PROVE  UploadsOK' /\ upload' \in [Uploads -> UploadRow]
  <1>1. /\ upload' \in [Uploads -> UploadRow]
        /\ \A v \in Uploads : upload'[v] = IF v = u THEN row ELSE upload[v]
    BY DEF Typed, TypeOK
  <1>2. ASSUME NEW v \in Uploads
        PROVE  /\ upload'[v].state = "completed" =>
                    \/ upload'[v].bytes = "right"
                    \/ upload'[v].bytes = "none" /\ principal'[upload'[v].owner].old
               /\ upload'[v].state = "none" => upload'[v].bytes = "none"
               /\ upload'[v].holders # {} => upload'[v].state = "pending"
               /\ upload'[v].state # "none" => upload'[v].owner \in Principals
    BY <1>1 DEF UploadsOK, CompletedMatches
  <1> QED BY <1>1, <1>2 DEF UploadsOK, CompletedMatches

(* The usage row that charges a day, with the same number of checks. *)
LEMMA UsedIs ==
  ASSUME Typed, NEW p \in Principals
  PROVE  /\ Used(p) \in UsageRow /\ Used(p).day = day
         /\ Used(p).checks = IF usage[p].day = day THEN usage[p].checks ELSE 0
         /\ usage[p] \in UsageRow
  <1>1. usage[p] \in UsageRow /\ day \in 0..LastDay BY DEF Typed, TypeOK
  <1> QED BY <1>1 DEF Used, NoUsage, UsageRow

LEMMA CreateUploadStep ==
  ASSUME AInv, NEW r \in Requests, NEW u \in Uploads, CreateUpload(r, u)
  PROVE  AInv'
  <1> USE DEF AInv
  <1> DEFINE p == caller[r]
             row == [NoUpload EXCEPT !.owner = p, !.state = "pending"]
             w == [Used(p) EXCEPT !.uploads = @ + 1]
  <1>1. /\ Idle(r) /\ Answered(r) /\ LockOwner(p) /\ upload[u].state = "none"
        /\ usage' = IF quotas THEN [usage EXCEPT ![p] = w] ELSE usage
        /\ upload' = [upload EXCEPT ![u] = row]
        /\ UNCHANGED <<quotas, principal, saved, check, stored, voiced, admission, owners, day, calls>>
    BY DEF CreateUpload
  <1>2. p \in Principals /\ Closing /\ caller' \in [Requests -> Principals \cup {None}]
    BY <1>1, CallerIs, AnsweredCloses
  <1>3. /\ row \in UploadRow /\ row.state = "pending" /\ row.owner = p /\ row.holders = {}
    BY <1>2 DEF NoUpload, UploadRow
  <1>4. /\ w \in UsageRow /\ w.day = day
        /\ w.checks = IF usage[p].day = day THEN usage[p].checks ELSE 0
    BY <1>2, UsedIs DEF UsageRow
  <1>5. quotas => \A x \in Requests : admission[x] # None => caller[x] # p
    BY <1>1 DEF LockOwner, LockActive, Locked
  <1> HIDE DEF p, row, w
  <1>6. UploadsOK' /\ upload' \in [Uploads -> UploadRow] BY <1>1, <1>2, <1>3, UploadChanges
  <1>7. usage' \in [Principals -> UsageRow] BY <1>1, <1>2, <1>4 DEF Typed, TypeOK
  <1>8. Typed' BY <1>1, <1>2, <1>6, <1>7 DEF Typed, TypeOK
  <1>9. \A v \in Uploads : upload'[v].holders \subseteq upload[v].holders
    BY <1>1, <1>3 DEF Typed, TypeOK
  <1>10. QuotaOK'
    <2> SUFFICES ASSUME quotas PROVE QuotaOK'
      BY <1>1 DEF QuotaOK
    <2>1. \A x \in Principals : usage'[x] = IF x = p THEN w ELSE usage[x]
      BY <1>1, <1>2 DEF Typed, TypeOK
    <2>2. Counted(check, w, p, day)
      <3>0. Counted(check, usage[p], p, day) BY <1>2 DEF QuotaOK
      <3>1. CASE usage[p].day = day BY <1>4, <3>0, <3>1 DEF Counted
      <3>2. CASE usage[p].day # day
        <4>1. /\ usage[p].day \in Nat /\ day \in Nat /\ \A i \in Checks : check[i].day \in Nat
          BY <1>2, AccountsAssumption DEF Typed, TypeOK, UsageRow, CheckRow
        <4>2. \A i \in Checks : check[i].owner = p => check[i].day < day
          BY <3>0, <3>2, <4>1 DEF Counted
        <4>3. OnDay(check, p, day) = {} BY <4>1, <4>2 DEF OnDay
        <4>4. Cardinality({}) = 0 /\ w.checks = 0 BY <1>4, <3>2, FS_EmptySet
        <4>5. DailyChecks \in Nat BY AccountsAssumption
        <4> QED BY <1>4, <3>0, <4>1, <4>2, <4>3, <4>4, <4>5 DEF Counted
      <3> QED BY <3>1, <3>2
    <2>3. \A x \in Principals : Counted(check, usage'[x], x, day) BY <2>1, <2>2 DEF QuotaOK
    <2>4. ASSUME NEW x \in Requests, admission'[x] # None
          PROVE  Reserved(check, usage'[caller'[x]], caller'[x], admission'[x].used, day)
      <3>1. admission[x] # None /\ caller'[x] = caller[x] BY <1>1, <1>2, <2>4 DEF Closing
      <3>2. caller[x] \in Principals /\ caller[x] # p BY <1>5, <3>1 DEF AdmissionsOK
      <3> QED BY <1>1, <2>1, <3>1, <3>2 DEF QuotaOK
    <2> QED BY <1>1, <2>3, <2>4 DEF QuotaOK
  <1> QED BY <1>1, <1>2, <1>6, <1>8, <1>9, <1>10, LinksFrame, AdmissionsFrame, KeysFrame

LEMMA PutStartStep ==
  ASSUME AInv, NEW r \in Requests, NEW u \in Uploads, PutStart(r, u)
  PROVE  AInv'
  <1> USE DEF AInv
  <1> DEFINE row == [upload[u] EXCEPT !.holders = @ \cup {r}, !.bytes = "wrong"]
  <1>1. /\ Idle(r) /\ upload[u].state = "pending" /\ upload' = [upload EXCEPT ![u] = row]
        /\ UNCHANGED <<quotas, principal, saved, check, stored, usage, voiced, caller, admission, owners, day, calls>>
    BY DEF PutStart, Fillable, Typed, TypeOK
  <1>2. /\ row \in UploadRow /\ row.state = "pending" /\ row.owner = upload[u].owner
        /\ row.holders = upload[u].holders \cup {r}
    <2>1. upload[u] \in UploadRow BY DEF Typed, TypeOK
    <2> QED BY <1>1, <2>1 DEF UploadRow
  <1> HIDE DEF row
  <1>3. UploadsOK' /\ upload' \in [Uploads -> UploadRow]
    BY <1>1, <1>2, UploadChanges DEF UploadsOK
  <1>4. Typed' BY <1>1, <1>3 DEF Typed, TypeOK
  <1>5. AdmissionsOK'
    <2>1. \A v \in Uploads : upload'[v].holders \subseteq upload[v].holders \cup {r}
      BY <1>1, <1>2 DEF Typed, TypeOK
    <2>2. admission[r] = None BY <1>1 DEF Idle
    <2> QED BY <1>1, <2>1, <2>2 DEF AdmissionsOK
  <1>6. Closing BY <1>1 DEF Closing
  <1> QED BY <1>1, <1>3, <1>4, <1>5, <1>6, LinksFrame, KeysFrame, QuotaFrame

LEMMA PutEndStep ==
  ASSUME AInv, NEW r \in Requests, NEW u \in Uploads, PutEnd(r, u)
  PROVE  AInv'
  <1> USE DEF AInv
  <1>1. PICK b \in {"none", "right", "wrong"} :
          upload' = [upload EXCEPT ![u].holders = @ \ {r}, ![u].bytes = b]
    BY DEF PutEnd
  <1> DEFINE row == [upload[u] EXCEPT !.holders = @ \ {r}, !.bytes = b]
  <1>2. /\ r \in upload[u].holders /\ Answered(r) /\ upload' = [upload EXCEPT ![u] = row]
        /\ UNCHANGED <<quotas, principal, saved, check, stored, usage, voiced, admission, owners, day, calls>>
    BY <1>1 DEF PutEnd, Typed, TypeOK
  <1>3. admission[r] = None /\ upload[u].state = "pending" BY <1>2 DEF AdmissionsOK, UploadsOK
  <1>4. Closing /\ caller' \in [Requests -> Principals \cup {None}] BY <1>2, <1>3, AnsweredCloses
  <1>5. /\ row \in UploadRow /\ row.state = "pending" /\ row.owner = upload[u].owner
        /\ row.holders \subseteq upload[u].holders
    <2>1. upload[u] \in UploadRow BY DEF Typed, TypeOK
    <2> QED BY <1>3, <2>1 DEF UploadRow
  <1> HIDE DEF row
  <1>6. UploadsOK' /\ upload' \in [Uploads -> UploadRow]
    BY <1>2, <1>3, <1>5, UploadChanges DEF UploadsOK
  <1>7. Typed' BY <1>2, <1>4, <1>6 DEF Typed, TypeOK
  <1>8. \A v \in Uploads : upload'[v].holders \subseteq upload[v].holders
    BY <1>2, <1>5 DEF Typed, TypeOK
  <1> QED BY <1>2, <1>4, <1>6, <1>7, <1>8, LinksFrame, AdmissionsFrame, KeysFrame, QuotaFrame

LEMMA CompleteUploadStep ==
  ASSUME AInv, NEW r \in Requests, NEW u \in Uploads, CompleteUpload(r, u)
  PROVE  AInv'
  <1> USE DEF AInv
  <1> DEFINE row == Verified(upload[u])
  <1>1. /\ Idle(r) /\ Answered(r) /\ upload[u].state = "pending" /\ upload[u].holders = {}
        /\ upload' = [upload EXCEPT ![u] = row]
        /\ UNCHANGED <<quotas, principal, saved, check, stored, usage, voiced, admission, owners, day, calls>>
    BY DEF CompleteUpload, OwnedFree, Fillable
  <1>2. Closing /\ caller' \in [Requests -> Principals \cup {None}]
    BY <1>1, CallerIs, AnsweredCloses
  <1>3. /\ row \in UploadRow /\ row.owner = upload[u].owner /\ row.holders = {}
        /\ row.state \in {"pending", "completed"}
        /\ row.state = "completed" => row.bytes = "right"
    <2>1. upload[u] \in UploadRow BY DEF Typed, TypeOK
    <2> QED BY <1>1, <2>1 DEF Verified, UploadRow
  <1> HIDE DEF row
  <1>4. UploadsOK' /\ upload' \in [Uploads -> UploadRow]
    BY <1>1, <1>3, UploadChanges DEF UploadsOK
  <1>5. Typed' BY <1>1, <1>2, <1>4 DEF Typed, TypeOK
  <1>6. \A v \in Uploads : upload'[v].holders \subseteq upload[v].holders
    BY <1>1, <1>3 DEF Typed, TypeOK
  <1> QED BY <1>1, <1>2, <1>4, <1>5, <1>6, LinksFrame, AdmissionsFrame, KeysFrame, QuotaFrame

LEMMA LateStep ==
  ASSUME AInv, NEW u \in Uploads, Late(u) \/ ExpireUpload(u)
  PROVE  AInv'
  <1> USE DEF AInv
  <1>0. upload[u] \in UploadRow BY DEF Typed, TypeOK
  <1>1. PICK row \in {[upload[u] EXCEPT !.late = TRUE], NoUpload} :
          upload' = [upload EXCEPT ![u] = row]
    BY DEF Late, ExpireUpload, Typed, TypeOK
  <1>2. /\ upload[u].state = "pending"
        /\ UNCHANGED <<quotas, principal, saved, check, stored, usage, voiced, caller, admission, owners, day, calls>>
    BY DEF Late, ExpireUpload
  <1>3. /\ row \in UploadRow /\ row.state \in {"pending", "none"}
        /\ row.state = "none" => row.bytes = "none"
        /\ row.state = "pending" => row.owner = upload[u].owner
        /\ row.holders \subseteq upload[u].holders /\ (row.state = "none" => row.holders = {})
    <2>1. CASE row = [upload[u] EXCEPT !.late = TRUE] BY <1>0, <1>2, <2>1 DEF UploadRow
    <2>2. CASE row = NoUpload BY <2>2 DEF NoUpload, UploadRow
    <2> QED BY <2>1, <2>2
  <1>4. UploadsOK' /\ upload' \in [Uploads -> UploadRow]
    BY <1>1, <1>2, <1>3, UploadChanges DEF UploadsOK
  <1>5. Typed' BY <1>2, <1>4 DEF Typed, TypeOK
  <1>6. \A v \in Uploads : upload'[v].holders \subseteq upload[v].holders
    BY <1>1, <1>3 DEF Typed, TypeOK
  <1>7. Closing BY <1>2 DEF Closing
  <1> QED BY <1>2, <1>4, <1>5, <1>6, <1>7, LinksFrame, AdmissionsFrame, KeysFrame, QuotaFrame

-----------------------------------------------------------------------------
(* Admission of an investigation *)

LEMMA CreateCheckStep ==
  ASSUME AInv, NEW r \in Requests, NEW k \in Keys, NEW b \in Bodies, CreateCheck(r, k, b)
  PROVE  AInv'
  <1> USE DEF AInv
  <1> DEFINE p == caller[r]
             t == [key |-> k, body |-> b, used |-> Used(p)]
  <1>1. /\ Idle(r) /\ LockOwner(p) /\ Chargeable(p) /\ admission' = [admission EXCEPT ![r] = t]
        /\ UNCHANGED <<quotas, principal, saved, upload, check, stored, usage, voiced, caller, owners, day, calls>>
    BY DEF CreateCheck
  <1>2. p \in Principals /\ \A u \in Uploads : r \notin upload[u].holders BY <1>1, CallerIs
  <1>3. /\ t \in Admission /\ t.used = Used(p) BY <1>2, UsedIs DEF Admission
  <1>4. quotas => \A x \in Requests : admission[x] # None => caller[x] # p
    BY <1>1 DEF LockOwner, LockActive, Locked
  <1>5. quotas => Reserved(check, usage[p], p, t.used, day)
    <2> SUFFICES ASSUME quotas PROVE Reserved(check, usage[p], p, Used(p), day)
      BY <1>3
    <2>1. Counted(check, usage[p], p, day) BY <1>2 DEF QuotaOK
    <2>2. Used(p).checks < DailyChecks /\ Running(p) < ActiveChecks BY <1>1 DEF Chargeable
    <2>3. Cardinality(InProgress(check, p)) < ActiveChecks
      <3> DEFINE R == {i \in Checks : check[i].owner = p /\ check[i].jobs # "none"}
      <3>1. InProgress(check, p) \subseteq R BY DEF InProgress
      <3>2. R \subseteq Admitted(check) BY <1>2, AccountsAssumption DEF Admitted
      <3>3. IsFiniteSet(R) BY <3>2, FS_Subset DEF KeysOK
      <3>4. Cardinality(InProgress(check, p)) <= Cardinality(R) BY <3>1, <3>3, FS_Subset
      <3>5. Running(p) = Cardinality(R) BY DEF Running
      <3>6. IsFiniteSet(InProgress(check, p)) BY <3>1, <3>3, FS_Subset
      <3>7. Cardinality(InProgress(check, p)) \in Nat /\ Cardinality(R) \in Nat /\ ActiveChecks \in Nat
        BY <3>3, <3>6, FS_CardinalityType, AccountsAssumption
      <3> HIDE DEF R
      <3> QED BY <2>2, <3>4, <3>5, <3>7
    <2>4. day \in Nat BY AccountsAssumption DEF Typed, TypeOK
    <2> HIDE DEF p
    <2> QED BY <1>2, <2>1, <2>2, <2>3, <2>4, UsedIs DEF Counted, Reserved
  <1> HIDE DEF t
  <1>6. \A x \in Requests : admission'[x] = IF x = r THEN t ELSE admission[x]
    BY <1>1 DEF Typed
  <1>7. admission' \in [Requests -> Admission \cup {None}] BY <1>1, <1>3 DEF Typed
  <1>8. Typed' BY <1>1, <1>7 DEF Typed, TypeOK, Admission
  <1>9. AdmissionsOK' BY <1>1, <1>2, <1>4, <1>6 DEF AdmissionsOK
  <1>10. QuotaOK' BY <1>1, <1>5, <1>6 DEF QuotaOK
  <1> QED BY <1>1, <1>8, <1>9, <1>10, LinksFrame, UploadsFrame, KeysFrame

(* The investigations of a principal are among the admitted ones, which    *)
(* are finitely many.                                                      *)
LEMMA OwnFinite ==
  ASSUME KeysOK, NEW p \in Principals, NEW d
  PROVE  IsFiniteSet(OnDay(check, p, d)) /\ IsFiniteSet(InProgress(check, p))
  <1>1. OnDay(check, p, d) \subseteq Admitted(check) /\ InProgress(check, p) \subseteq Admitted(check)
    BY AccountsAssumption DEF OnDay, InProgress, Admitted
  <1> QED BY <1>1, FS_Subset DEF KeysOK

(* A set that gains at most one element. *)
LEMMA AtMostOneMore ==
  ASSUME NEW S, IsFiniteSet(S), NEW T, NEW x, T \subseteq S \cup {x}
  PROVE  /\ IsFiniteSet(T) /\ Cardinality(T) \in Nat /\ Cardinality(S) \in Nat
         /\ Cardinality(T) <= Cardinality(S) + 1
         /\ T \subseteq S => Cardinality(T) <= Cardinality(S)
  <1>1. /\ IsFiniteSet(S \cup {x}) /\ Cardinality(S \cup {x}) \in {Cardinality(S), Cardinality(S) + 1}
    BY FS_AddElement
  <1>2. IsFiniteSet(T) /\ Cardinality(T) <= Cardinality(S \cup {x}) BY <1>1, FS_Subset
  <1>3. T \subseteq S => Cardinality(T) <= Cardinality(S) BY FS_Subset
  <1>4. Cardinality(T) \in Nat /\ Cardinality(S) \in Nat BY <1>2, FS_CardinalityType
  <1> QED BY <1>1, <1>2, <1>3, <1>4

(* What one admission does to the counts: investigation i becomes p's. *)
LEMMA OneMoreCheck ==
  ASSUME NEW i \in Checks, check[i].owner = None, NEW p \in Principals, check'[i].owner = p,
         \A j \in Checks \ {i} : check'[j] = check[j]
  PROVE  /\ \A x \in Principals, d \in Nat :
              /\ OnDay(check', x, d) \subseteq OnDay(check, x, d) \cup {i}
              /\ x # p => OnDay(check', x, d) = OnDay(check, x, d)
         /\ \A x \in Principals :
              /\ InProgress(check', x) \subseteq InProgress(check, x) \cup {i}
              /\ x # p => InProgress(check', x) = InProgress(check, x)
         /\ Admitted(check') \subseteq Admitted(check) \cup {i}
  <1>1. \A x \in Principals : x # None BY AccountsAssumption
  <1>2. ASSUME NEW x \in Principals, NEW d \in Nat
        PROVE  /\ OnDay(check', x, d) \subseteq OnDay(check, x, d) \cup {i}
               /\ x # p => OnDay(check', x, d) = OnDay(check, x, d)
    BY <1>1 DEF OnDay
  <1>3. ASSUME NEW x \in Principals
        PROVE  /\ InProgress(check', x) \subseteq InProgress(check, x) \cup {i}
               /\ x # p => InProgress(check', x) = InProgress(check, x)
    BY <1>1 DEF InProgress
  <1>4. Admitted(check') \subseteq Admitted(check) \cup {i} BY DEF Admitted
  <1> QED BY <1>2, <1>3, <1>4

LEMMA CommitCheckStep ==
  ASSUME AInv, NEW r \in Requests, CommitCheck(r)
  PROVE  AInv'
  <1> USE DEF AInv
  <1> DEFINE p == caller[r]
             t == admission[r]
             w == [t.used EXCEPT !.checks = @ + 1]
  <1>1. PICK i \in Checks :
          /\ check[i].owner = None
          /\ check' = [check EXCEPT ![i] = [owner |-> p, key |-> t.key, body |-> t.body,
                                            day |-> t.used.day, jobs |-> "first", report |-> FALSE]]
          /\ stored' = stored \cup {[owner |-> p, key |-> t.key, body |-> t.body, check |-> i]}
    BY DEF CommitCheck
  <1>2. /\ t # None /\ Insertable(p, t.key)
        /\ usage' = IF quotas THEN [usage EXCEPT ![p] = w] ELSE usage
        /\ admission' = [admission EXCEPT ![r] = None] /\ Answered(r)
        /\ UNCHANGED <<quotas, principal, saved, upload, voiced, owners, day, calls>>
    BY DEF CommitCheck
  <1>3. /\ p \in Principals /\ t \in Admission /\ t.key \in Keys /\ t.body \in Bodies
        /\ t.used \in UsageRow
    BY <1>2 DEF AdmissionsOK, Typed, Admission
  <1>4. w \in UsageRow /\ w.day = t.used.day /\ w.checks = t.used.checks + 1
    BY <1>3 DEF UsageRow
  <1> DEFINE row == [owner |-> p, key |-> t.key, body |-> t.body,
                     day |-> t.used.day, jobs |-> "first", report |-> FALSE]
             e == [owner |-> p, key |-> t.key, body |-> t.body, check |-> i]
  <1>5. /\ row \in CheckRow /\ row.owner = p /\ row.key = t.key /\ row.body = t.body
        /\ row.day = t.used.day
    BY <1>3 DEF CheckRow, UsageRow
  <1>6. e \in KeyRow BY <1>3 DEF KeyRow
  <1>7. check' = [check EXCEPT ![i] = row] /\ stored' = stored \cup {e} BY <1>1
  <1>8. \A x \in stored : x.owner = p => x.key # t.key BY <1>2 DEF Insertable
  <1>9. check \in [Checks -> CheckRow] BY DEF Typed, TypeOK
  <1>10. e = [owner |-> row.owner, key |-> row.key, body |-> row.body, check |-> i] BY <1>5
  <1> HIDE DEF p, t, w, row, e
  <1>11. /\ check' \in [Checks -> CheckRow] /\ check'[i] = row
         /\ \A j \in Checks \ {i} : check'[j] = check[j]
    BY <1>5, <1>7, <1>9
  <1>12. /\ \A x \in Principals, d \in Nat :
              /\ OnDay(check', x, d) \subseteq OnDay(check, x, d) \cup {i}
              /\ x # p => OnDay(check', x, d) = OnDay(check, x, d)
         /\ \A x \in Principals :
              /\ InProgress(check', x) \subseteq InProgress(check, x) \cup {i}
              /\ x # p => InProgress(check', x) = InProgress(check, x)
         /\ Admitted(check') \subseteq Admitted(check) \cup {i}
    <2>1. p \in Principals /\ check[i].owner = None /\ check'[i].owner = p BY <1>1, <1>3, <1>5, <1>11
    <2>2. \A j \in Checks \ {i} : check'[j] = check[j] BY <1>11
    <2> HIDE DEF AInv
    <2> QED BY <2>1, <2>2, OneMoreCheck
  <1>13. Closing BY <1>2 DEF Closing, Answered, Typed, TypeOK
  <1>14. Typed'
    <2>1. admission' \in [Requests -> Admission \cup {None}] BY <1>2 DEF Typed
    <2>2. caller' \in [Requests -> Principals \cup {None}] BY <1>2 DEF Answered, Typed, TypeOK
    <2>3. usage' \in [Principals -> UsageRow] BY <1>2, <1>3, <1>4 DEF Typed, TypeOK
    <2>4. stored' \subseteq KeyRow BY <1>6, <1>7 DEF Typed, TypeOK
    <2> QED BY <1>2, <1>11, <2>1, <2>2, <2>3, <2>4 DEF Typed, TypeOK, Admission
  <1>15. KeysOK'
    <2>1. ASSUME NEW j \in Checks, check'[j].owner # None
          PROVE  [owner |-> check'[j].owner, key |-> check'[j].key, body |-> check'[j].body, check |-> j] \in stored'
      BY <1>7, <1>10, <1>11, <2>1 DEF KeysOK
    <2>2. ASSUME NEW j \in Checks \ {i}, check'[j].owner = p, check'[j].key = t.key PROVE FALSE
      <3>1. check[j].owner = p /\ check[j].key = t.key BY <1>11, <2>2
      <3>2. [owner |-> p, key |-> t.key, body |-> check[j].body, check |-> j] \in stored
        BY <1>3, <3>1, AccountsAssumption DEF KeysOK
      <3> QED BY <1>8, <3>2
    <2>3. ASSUME NEW j \in Checks, NEW k \in Checks, check'[j].owner # None,
                 check'[j].owner = check'[k].owner, check'[j].key = check'[k].key
          PROVE  j = k
      BY <1>5, <1>11, <2>2, <2>3 DEF KeysOK
    <2>4. IsFiniteSet(Admitted(check'))
      <3>1. Admitted(check') \subseteq Admitted(check) \cup {i}
        BY <1>3, <1>12
      <3> QED BY <3>1, AtMostOneMore DEF KeysOK
    <2> QED BY <2>1, <2>3, <2>4 DEF KeysOK
  <1>16. QuotaOK'
    <2> SUFFICES ASSUME quotas PROVE QuotaOK'
      BY <1>2 DEF QuotaOK
    <2>1. \A x \in Principals : usage'[x] = IF x = p THEN w ELSE usage[x]
      BY <1>2, <1>3 DEF Typed, TypeOK
    <2>2. Counted(check, usage[p], p, day) /\ Reserved(check, usage[p], p, t.used, day)
      BY <1>2, <1>3 DEF QuotaOK, p, t
    <2>3. /\ usage[p].day \in Nat /\ usage[p].checks \in Nat /\ t.used.day \in Nat /\ t.used.checks \in Nat
          /\ day \in Nat /\ DailyChecks \in Nat /\ ActiveChecks \in Nat
          /\ \A j \in Checks : check[j].day \in Nat
      BY <1>3, AccountsAssumption DEF Typed, TypeOK, UsageRow, CheckRow
    <2>4. Counted(check', w, p, day)
      <3>1. \A j \in Checks : check'[j].owner = p => check'[j].day <= w.day
        BY <1>4, <1>5, <1>11, <2>2, <2>3 DEF Counted, Reserved
      <3>2. w.day <= day /\ w.checks <= DailyChecks BY <1>4, <2>2, <2>3 DEF Reserved
      <3>3. /\ OnDay(check', p, w.day) \subseteq OnDay(check, p, w.day) \cup {i}
            /\ InProgress(check', p) \subseteq InProgress(check, p) \cup {i}
        <4>1. w.day \in Nat BY <1>4, <2>3
        <4> QED BY <1>3, <1>12, <4>1
      <3>4. IsFiniteSet(OnDay(check, p, w.day)) /\ IsFiniteSet(InProgress(check, p))
        BY <1>3, OwnFinite
      <3>5. Cardinality(InProgress(check', p)) <= ActiveChecks
        <4>1. /\ Cardinality(InProgress(check', p)) \in Nat /\ Cardinality(InProgress(check, p)) \in Nat
              /\ Cardinality(InProgress(check', p)) <= Cardinality(InProgress(check, p)) + 1
          BY <3>3, <3>4, AtMostOneMore
        <4> QED BY <2>2, <2>3, <4>1 DEF Reserved
      <3>6. /\ Cardinality(OnDay(check', p, w.day)) \in Nat /\ Cardinality(OnDay(check, p, w.day)) \in Nat
            /\ Cardinality(OnDay(check', p, w.day)) <= Cardinality(OnDay(check, p, w.day)) + 1
        BY <3>3, <3>4, AtMostOneMore
      <3>7. Cardinality(OnDay(check, p, w.day)) <= t.used.checks
        <4>1. CASE usage[p].day = t.used.day BY <1>4, <2>2, <4>1 DEF Counted, Reserved
        <4>2. CASE usage[p].day # t.used.day
          <5>1. \A j \in Checks : check[j].owner = p => check[j].day < t.used.day
            BY <2>2, <2>3, <4>2 DEF Counted, Reserved
          <5>2. OnDay(check, p, w.day) = {} BY <1>4, <2>3, <5>1 DEF OnDay
          <5>3. Cardinality({}) = 0 BY FS_EmptySet
          <5> QED BY <2>3, <5>2, <5>3
        <4> QED BY <4>1, <4>2
      <3>8. Cardinality(OnDay(check', p, w.day)) <= w.checks BY <1>4, <2>3, <3>6, <3>7
      <3> QED BY <3>1, <3>2, <3>5, <3>8 DEF Counted
    <2>5. ASSUME NEW x \in Principals, x # p PROVE Counted(check', usage[x], x, day)
      <3>1. /\ OnDay(check', x, usage[x].day) = OnDay(check, x, usage[x].day)
            /\ InProgress(check', x) = InProgress(check, x)
        <4>1. usage[x].day \in Nat BY DEF Typed, TypeOK, UsageRow
        <4> QED BY <1>12, <2>5, <4>1
      <3>2. \A j \in Checks : check'[j].owner = x => check[j].owner = x /\ check'[j] = check[j]
        BY <1>5, <1>11, <2>5
      <3>3. Counted(check, usage[x], x, day) BY DEF QuotaOK
      <3> QED BY <3>1, <3>2, <3>3 DEF Counted
    <2>6. ASSUME NEW s \in Requests, admission'[s] # None
          PROVE  Reserved(check', usage'[caller'[s]], caller'[s], admission'[s].used, day)
      <3>1. s # r /\ admission'[s] = admission[s] /\ caller'[s] = caller[s]
        BY <1>2, <1>13, <2>6 DEF Closing, Typed
      <3>2. caller[s] \in Principals /\ caller[s] # p
        BY <1>2, <2>6, <3>1 DEF AdmissionsOK, p, t
      <3>3. InProgress(check', caller[s]) = InProgress(check, caller[s])
        BY <3>2, <1>12
      <3>4. Reserved(check, usage[caller[s]], caller[s], admission[s].used, day)
        BY <2>6, <3>1 DEF QuotaOK
      <3> QED BY <2>1, <3>1, <3>2, <3>3, <3>4 DEF Reserved
    <2> QED BY <1>2, <2>1, <2>4, <2>5, <2>6 DEF QuotaOK
  <1> QED BY <1>2, <1>13, <1>14, <1>15, <1>16, LinksFrame, UploadsFrame, AdmissionsFrame

LEMMA PublishStep ==
  ASSUME AInv, NEW i \in Checks, Publish(i) \/ Resume(i)
  PROVE  AInv'
  <1> USE DEF AInv
  <1>1. PICK n \in {"none", "more"}, b \in BOOLEAN :
          check' = [check EXCEPT ![i] = [check[i] EXCEPT !.jobs = n, !.report = b]]
    <2>1. check \in [Checks -> CheckRow] /\ check[i] \in CheckRow BY DEF Typed, TypeOK
    <2>2. ASSUME Publish(i)
          PROVE  \E n \in {"none", "more"}, b \in BOOLEAN :
                   check' = [check EXCEPT ![i] = [check[i] EXCEPT !.jobs = n, !.report = b]]
      <3>1. PICK p \in BOOLEAN : check' = [check EXCEPT ![i].jobs = "none", ![i].report = @ \/ p]
        BY <2>2 DEF Publish
      <3>2. check[i].report \in BOOLEAN BY <2>1 DEF CheckRow
      <3> DEFINE b == check[i].report \/ p
      <3>3. b \in BOOLEAN BY <3>2
      <3>4. check' = [check EXCEPT ![i] = [check[i] EXCEPT !.jobs = "none", !.report = b]]
        BY <2>1, <3>1
      <3> HIDE DEF b
      <3> QED BY <3>3, <3>4
    <2>3. ASSUME Resume(i)
          PROVE  \E n \in {"none", "more"}, b \in BOOLEAN :
                   check' = [check EXCEPT ![i] = [check[i] EXCEPT !.jobs = n, !.report = b]]
      <3> DEFINE b == check[i].report
      <3>1. b \in BOOLEAN BY <2>1 DEF CheckRow
      <3>2. [check[i] EXCEPT !.jobs = "more"] = [check[i] EXCEPT !.jobs = "more", !.report = b]
        BY <2>1 DEF CheckRow
      <3>3. check' = [check EXCEPT ![i] = [check[i] EXCEPT !.jobs = "more"]]
        BY <2>1, <2>3 DEF Resume
      <3> QED BY <3>1, <3>2, <3>3
    <2> QED BY <2>2, <2>3
  <1>2. UNCHANGED <<quotas, principal, saved, upload, stored, usage, voiced, caller, admission, owners, day, calls>>
    BY DEF Publish, Resume
  <1> DEFINE row == [check[i] EXCEPT !.jobs = n, !.report = b]
  <1>3. check \in [Checks -> CheckRow] /\ check' = [check EXCEPT ![i] = row]
    BY <1>1 DEF Typed, TypeOK
  <1>4. /\ row \in CheckRow /\ row.owner = check[i].owner /\ row.key = check[i].key
        /\ row.body = check[i].body /\ row.day = check[i].day /\ row.jobs # "first"
    <2>1. check[i] \in CheckRow BY <1>3
    <2> QED BY <1>1, <2>1 DEF CheckRow
  <1> HIDE DEF row
  <1>5. /\ check' \in [Checks -> CheckRow]
        /\ \A j \in Checks :
             /\ check'[j].owner = check[j].owner /\ check'[j].key = check[j].key
             /\ check'[j].body = check[j].body /\ check'[j].day = check[j].day
             /\ check'[j].jobs = "first" => check[j].jobs = "first"
    BY <1>3, <1>4
  <1>6. Typed' BY <1>2, <1>5 DEF Typed, TypeOK
  <1>7. Admitted(check') = Admitted(check) BY <1>5 DEF Admitted
  <1>8. KeysOK' BY <1>2, <1>5, <1>7 DEF KeysOK
  <1>9. QuotaOK'
    <2> SUFFICES ASSUME quotas PROVE QuotaOK'
      BY <1>2 DEF QuotaOK
    <2>1. ASSUME NEW p \in Principals
          PROVE  /\ OnDay(check', p, usage[p].day) = OnDay(check, p, usage[p].day)
                 /\ Cardinality(InProgress(check', p)) \in Nat
                 /\ Cardinality(InProgress(check, p)) \in Nat
                 /\ Cardinality(InProgress(check', p)) <= Cardinality(InProgress(check, p))
      <3>1. /\ OnDay(check', p, usage[p].day) = OnDay(check, p, usage[p].day)
            /\ InProgress(check', p) \subseteq InProgress(check, p)
        BY <1>5 DEF OnDay, InProgress
      <3>2. IsFiniteSet(InProgress(check, p)) BY OwnFinite
      <3> QED BY <3>1, <3>2, AtMostOneMore
    <2>2. ActiveChecks \in Nat BY AccountsAssumption
    <2>3. ASSUME NEW p \in Principals PROVE Counted(check', usage[p], p, day)
      <3>1. Counted(check, usage[p], p, day) BY DEF QuotaOK
      <3> QED BY <1>5, <2>1, <2>2, <3>1 DEF Counted
    <2>4. ASSUME NEW r \in Requests, admission[r] # None
          PROVE  Reserved(check', usage[caller[r]], caller[r], admission[r].used, day)
      <3>1. Reserved(check, usage[caller[r]], caller[r], admission[r].used, day) BY <2>4 DEF QuotaOK
      <3>2. caller[r] \in Principals BY <2>4 DEF AdmissionsOK
      <3> QED BY <2>1, <2>2, <3>1, <3>2 DEF Reserved
    <2> QED BY <1>2, <2>3, <2>4 DEF QuotaOK
  <1>10. Closing BY <1>2 DEF Closing
  <1> QED BY <1>2, <1>6, <1>8, <1>9, <1>10, LinksFrame, UploadsFrame, AdmissionsFrame

LEMMA NewDayStep ==
  ASSUME AInv, NewDay
  PROVE  AInv'
  <1> USE DEF AInv
  <1>1. /\ day < LastDay /\ day' = day + 1
        /\ UNCHANGED <<quotas, principal, saved, upload, check, stored, usage, voiced, caller, admission, owners, calls>>
    BY DEF NewDay
  <1>2. day \in 0..LastDay /\ day \in Nat /\ LastDay \in Nat BY AccountsAssumption DEF Typed, TypeOK
  <1>3. day' \in 0..LastDay BY <1>1, <1>2
  <1>4. Typed' BY <1>1, <1>3 DEF Typed, TypeOK
  <1>5. QuotaOK'
    <2> SUFFICES ASSUME quotas PROVE QuotaOK'
      BY <1>1 DEF QuotaOK
    <2>1. ASSUME NEW p \in Principals PROVE Counted(check, usage[p], p, day')
      <3>1. Counted(check, usage[p], p, day) BY DEF QuotaOK
      <3>2. usage[p].day \in Nat BY DEF Typed, TypeOK, UsageRow
      <3> QED BY <1>1, <1>2, <3>1, <3>2 DEF Counted
    <2>2. ASSUME NEW r \in Requests, admission[r] # None
          PROVE  Reserved(check, usage[caller[r]], caller[r], admission[r].used, day')
      <3>1. Reserved(check, usage[caller[r]], caller[r], admission[r].used, day) BY <2>2 DEF QuotaOK
      <3>2. admission[r].used.day \in Nat BY <2>2 DEF Typed, Admission, UsageRow
      <3> QED BY <1>1, <1>2, <3>1, <3>2 DEF Reserved
    <2> QED BY <1>1, <2>1, <2>2 DEF QuotaOK
  <1>6. Closing BY <1>1 DEF Closing
  <1> QED BY <1>1, <1>4, <1>5, <1>6, LinksFrame, UploadsFrame, AdmissionsFrame, KeysFrame

-----------------------------------------------------------------------------
(* The expiry of a workspace *)

LEMMA ExpireStep ==
  ASSUME AInv, NEW p \in Principals, Expire(p)
  PROVE  AInv'
  <1> USE DEF AInv
  <1> DEFINE q == [Absent EXCEPT !.kind = "erased"]
  <1>1. /\ Lockable(p) /\ principal' = [principal EXCEPT ![p] = q]
        /\ saved' = {s \in saved : s[1] # p}
        /\ upload' = [u \in Uploads |-> IF upload[u].owner = p THEN NoUpload ELSE upload[u]]
        /\ check' = [i \in Checks |-> IF check[i].owner = p THEN NoCheck ELSE check[i]]
        /\ stored' = {e \in stored : e.owner # p}
        /\ usage' = [usage EXCEPT ![p] = NoUsage]
        /\ voiced' = {e \in voiced : e[1] # p}
        /\ owners' = owners \ {p}
        /\ UNCHANGED <<quotas, caller, admission, day, calls>>
    BY DEF Expire, Expirable
  <1>2. /\ q \in PrincipalRow /\ q.kind = "erased" /\ q.google_sub = None
        /\ NoUpload \in UploadRow /\ NoUpload.state = "none" /\ NoUpload.bytes = "none" /\ NoUpload.holders = {}
        /\ NoCheck \in CheckRow /\ NoCheck.owner = None
        /\ NoUsage \in UsageRow /\ NoUsage.day = 0 /\ NoUsage.checks = 0
    <2>1. q \in PrincipalRow /\ q.kind = "erased" /\ q.google_sub = None
      BY DEF Absent, PrincipalRow
    <2>2. NoUpload \in UploadRow /\ NoUpload.state = "none" /\ NoUpload.bytes = "none" /\ NoUpload.holders = {}
      BY DEF NoUpload, UploadRow
    <2>3. /\ NoCheck \in CheckRow /\ NoCheck.owner = None
          /\ NoUsage \in UsageRow /\ NoUsage.day = 0 /\ NoUsage.checks = 0
      BY AccountsAssumption DEF NoCheck, NoUsage, CheckRow, UsageRow
    <2> QED BY <2>1, <2>2, <2>3
  <1> HIDE DEF q
  <1>3. /\ principal' \in [Principals -> PrincipalRow]
        /\ \A x \in Principals : principal'[x] = IF x = p THEN q ELSE principal[x]
    BY <1>1, <1>2 DEF Typed, TypeOK
  <1>4. upload' \in [Uploads -> UploadRow] BY <1>1, <1>2 DEF Typed, TypeOK
  <1>5. check' \in [Checks -> CheckRow] BY <1>1, <1>2 DEF Typed, TypeOK
  <1>6. usage' \in [Principals -> UsageRow] BY <1>1, <1>2 DEF Typed, TypeOK
  <1>7. Typed' BY <1>1, <1>3, <1>4, <1>5, <1>6 DEF Typed, TypeOK
  <1>8. LinksOK'
    <2>1. \A s \in saved : s[1] \in Principals BY DEF Typed, TypeOK, SavedRow
    <2> QED BY <1>1, <1>2, <1>3, <2>1 DEF LinksOK, Reachable, Lives
  <1>9. UploadsOK'
    <2>1. ASSUME NEW u \in Uploads
          PROVE  /\ upload'[u].state = "completed" =>
                      \/ upload'[u].bytes = "right"
                      \/ upload'[u].bytes = "none" /\ principal'[upload'[u].owner].old
                 /\ upload'[u].state = "none" => upload'[u].bytes = "none"
                 /\ upload'[u].holders # {} => upload'[u].state = "pending"
                 /\ upload'[u].state # "none" => upload'[u].owner \in Principals
      <3>1. CASE upload[u].owner = p BY <1>1, <1>2, <3>1
      <3>2. CASE upload[u].owner # p BY <1>1, <1>3, <3>2 DEF UploadsOK, CompletedMatches
      <3> QED BY <3>1, <3>2
    <2> QED BY <2>1 DEF UploadsOK, CompletedMatches
  <1>10. Closing BY <1>1 DEF Closing
  <1>11. \A u \in Uploads : upload'[u].holders \subseteq upload[u].holders BY <1>1, <1>2
  <1>12. \A i \in Checks : check'[i] = IF check[i].owner = p THEN NoCheck ELSE check[i] BY <1>1
  <1>13. p # None BY AccountsAssumption
  <1>14. KeysOK'
    <2>1. Admitted(check') \subseteq Admitted(check) BY <1>2, <1>12 DEF Admitted
    <2>2. IsFiniteSet(Admitted(check')) BY <2>1, FS_Subset DEF KeysOK
    <2>3. ASSUME NEW i \in Checks, check'[i].owner # None
          PROVE  /\ check'[i] = check[i] /\ check[i].owner # p /\ check[i].owner # None
                 /\ [owner |-> check'[i].owner, key |-> check'[i].key, body |-> check'[i].body, check |-> i] \in stored'
      <3>1. check'[i] = check[i] /\ check[i].owner # p /\ check[i].owner # None
        BY <1>2, <1>12, <2>3
      <3>2. [owner |-> check[i].owner, key |-> check[i].key, body |-> check[i].body, check |-> i] \in stored
        BY <3>1 DEF KeysOK
      <3> QED BY <1>1, <3>1, <3>2
    <2>4. ASSUME NEW i \in Checks, NEW j \in Checks, check'[i].owner # None,
                 check'[i].owner = check'[j].owner, check'[i].key = check'[j].key
          PROVE  i = j
      BY <2>3, <2>4 DEF KeysOK
    <2> QED BY <2>2, <2>3, <2>4 DEF KeysOK
  <1>15. QuotaOK'
    <2> SUFFICES ASSUME quotas PROVE QuotaOK'
      BY <1>1 DEF QuotaOK
    <2>1. \A x \in Principals : usage'[x] = IF x = p THEN NoUsage ELSE usage[x]
      BY <1>1 DEF Typed, TypeOK
    <2>2. Counted(check', NoUsage, p, day)
      <3>1. \A i \in Checks : check'[i].owner # p BY <1>2, <1>12, <1>13
      <3>2. OnDay(check', p, 0) = {} /\ InProgress(check', p) = {} BY <3>1 DEF OnDay, InProgress
      <3>3. Cardinality({}) = 0 BY FS_EmptySet
      <3>4. day \in Nat /\ DailyChecks \in Nat /\ ActiveChecks \in Nat
        BY AccountsAssumption DEF Typed, TypeOK
      <3> QED BY <1>2, <3>1, <3>2, <3>3, <3>4 DEF Counted
    <2>3. ASSUME NEW x \in Principals, x # p
          PROVE  /\ OnDay(check', x, usage[x].day) = OnDay(check, x, usage[x].day)
                 /\ InProgress(check', x) = InProgress(check, x)
                 /\ \A i \in Checks : check'[i].owner = x => check'[i] = check[i] /\ check[i].owner = x
      <3>1. x # None BY AccountsAssumption
      <3> QED BY <1>2, <1>12, <2>3, <3>1 DEF OnDay, InProgress
    <2>4. ASSUME NEW x \in Principals, x # p PROVE Counted(check', usage[x], x, day)
      <3>1. Counted(check, usage[x], x, day) BY DEF QuotaOK
      <3> QED BY <2>3, <2>4, <3>1 DEF Counted
    <2>5. ASSUME NEW r \in Requests, admission[r] # None
          PROVE  Reserved(check', usage'[caller[r]], caller[r], admission[r].used, day)
      <3>1. caller[r] \in Principals /\ caller[r] # p
        BY <1>1, <2>5 DEF Lockable, Locked, AdmissionsOK
      <3>2. Reserved(check, usage[caller[r]], caller[r], admission[r].used, day) BY <2>5 DEF QuotaOK
      <3> QED BY <2>1, <2>3, <3>1, <3>2 DEF Reserved
    <2> QED BY <1>1, <2>1, <2>2, <2>4, <2>5 DEF QuotaOK
  <1> QED BY <1>1, <1>7, <1>8, <1>9, <1>10, <1>11, <1>14, <1>15, AdmissionsFrame

LEMMA ExpireFailsStep ==
  ASSUME AInv, NEW p \in Principals, ExpireFails(p)
  PROVE  AInv'
  <1> USE DEF AInv
  <1>1. /\ principal[p].old /\ Lockable(p) /\ owners' = {}
        /\ upload' = [u \in Uploads |-> IF upload[u].owner = p THEN [upload[u] EXCEPT !.bytes = "none"]
                                                               ELSE upload[u]]
        /\ UNCHANGED <<quotas, principal, saved, check, stored, usage, voiced, caller, admission, day, calls>>
    BY DEF ExpireFails, Expirable, ExpiredWorkspace
  <1>2. ASSUME NEW u \in Uploads
        PROVE  /\ upload'[u] \in UploadRow
               /\ upload'[u].state = upload[u].state /\ upload'[u].owner = upload[u].owner
               /\ upload'[u].holders = upload[u].holders
               /\ upload'[u].bytes = IF upload[u].owner = p THEN "none" ELSE upload[u].bytes
    <2>1. upload[u] \in UploadRow BY DEF Typed, TypeOK
    <2> QED BY <1>1, <2>1 DEF UploadRow
  <1>3. upload' \in [Uploads -> UploadRow] BY <1>1, <1>2
  <1>4. Typed' BY <1>1, <1>3 DEF Typed, TypeOK
  <1>5. UploadsOK' BY <1>1, <1>2 DEF UploadsOK, CompletedMatches
  <1>6. Closing BY <1>1 DEF Closing
  <1> QED BY <1>1, <1>2, <1>4, <1>5, <1>6, LinksFrame, AdmissionsFrame, KeysFrame, QuotaFrame

-----------------------------------------------------------------------------
LEMMA NextHolds == AInv /\ [PNext]_pvars => AInv'
  <1> SUFFICES ASSUME AInv, [PNext]_pvars PROVE AInv'
    OBVIOUS
  <1>1. ASSUME NEW p \in Principals,
               CreateGuest(p) \/ Age(p) \/ Expire(p) \/ ExpireFails(p) \/ ExpireSkips(p)
        PROVE  AInv'
    BY <1>1, CreateGuestStep, AgeStep, ExpireStep, ExpireFailsStep, SweepStep
  <1>2. ASSUME NEW r \in Requests, NEW p \in Principals, Authenticate(r, p) PROVE AInv'
    BY <1>2, AuthenticateStep
  <1>3. ASSUME NEW r \in Requests, NEW s \in Subjects, LinkFirst(r, s) \/ LinkSecond(r, s)
        PROVE  AInv'
    BY <1>3, LinkFirstStep, LinkSecondStep
  <1>4. ASSUME NEW r \in Requests, NEW i \in Checks,
               Save(r, i) \/ Unsave(r, i) \/ \E v \in VoiceIds : VoiceSave(r, v, i)
        PROVE  AInv'
    BY <1>4, SaveStep
  <1>5. ASSUME NEW r \in Requests, NEW u \in Uploads,
               CreateUpload(r, u) \/ PutStart(r, u) \/ PutEnd(r, u) \/ CompleteUpload(r, u)
        PROVE  AInv'
    BY <1>5, CreateUploadStep, PutStartStep, PutEndStep, CompleteUploadStep
  <1>6. ASSUME NEW r \in Requests, NEW k \in Keys, NEW b \in Bodies, CreateCheck(r, k, b)
        PROVE  AInv'
    BY <1>6, CreateCheckStep
  <1>7. ASSUME NEW r \in Requests, Leave(r) \/ CommitCheck(r) \/ AbortCheck(r) PROVE AInv'
    BY <1>7, LeaveStep, CommitCheckStep, AbortCheckStep
  <1>8. ASSUME NEW i \in Checks, Publish(i) \/ Resume(i) PROVE AInv'
    BY <1>8, PublishStep
  <1>9. ASSUME NEW u \in Uploads, Late(u) \/ ExpireUpload(u) PROVE AInv'
    BY <1>9, LateStep
  <1>10. CASE NewDay \/ Sweep BY <1>10, NewDayStep, SweepStep
  <1>11. CASE UNCHANGED pvars BY <1>11, UnchangedStep
  <1> QED BY <1>1, <1>2, <1>3, <1>4, <1>5, <1>6, <1>7, <1>8, <1>9, <1>10, <1>11 DEF PNext

(* Concurrent requests of an owner serialize: a completed upload has the   *)
(* bytes it declared, a key admits one investigation and its stored answer *)
(* names it, and with quotas on no owner has more investigations a day, or *)
(* more in progress since they were admitted, than allowed, although an    *)
(* admission reads the key and the usage long before it writes, the day    *)
(* may change in between and checks that had ended are resumed without a   *)
(* charge (put_content, complete_upload, _create, lock_owner, charge).     *)
THEOREM RequestsAlwaysSerialize == PSpec => []RequestsSerialize
  <1>1. ASSUME AInv PROVE RequestsSerialize
    <2> USE <1>1 DEF AInv
    <2>1. CompletedMatches BY DEF UploadsOK
    <2>2. ASSUME quotas, NEW p \in Principals
          PROVE  /\ Cardinality({i \in Checks : check[i].owner = p /\ check[i].day = day}) <= DailyChecks
                 /\ Cardinality({i \in Checks : check[i].owner = p /\ check[i].jobs = "first"}) <= ActiveChecks
      <3>1. Counted(check, usage[p], p, day) BY <2>2 DEF QuotaOK
      <3>2. Cardinality({i \in Checks : check[i].owner = p /\ check[i].jobs = "first"}) <= ActiveChecks
        BY <3>1 DEF Counted, InProgress
      <3>3. /\ usage[p].day \in Nat /\ day \in Nat /\ DailyChecks \in Nat /\ usage[p].checks \in Nat
            /\ \A i \in Checks : check[i].day \in Nat
        BY AccountsAssumption DEF Typed, TypeOK, UsageRow, CheckRow
      <3>4. CASE usage[p].day = day
        <4>1. Cardinality(OnDay(check, p, day)) \in Nat BY OwnFinite, FS_CardinalityType
        <4>2. Cardinality(OnDay(check, p, day)) <= DailyChecks BY <3>1, <3>3, <3>4, <4>1 DEF Counted
        <4> QED BY <3>2, <4>2 DEF OnDay
      <3>5. CASE usage[p].day # day
        <4>1. {i \in Checks : check[i].owner = p /\ check[i].day = day} = {}
          BY <3>1, <3>3, <3>5 DEF Counted
        <4>2. Cardinality({}) = 0 BY FS_EmptySet
        <4>3. 0 <= DailyChecks BY <3>3
        <4>4. Cardinality({i \in Checks : check[i].owner = p /\ check[i].day = day}) <= DailyChecks
          BY <4>1, <4>2, <4>3, Zenon
        <4> QED BY <3>2, <4>4
      <3> QED BY <3>4, <3>5
    <2>3. OnceAdmitted BY <2>2 DEF KeysOK, OnceAdmitted
    <2> QED BY <2>1, <2>3 DEF RequestsSerialize
  <1> QED BY <1>1, InitHolds, NextHolds, PTL DEF PSpec

-----------------------------------------------------------------------------
(* Saved reports *)

(* A step that takes nothing from saved_reports. *)
LEMMA NothingTaken ==
  ASSUME saved \subseteq saved'
  PROVE  \A s \in saved : Kept(s)
  BY DEF Kept

LEMMA LinkSecondKeeps ==
  ASSUME AInv, NEW r \in Requests, NEW g \in Subjects, LinkSecond(r, g)
  PROVE  \A s \in saved : Kept(s)
  <1>1. PICK p, a \in Principals :
          /\ principal[p].google_sub = None
          /\ principal'[p].merged_into = a
          /\ \A x \in saved : x[1] # p => x \in saved'
          /\ \A x \in saved : x[1] = p => <<a, x[2]>> \in saved'
    BY LinkSecondDoes DEF AInv
  <1>2. ASSUME NEW s \in saved, s[1] = p PROVE Kept(s)
    <2>1. principal[p].merged_into = None BY <1>1, <1>2 DEF AInv, LinksOK, Reachable
    <2>2. a # None BY AccountsAssumption
    <2> QED BY <1>1, <1>2, <2>1, <2>2 DEF Kept
  <1>3. ASSUME NEW s \in saved, s[1] # p PROVE Kept(s)
    BY <1>1, <1>3 DEF Kept
  <1> QED BY <1>2, <1>3

LEMMA UnsaveKeeps ==
  ASSUME AInv, NEW r \in Requests, NEW i \in Checks, Unsave(r, i)
  PROVE  \A s \in saved : Kept(s)
  <1> SUFFICES ASSUME NEW s \in saved, s \notin saved' PROVE Kept(s)
    BY DEF Kept
  <1>1. s = <<caller[r], i>> BY DEF Unsave
  <1>2. s[1] = caller[r] /\ s[2] = i BY <1>1
  <1> QED BY <1>2 DEF Kept

LEMMA ExpireKeeps ==
  ASSUME AInv, NEW p \in Principals, Expire(p)
  PROVE  \A s \in saved : Kept(s)
  <1>1. /\ saved' = {s \in saved : s[1] # p} /\ principal[p].kind = "guest"
        /\ principal' = [principal EXCEPT ![p] = [Absent EXCEPT !.kind = "erased"]]
    BY DEF Expire, Expirable, ExpiredWorkspace
  <1>2. principal'[p].kind = "erased" BY <1>1 DEF AInv, Typed, TypeOK, Absent
  <1> QED BY <1>1, <1>2 DEF Kept

(* A saved report is only lost by its owner removing it or by the expiry   *)
(* of a workspace that was never linked: every step of every other request *)
(* and of the sweep leaves it where it is or moves it to the account its   *)
(* device went on as, and what is saved is saved under a principal that    *)
(* can still be reached (transfer_saved_reports, lock_active_principal,    *)
(* _expired_workspace).                                                    *)
THEOREM SavesSurvive == PSpec => SavedSurvive
  <1>1. AInv /\ [PNext]_pvars =>
          [(\A s \in saved : Kept(s)) /\ (\A s \in saved' : Reachable(s[1])')]_pvars
    <2> SUFFICES ASSUME AInv, PNext
                 PROVE  (\A s \in saved : Kept(s)) /\ (\A s \in saved' : Reachable(s[1])')
      OBVIOUS
    <2>1. AInv' BY NextHolds
    <2>2. \A s \in saved' : Reachable(s[1])' BY <2>1 DEF AInv, LinksOK
    <2>3. CASE saved \subseteq saved' BY <2>2, <2>3, NothingTaken
    <2>4. CASE \E r \in Requests, g \in Subjects : LinkSecond(r, g) BY <2>2, <2>4, LinkSecondKeeps
    <2>5. CASE \E r \in Requests, i \in Checks : Unsave(r, i) BY <2>2, <2>5, UnsaveKeeps
    <2>6. CASE \E p \in Principals : Expire(p) BY <2>2, <2>6, ExpireKeeps
    <2>7. \/ saved \subseteq saved'
          \/ \E r \in Requests, g \in Subjects : LinkSecond(r, g)
          \/ \E r \in Requests, i \in Checks : Unsave(r, i)
          \/ \E p \in Principals : Expire(p)
      <3>1. ASSUME NEW r \in Requests, NEW i \in Checks,
                   Save(r, i) \/ \E v \in VoiceIds : VoiceSave(r, v, i)
            PROVE  saved \subseteq saved'
        BY <3>1 DEF Save, VoiceSave
      <3>2. ASSUME NEW p \in Principals,
                   CreateGuest(p) \/ Age(p) \/ ExpireFails(p) \/ ExpireSkips(p)
            PROVE  saved' = saved
        BY <3>2 DEF CreateGuest, Age, ExpireFails, ExpireSkips
      <3>3. ASSUME NEW r \in Requests,
                   \/ Leave(r) \/ CommitCheck(r) \/ AbortCheck(r)
                   \/ \E p \in Principals : Authenticate(r, p)
                   \/ \E g \in Subjects : LinkFirst(r, g)
                   \/ \E k \in Keys, b \in Bodies : CreateCheck(r, k, b)
                   \/ \E u \in Uploads :
                         CreateUpload(r, u) \/ PutStart(r, u) \/ PutEnd(r, u) \/ CompleteUpload(r, u)
            PROVE  saved' = saved
        BY <3>3 DEF Leave, CommitCheck, AbortCheck, Authenticate, LinkFirst, CreateCheck,
                    CreateUpload, PutStart, PutEnd, CompleteUpload
      <3>4. ASSUME \/ \E i \in Checks : Publish(i) \/ Resume(i)
                   \/ \E u \in Uploads : Late(u) \/ ExpireUpload(u)
                   \/ NewDay \/ Sweep
            PROVE  saved' = saved
        BY <3>4 DEF Publish, Resume, Late, ExpireUpload, NewDay, Sweep
      <3> QED BY <3>1, <3>2, <3>3, <3>4 DEF PNext
    <2> QED BY <2>2, <2>3, <2>4, <2>5, <2>6, <2>7
  <1> QED BY <1>1, InitHolds, NextHolds, PTL DEF PSpec, SavedSurvive
=============================================================================
