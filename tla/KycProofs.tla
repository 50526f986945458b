----------------------------- MODULE KycProofs ------------------------------
(***************************************************************************)
(* What Kyc promises, for any number of users, requests and workers.       *)
(***************************************************************************)
EXTENDS Kyc, TLAPS

Vetters == {"task", "staff"}

Vetted(u) ==
    \/ "staff" \in vettedBy[u]
    \/ "task" \in vettedBy[u] /\ u \in confirmed

Tables ==
    /\ confirmed \subseteq mailed /\ mailed \subseteq accounts
    /\ profile \in [Users -> Profile \cup {NoProfile}]
    /\ \A u \in Users : HasProfile(u) => u \in accounts
    /\ queue \in [Users -> Nat] /\ fails \in [Users -> 0 .. MaxFails]
    /\ now \in 1 .. MaxTime
    /\ depositors \subseteq accounts /\ bettors \subseteq accounts
    /\ vettedBy \in [Users -> SUBSET Vetters]
    /\ accounts \subseteq Users
    /\ DOMAIN pc = Workers /\ DOMAIN job = Workers /\ DOMAIN copy = Workers

\* What a worker holds at each of its places.  The rows that it relies on may
\* change, but never so that this stops to hold.
Holding(w) ==
    LET u == job[w].user
    IN  /\ pc[w] # "idle" => u \in Users
        /\ pc[w] \in {"user", "profile", "mail"} => job[w].dni \in Dnis
        /\ pc[w] \in {"profile", "mail"} => u \in accounts
        /\ pc[w] = "confirm" => u \in mailed
        /\ pc[w] = "queue" => u \in confirmed
        /\ pc[w] = "deposit" => u \in confirmed /\ vettedBy[u] # {}
        /\ pc[w] = "wait" =>
               job[w].op = "verificar_kyc_async" /\ u \in confirmed
        /\ pc[w] = "set" => copy[w].fails \in 0 .. MaxFails
        /\ pc[w] \in {"count", "block"} => job[w].op = "login_view"
        /\ pc[w] = "save" =>
               /\ copy[w] \in Profile
               /\ HasProfile(u) /\ copy[w].dni = profile[u].dni
               /\ copy[w].status = "VERIFIED" => Vetted(u)
               /\ copy[w].status = "BLOCKED" =>
                      job[w].op \in {"LimitesView", "login_view", "PerfilKYCAdmin"}
               /\ \/ job[w] \in Request /\ job[w].op \in SavesProfile
                  \/ job[w].op = "login_view"
                  \/ job[w].op = "verificar_kyc_async" /\ u \in confirmed

Holders == \A w \in Workers : Holding(w)

QueuedAreConfirmed == \A u \in Users : queue[u] > 0 => u \in confirmed

IInv ==
    /\ Tables /\ Holders /\ QueuedAreConfirmed
    /\ VerifiedAreVetted /\ DepositorsAreVetted /\ OneProfilePerDni

-----------------------------------------------------------------------------
(***************************************************************************)
(* What no step takes back.                                                *)
(***************************************************************************)
Grow ==
    /\ accounts \subseteq accounts' /\ confirmed \subseteq confirmed'
    /\ mailed \subseteq mailed'
    /\ \A u \in Users : vettedBy[u] \subseteq vettedBy'[u]
    /\ \A u \in Users : HasProfile(u) =>
           profile'[u].status # "NONE" /\ profile'[u].dni = profile[u].dni

OthersWait(w) ==
    \A v \in Workers \ {w} :
        pc'[v] = pc[v] /\ job'[v] = job[v] /\ copy'[v] = copy[v]

LEMMA HoldingStays ==
    ASSUME Grow, NEW w \in Workers, Holding(w), pc'[w] = pc[w],
           job'[w] = job[w], copy'[w] = copy[w]
    PROVE  Holding(w)'
  <1> DEFINE u == job[w].user
  <1>1. CASE pc[w] = "idle"
    BY <1>1 DEF Holding
  <1>2. CASE pc[w] # "idle"
    <2>1. u \in Users
      BY <1>2 DEF Holding
    <2>2. Vetted(u) => Vetted(u)'
      BY <2>1 DEF Grow, Vetted
    <2>3. vettedBy[u] # {} => vettedBy'[u] # {}
      BY <2>1 DEF Grow
    <2>4. HasProfile(u) => HasProfile(u)' /\ profile'[u].dni = profile[u].dni
      BY <2>1 DEF Grow, HasProfile
    <2>5. QED
      BY <2>1, <2>2, <2>3, <2>4 DEF Holding, Grow, HasProfile, Vetted
  <1>3. QED  BY <1>1, <1>2

LEMMA HoldersStay ==
    ASSUME Holders, Grow, NEW w \in Workers, OthersWait(w), Holding(w)'
    PROVE  Holders'
  BY HoldingStays DEF Holders, OthersWait

LEMMA HoldersUntouched ==
    ASSUME Holders, Grow, UNCHANGED local
    PROVE  Holders'
  BY HoldingStays DEF Holders, local

LEMMA Place ==
    ASSUME Tables, NEW w \in Workers, NEW p, pc' = [pc EXCEPT ![w] = p]
    PROVE  DOMAIN pc' = Workers /\ pc'[w] = p
           /\ \A v \in Workers \ {w} : pc'[v] = pc[v]
  BY DEF Tables

LEMMA DoneFacts ==
    ASSUME Tables, NEW w \in Workers, Done(w)
    PROVE  /\ DOMAIN pc' = Workers /\ DOMAIN job' = Workers
           /\ DOMAIN copy' = Workers /\ pc'[w] = "idle" /\ OthersWait(w)
           /\ Holding(w)'
  BY DEF Done, Tables, OthersWait, Holding

\* Steps that leave the profiles and the history alone.
LEMMA RowsKept ==
    ASSUME IInv, UNCHANGED <<profile, depositors, vettedBy>>, Grow
    PROVE  VerifiedAreVetted' /\ DepositorsAreVetted' /\ OneProfilePerDni'
  <1>1. VerifiedAreVetted'
    BY DEF IInv, Grow, VerifiedAreVetted
  <1>2. DepositorsAreVetted'
    BY DEF IInv, Grow, DepositorsAreVetted
  <1>3. OneProfilePerDni'
    BY DEF IInv, OneProfilePerDni, HasProfile
  <1>4. QED  BY <1>1, <1>2, <1>3

LEMMA StillGrows ==
    UNCHANGED <<accounts, confirmed, profile, mailed, vettedBy>> => Grow
  BY DEF Grow, HasProfile

-----------------------------------------------------------------------------
(***************************************************************************)
(* The row that a request makes of the one it loaded.                      *)
(***************************************************************************)
LEMMA ChangedCases ==
    ASSUME NEW r, NEW row
    PROVE  /\ r.op \in {"VerificarKYCView", "verificar_kyc_async"} =>
                  Changed(r, row) = [row EXCEPT !.status = "VERIFIED"]
           /\ r.op = "AutoexclusionView" =>
                  Changed(r, row) =
                      [row EXCEPT !.status = "SELF_EXCLUDED",
                                  !.until = IF r.days = 0 THEN 0 ELSE now + r.days]
           /\ r.op = "LimitesView" /\ Raises(r.limit, row) =>
                  Changed(r, row) = [row EXCEPT !.limit = r.limit, !.raisedAt = now]
           /\ r.op = "LimitesView" /\ ~Raises(r.limit, row) =>
                  Changed(r, row) =
                      [row EXCEPT !.limit = r.limit, !.raisedAt = row.raisedAt]
           /\ r.op = "login_view" =>
                  Changed(r, row) = [row EXCEPT !.status = "BLOCKED"]
           /\ r.op = "PerfilKYCAdmin" =>
                  Changed(r, row) = [row EXCEPT !.status = r.status, !.until = r.until,
                                                !.limit = r.limit]
  BY Zenon DEF Changed

LEMMA ChangedRow ==
    ASSUME NEW r, NEW row \in Profile, now \in 1 .. MaxTime,
           \/ r \in Request /\ r.op \in SavesProfile
           \/ r.op = "login_view" \/ r.op = "verificar_kyc_async"
    PROVE  /\ Changed(r, row) \in Profile /\ Changed(r, row).dni = row.dni
           /\ Changed(r, row).status = "VERIFIED" =>
                  \/ Verifiers(r) # {} /\ r.op # "LimitesView"
                  \/ r.op = "LimitesView" /\ row.status = "VERIFIED"
           /\ r.op = "LimitesView" => Changed(r, row).status = row.status
           /\ r.op = "login_view" => Changed(r, row).status = "BLOCKED"
  <1>1. CASE r.op \in {"VerificarKYCView", "verificar_kyc_async"}
    <2>1. Changed(r, row) = [row EXCEPT !.status = "VERIFIED"]
      BY <1>1, ChangedCases
    <2>2. Verifiers(r) # {}
      BY <1>1 DEF Verifiers
    <2>3. QED  BY <1>1, <2>1, <2>2 DEF Profile, Status
  <1>2. CASE r.op = "AutoexclusionView"
    <2>1. PICK end : end = IF r.days = 0 THEN 0 ELSE now + r.days
      OBVIOUS
    <2>2. end \in Nat
      <3>1. r \in Request /\ r.op = "AutoexclusionView"
        BY <1>2
      <3>2. r.days \in Days
        BY <3>1 DEF Request
      <3>3. r.days \in Nat
        BY <3>2, BoundAssumption
      <3>4. now \in Nat
        BY BoundAssumption
      <3>5. QED  BY <2>1, <3>3, <3>4
    <2>3. Changed(r, row) = [row EXCEPT !.status = "SELF_EXCLUDED", !.until = end]
      BY <1>2, <2>1, ChangedCases
    <2>4. QED  BY <1>2, <2>2, <2>3 DEF Profile, Status
  <1>3. CASE r.op = "LimitesView"
    <2>1. PICK at \in {now, row.raisedAt} :
              Changed(r, row) = [row EXCEPT !.limit = r.limit, !.raisedAt = at]
      BY <1>3, ChangedCases
    <2>2. at \in 0 .. MaxTime
      BY BoundAssumption DEF Profile
    <2>3. r.limit \in Limits
      BY <1>3 DEF Request
    <2>4. QED  BY <1>3, <2>1, <2>2, <2>3 DEF Profile, Status
  <1>4. CASE r.op = "login_view"
    <2>1. Changed(r, row) = [row EXCEPT !.status = "BLOCKED"]
      BY <1>4, ChangedCases
    <2>2. QED  BY <1>4, <2>1 DEF Profile, Status
  <1>5. CASE r.op = "PerfilKYCAdmin"
    <2>1. r.status \in Status /\ r.until \in Nat /\ r.limit \in Limits \cup {0}
      BY <1>5, BoundAssumption DEF Request
    <2>2. Changed(r, row) = [row EXCEPT !.status = r.status, !.until = r.until,
                                        !.limit = r.limit]
      BY <1>5, ChangedCases
    <2>3. r.status = "VERIFIED" => Verifiers(r) # {}
      BY <1>5 DEF Verifiers
    <2>4. QED  BY <1>5, <2>1, <2>2, <2>3 DEF Profile, Status
  <1>6. QED  BY <1>1, <1>2, <1>3, <1>4, <1>5 DEF SavesProfile

LEMMA ChangedLimit ==
    ASSUME NEW r, NEW row \in Profile
    PROVE  /\ r.op = "LimitesView" => Changed(r, row).limit = r.limit
           /\ r.op \in {"VerificarKYCView", "verificar_kyc_async",
                        "AutoexclusionView", "login_view"} =>
                  Changed(r, row).limit = row.limit
  <1>1. CASE r.op \in {"VerificarKYCView", "verificar_kyc_async"}
    <2>1. Changed(r, row) = [row EXCEPT !.status = "VERIFIED"]
      BY <1>1, ChangedCases
    <2>2. QED  BY <1>1, <2>1 DEF Profile
  <1>2. CASE r.op = "AutoexclusionView"
    <2>1. PICK end : end = IF r.days = 0 THEN 0 ELSE now + r.days
      OBVIOUS
    <2>2. Changed(r, row) = [row EXCEPT !.status = "SELF_EXCLUDED", !.until = end]
      BY <1>2, <2>1, ChangedCases
    <2>3. QED  BY <1>2, <2>2 DEF Profile
  <1>3. CASE r.op = "LimitesView"
    <2>1. PICK at \in {now, row.raisedAt} :
              Changed(r, row) = [row EXCEPT !.limit = r.limit, !.raisedAt = at]
      BY <1>3, ChangedCases
    <2>2. QED  BY <1>3, <2>1 DEF Profile
  <1>4. CASE r.op = "login_view"
    <2>1. Changed(r, row) = [row EXCEPT !.status = "BLOCKED"]
      BY <1>4, ChangedCases
    <2>2. QED  BY <1>4, <2>1 DEF Profile
  <1>5. QED  BY <1>1, <1>2, <1>3, <1>4

-----------------------------------------------------------------------------
(***************************************************************************)
(* Requests on a profile.                                                  *)
(***************************************************************************)
LEMMA RequestUser ==
    ASSUME NEW r \in Request
    PROVE  r.user \in Users
  BY DEF Request

LEMMA ProfileRow ==
    ASSUME Tables, NEW u \in Users, HasProfile(u)
    PROVE  profile[u] \in Profile
  BY DEF Tables, HasProfile, NoProfile

LEMMA LoadKeeps ==
    ASSUME IInv, NEW w \in Workers, Load(w)
    PROVE  IInv'
  <1>1. PICK r \in Offered :
            /\ r.op \in SavesProfile \cup {"deposit_simulated"}
            /\ HasProfile(r.user) /\ Accepted(r, profile[r.user])
            /\ job' = [job EXCEPT ![w] = r]
            /\ copy' = [copy EXCEPT ![w] = profile[r.user]]
            /\ pc' = [pc EXCEPT ![w] =
                         IF r.op \in SavesProfile THEN "save" ELSE "deposit"]
    BY DEF Load, Goto
  <1> DEFINE place == IF r.op \in SavesProfile THEN "save" ELSE "deposit"
  <1>2. /\ UNCHANGED <<rows, outside, history>> /\ Tables
        /\ r \in Request /\ r.user \in Users
    BY <1>1, OfferedAssumption, RequestUser DEF Load, IInv
  <1>3. /\ DOMAIN pc' = Workers /\ DOMAIN job' = Workers /\ DOMAIN copy' = Workers
        /\ pc'[w] = place /\ job'[w] = r /\ copy'[w] = profile[r.user]
        /\ OthersWait(w)
    BY <1>1, <1>2 DEF Tables, OthersWait
  <1>4. Grow /\ UNCHANGED <<profile, depositors, vettedBy>>
    BY <1>2, StillGrows DEF rows, outside, history
  <1>5. Tables'
    BY <1>2, <1>3 DEF Tables, rows, outside, history, HasProfile
  <1>6. profile[r.user] \in Profile
    BY <1>1, <1>2, ProfileRow
  <1>7. profile[r.user].status = "VERIFIED" => Vetted(r.user)
    BY <1>2 DEF IInv, VerifiedAreVetted, Vetted
  <1>8. Holding(w)'
    <2>1. CASE r.op \in SavesProfile
      <3>1. profile[r.user].status = "BLOCKED" =>
                r.op \in {"LimitesView", "login_view", "PerfilKYCAdmin"}
        BY <1>1, <2>1 DEF Accepted, SavesProfile
      <3>2. Vetted(r.user) => Vetted(r.user)'
        BY <1>2 DEF Vetted, rows, history
      <3>3. QED
        BY <1>1, <1>2, <1>3, <1>4, <1>6, <1>7, <2>1, <3>1, <3>2
           DEF Holding, HasProfile
    <2>2. CASE r.op = "deposit_simulated"
      <3>1. r.user \in confirmed /\ profile[r.user].status = "VERIFIED"
        BY <1>1, <2>2 DEF Accepted
      <3>2. vettedBy[r.user] # {}
        BY <1>7, <3>1 DEF Vetted
      <3>3. pc'[w] = "deposit"
        BY <1>3, <2>2 DEF SavesProfile
      <3>4. QED
        BY <1>2, <1>3, <3>1, <3>2, <3>3 DEF Holding, rows, history
    <2>3. QED  BY <1>1, <2>1, <2>2
  <1>9. Holders'
    BY <1>3, <1>4, <1>8, HoldersStay DEF IInv
  <1>10. QueuedAreConfirmed'
    BY <1>2 DEF IInv, QueuedAreConfirmed, rows, outside
  <1>11. QED  BY <1>4, <1>5, <1>9, <1>10, RowsKept DEF IInv

LEMMA SaveKeeps ==
    ASSUME IInv, NEW w \in Workers, Save(w)
    PROVE  IInv'
  <1>1. PICK r : r = job[w]
    OBVIOUS
  <1>2. PICK u : u = r.user
    OBVIOUS
  <1>3. PICK row : row = Changed(r, copy[w])
    OBVIOUS
  <1>4. /\ UNCHANGED <<accounts, confirmed, outside, depositors, bettors>>
        /\ Tables /\ u \in Users /\ copy[w] \in Profile /\ HasProfile(u)
        /\ copy[w].dni = profile[u].dni
        /\ copy[w].status = "VERIFIED" => Vetted(u)
        /\ \/ r \in Request /\ r.op \in SavesProfile
           \/ r.op = "login_view"
           \/ r.op = "verificar_kyc_async" /\ u \in confirmed
        /\ profile' = [profile EXCEPT ![u] = row]
        /\ vettedBy' = [vettedBy EXCEPT ![u] = @ \cup Verifiers(r)]
    BY <1>1, <1>2, <1>3 DEF Save, IInv, Holders, Holding
  <1>5. /\ row \in Profile /\ row.dni = profile[u].dni
        /\ row.status = "VERIFIED" =>
               \/ Verifiers(r) # {} /\ r.op # "LimitesView"
               \/ r.op = "LimitesView" /\ copy[w].status = "VERIFIED"
    <2>1. now \in 1 .. MaxTime
      BY <1>4 DEF Tables
    <2>2. QED  BY <1>3, <1>4, <2>1, ChangedRow
  <1>6. row.status # "NONE"
    BY <1>5 DEF Profile, Status
  <1>7. /\ profile' \in [Users -> Profile \cup {NoProfile}]
        /\ profile'[u] = row
        /\ \A v \in Users \ {u} : profile'[v] = profile[v]
    BY <1>4, <1>5 DEF Tables
  <1>8. /\ vettedBy' \in [Users -> SUBSET Vetters]
        /\ vettedBy'[u] = vettedBy[u] \cup Verifiers(r)
        /\ \A v \in Users \ {u} : vettedBy'[v] = vettedBy[v]
    BY <1>4 DEF Tables, Verifiers, Vetters
  <1>9. Grow
    BY <1>4, <1>5, <1>6, <1>7, <1>8 DEF Grow, outside, HasProfile
  <1>10. \A v \in Users : HasProfile(v)' => HasProfile(v)
    BY <1>4, <1>7 DEF HasProfile
  <1>11. /\ DOMAIN pc' = Workers /\ DOMAIN job' = Workers /\ DOMAIN copy' = Workers
         /\ OthersWait(w) /\ Holding(w)'
    <2>1. CASE r.op = "login_view"
      <3>1. Goto(w, "clear") /\ UNCHANGED <<job, copy>>
        BY <1>1, <2>1 DEF Save
      <3>2. /\ DOMAIN pc' = Workers /\ pc'[w] = "clear" /\ OthersWait(w)
            /\ DOMAIN job' = Workers /\ DOMAIN copy' = Workers
        BY <1>4, <3>1 DEF Goto, Tables, OthersWait
      <3>3. job'[w].user \in Users
        BY <1>1, <1>2, <1>4, <3>1
      <3>4. QED  BY <3>2, <3>3 DEF Holding
    <2>2. CASE r.op # "login_view"
      BY <1>1, <1>4, <2>2, DoneFacts DEF Save
    <2>3. QED  BY <2>1, <2>2
  <1>12. Tables'
    BY <1>4, <1>7, <1>8, <1>10, <1>11 DEF Tables, outside
  <1>13. Holders'
    BY <1>9, <1>11, HoldersStay DEF IInv
  <1>14. QueuedAreConfirmed'
    BY <1>4 DEF IInv, QueuedAreConfirmed, outside
  <1>15. row.status = "VERIFIED" =>
            "staff" \in vettedBy'[u] \/ ("task" \in vettedBy'[u] /\ u \in confirmed)
    <2>1. CASE Verifiers(r) # {} /\ r.op # "LimitesView"
      BY <1>4, <1>8, <2>1 DEF Verifiers, SavesProfile
    <2>2. CASE copy[w].status = "VERIFIED"
      BY <1>4, <1>8, <2>2 DEF Vetted
    <2>3. QED  BY <1>5, <2>1, <2>2
  <1>16. VerifiedAreVetted'
    BY <1>4, <1>7, <1>8, <1>15 DEF IInv, VerifiedAreVetted
  <1>17. DepositorsAreVetted'
    <2>1. depositors \subseteq Users
      BY <1>4 DEF Tables
    <2>2. QED  BY <1>4, <1>9, <2>1 DEF IInv, DepositorsAreVetted, Grow
  <1>18. OneProfilePerDni'
    <2>1. \A v \in Users : HasProfile(v)' => profile'[v].dni = profile[v].dni
      BY <1>5, <1>7
    <2>2. QED  BY <1>10, <2>1 DEF IInv, OneProfilePerDni
  <1>19. QED
    BY <1>12, <1>13, <1>14, <1>16, <1>17, <1>18 DEF IInv

LEMMA DepositKeeps ==
    ASSUME IInv, NEW w \in Workers, Deposit(w)
    PROVE  IInv'
  <1>1. PICK u : u = job[w].user
    OBVIOUS
  <1>2. /\ UNCHANGED <<rows, outside, bettors, vettedBy>> /\ Tables /\ Done(w)
        /\ u \in confirmed /\ u \in accounts /\ vettedBy[u] # {}
        /\ depositors' = depositors \cup {u}
    BY <1>1 DEF Deposit, IInv, Holders, Holding, Tables
  <1>3. /\ DOMAIN pc' = Workers /\ DOMAIN job' = Workers
        /\ DOMAIN copy' = Workers /\ OthersWait(w) /\ Holding(w)'
    BY <1>2, DoneFacts
  <1>4. UNCHANGED <<accounts, confirmed, profile, mailed, queue, fails, now,
                    bettors, vettedBy>>
    BY <1>2 DEF rows, outside
  <1>5. Grow
    BY <1>4, StillGrows
  <1>6. Tables'
    BY <1>2, <1>3, <1>4 DEF Tables, HasProfile
  <1>7. Holders'
    BY <1>3, <1>5, HoldersStay DEF IInv
  <1>8. VerifiedAreVetted' /\ OneProfilePerDni' /\ QueuedAreConfirmed'
    BY <1>4 DEF IInv, VerifiedAreVetted, OneProfilePerDni, QueuedAreConfirmed,
                HasProfile
  <1>9. DepositorsAreVetted'
    BY <1>2, <1>4 DEF IInv, DepositorsAreVetted
  <1>10. QED  BY <1>6, <1>7, <1>8, <1>9 DEF IInv

-----------------------------------------------------------------------------
(***************************************************************************)
(* Steps that write no existing profile.                                   *)
(***************************************************************************)
LEMMA PlainStep ==
    ASSUME IInv, NEW w \in Workers, UNCHANGED <<profile, history>>, Grow, Tables',
           OthersWait(w), Holding(w)', QueuedAreConfirmed'
    PROVE  IInv'
  <1>1. Holders'
    BY HoldersStay DEF IInv
  <1>2. QED  BY <1>1, RowsKept DEF IInv, history

LEMMA AwayFromWorkers ==
    ASSUME IInv, UNCHANGED <<profile, depositors, vettedBy, local>>, Grow, Tables',
           QueuedAreConfirmed'
    PROVE  IInv'
  <1>1. Holders'
    BY HoldersUntouched DEF IInv
  <1>2. QED  BY <1>1, RowsKept DEF IInv

\* A worker moves and leaves the tables alone, apart from the counters.
LEMMA MoveStep ==
    ASSUME IInv, NEW w \in Workers, UNCHANGED <<rows, mailed, queue, now, history>>,
           fails' \in [Users -> 0 .. MaxFails],
           DOMAIN pc' = Workers, DOMAIN job' = Workers, DOMAIN copy' = Workers,
           OthersWait(w), Holding(w)'
    PROVE  IInv'
  <1>1. Grow
    BY StillGrows DEF rows, history
  <1>2. Tables'
    BY DEF IInv, Tables, rows, history, HasProfile
  <1>3. QueuedAreConfirmed'
    BY DEF IInv, QueuedAreConfirmed, rows
  <1>4. QED  BY <1>1, <1>2, <1>3, PlainStep DEF rows

\* Requests that begin by remembering what they were asked.
LEMMA BeginKeeps ==
    ASSUME IInv, NEW w \in Workers, Validate(w) \/ OpenLink(w) \/ Mistype(w)
    PROVE  IInv'
  <1>1. /\ UNCHANGED <<rows, outside, history, copy>> /\ Tables
    BY DEF Validate, OpenLink, Mistype, IInv
  <1>2. PICK r \in Offered, p \in {"user", "confirm", "count"} :
            /\ job' = [job EXCEPT ![w] = r] /\ pc' = [pc EXCEPT ![w] = p]
            /\ p = "user" => r.op = "RegistroView"
            /\ p = "confirm" => r.user \in mailed
            /\ p = "count" => r.op = "login_view"
    <2>1. CASE Validate(w)
      BY <2>1 DEF Validate, Goto
    <2>2. CASE OpenLink(w)
      BY <2>2 DEF OpenLink, Goto
    <2>3. CASE Mistype(w)
      BY <2>3 DEF Mistype, Goto
    <2>4. QED  BY <2>1, <2>2, <2>3
  <1>3. /\ r.user \in Users /\ (r.op = "RegistroView" => r.dni \in Dnis)
    <2>1. r \in Request
      BY OfferedAssumption
    <2>2. r.op = "RegistroView" => r.dni \in Dnis
      BY <2>1 DEF Request
    <2>3. QED  BY <2>1, <2>2, RequestUser
  <1>4. /\ DOMAIN pc' = Workers /\ DOMAIN job' = Workers /\ DOMAIN copy' = Workers
        /\ pc'[w] = p /\ job'[w] = r /\ OthersWait(w)
    BY <1>1, <1>2 DEF Tables, OthersWait
  <1>5. UNCHANGED <<mailed, queue, fails, now>>
    BY <1>1 DEF outside
  <1>6. Holding(w)'
    BY <1>2, <1>3, <1>4, <1>5 DEF Holding
  <1>7. QED  BY <1>1, <1>4, <1>5, <1>6, MoveStep DEF Tables

LEMMA CreateUserKeeps ==
    ASSUME IInv, NEW w \in Workers, CreateUser(w)
    PROVE  IInv'
  <1>1. /\ UNCHANGED <<confirmed, profile, outside, history, job, copy>> /\ Tables
        /\ job[w].user \in Users /\ job[w].dni \in Dnis
        /\ accounts' = accounts \cup {job[w].user}
        /\ pc' = [pc EXCEPT ![w] = "profile"]
    BY DEF CreateUser, IInv, Holders, Holding, Goto
  <1>2. /\ DOMAIN pc' = Workers /\ pc'[w] = "profile" /\ OthersWait(w)
    BY <1>1 DEF Tables, OthersWait
  <1>3. Grow
    BY <1>1 DEF Grow, outside, history, HasProfile
  <1>4. Tables'
    BY <1>1, <1>2 DEF Tables, outside, history, HasProfile
  <1>5. Holding(w)'
    BY <1>1, <1>2 DEF Holding
  <1>6. QueuedAreConfirmed'
    BY <1>1 DEF IInv, QueuedAreConfirmed, outside
  <1>7. QED  BY <1>1, <1>2, <1>3, <1>4, <1>5, <1>6, PlainStep

LEMMA CreateProfileKeeps ==
    ASSUME IInv, NEW w \in Workers, CreateProfile(w)
    PROVE  IInv'
  <1>1. PICK u : u = job[w].user
    OBVIOUS
  <1>2. PICK row : row = NewProfile(job[w].dni)
    OBVIOUS
  <1>3. /\ UNCHANGED <<accounts, confirmed, outside, history, job, copy>> /\ Tables
        /\ u \in Users /\ job[w].dni \in Dnis /\ u \in accounts
        /\ ~HasProfile(u) /\ ~DniTaken(job[w].dni)
        /\ profile' = [profile EXCEPT ![u] = row]
        /\ pc' = [pc EXCEPT ![w] = "mail"]
    BY <1>1, <1>2 DEF CreateProfile, IInv, Holders, Holding, Goto
  <1>4. row \in Profile /\ row.dni = job[w].dni /\ row.status = "PENDING"
    BY <1>2, <1>3, BoundAssumption DEF NewProfile, Profile, Status
  <1>5. /\ DOMAIN pc' = Workers /\ pc'[w] = "mail" /\ OthersWait(w)
    BY <1>3 DEF Tables, OthersWait
  <1>6. /\ profile' \in [Users -> Profile \cup {NoProfile}] /\ profile'[u] = row
        /\ \A v \in Users \ {u} : profile'[v] = profile[v]
    BY <1>3, <1>4 DEF Tables
  <1>7. UNCHANGED <<mailed, queue, fails, now, depositors, bettors, vettedBy>>
    BY <1>3 DEF outside, history
  <1>8. Grow
    BY <1>3, <1>6, <1>7 DEF Grow, HasProfile
  <1>9. Tables'
    BY <1>3, <1>5, <1>6, <1>7 DEF Tables, HasProfile
  <1>10. Holding(w)'
    BY <1>1, <1>3, <1>5 DEF Holding
  <1>11. Holders'
    BY <1>5, <1>8, <1>10, HoldersStay DEF IInv
  <1>12. VerifiedAreVetted'
    BY <1>3, <1>4, <1>6, <1>7 DEF IInv, VerifiedAreVetted
  <1>13. DepositorsAreVetted' /\ QueuedAreConfirmed'
    BY <1>3, <1>7 DEF IInv, DepositorsAreVetted, QueuedAreConfirmed
  <1>14. OneProfilePerDni'
    BY <1>3, <1>4, <1>6 DEF IInv, OneProfilePerDni, DniTaken, HasProfile
  <1>15. QED
    BY <1>9, <1>11, <1>12, <1>13, <1>14 DEF IInv

LEMMA CollideKeeps ==
    ASSUME IInv, NEW w \in Workers, Collide(w)
    PROVE  IInv'
  <1>1. Done(w) /\ UNCHANGED <<rows, outside, history>> /\ Tables
    BY DEF Collide, IInv
  <1>2. QED  BY <1>1, DoneFacts, MoveStep DEF outside, Tables

LEMMA AbandonKeeps ==
    ASSUME IInv, NEW w \in Workers, Abandon(w)
    PROVE  IInv'
  <1>1. /\ Done(w) /\ Tables
        /\ UNCHANGED <<accounts, confirmed, profile, mailed, queue, fails, now,
                       depositors, bettors, vettedBy>>
    BY DEF Abandon, IInv, rows, outside
  <1>2. Grow
    BY <1>1, StillGrows
  <1>3. Tables' /\ QueuedAreConfirmed'
    BY <1>1, DoneFacts DEF Tables, HasProfile, IInv, QueuedAreConfirmed
  <1>4. Holders'
    BY <1>1, <1>2, DoneFacts, HoldersStay DEF IInv
  <1>5. QED  BY <1>1, <1>2, <1>3, <1>4, RowsKept DEF IInv

LEMMA MailKeeps ==
    ASSUME IInv, NEW w \in Workers, Mail(w)
    PROVE  IInv'
  <1>1. /\ Done(w) /\ UNCHANGED <<rows, queue, fails, now, history>> /\ Tables
        /\ job[w].user \in accounts /\ mailed' = mailed \cup {job[w].user}
    BY DEF Mail, IInv, Holders, Holding
  <1>2. Grow
    BY <1>1 DEF Grow, rows, history, HasProfile
  <1>3. Tables'
    BY <1>1, DoneFacts DEF Tables, rows, history, HasProfile
  <1>4. QueuedAreConfirmed'
    BY <1>1 DEF IInv, QueuedAreConfirmed, rows
  <1>5. QED  BY <1>1, <1>2, <1>3, <1>4, DoneFacts, PlainStep DEF rows

LEMMA ConfirmKeeps ==
    ASSUME IInv, NEW w \in Workers, Confirm(w)
    PROVE  IInv'
  <1>1. /\ UNCHANGED <<accounts, profile, outside, history, job, copy>> /\ Tables
        /\ job[w].user \in Users /\ job[w].user \in mailed
        /\ confirmed' = confirmed \cup {job[w].user}
        /\ pc' = [pc EXCEPT ![w] = "queue"]
    BY DEF Confirm, IInv, Holders, Holding, Goto
  <1>2. /\ DOMAIN pc' = Workers /\ pc'[w] = "queue" /\ OthersWait(w)
    BY <1>1 DEF Tables, OthersWait
  <1>3. Grow
    BY <1>1 DEF Grow, outside, history, HasProfile
  <1>4. Tables'
    BY <1>1, <1>2 DEF Tables, outside, history, HasProfile
  <1>5. Holding(w)'
    BY <1>1, <1>2 DEF Holding
  <1>6. QueuedAreConfirmed'
    BY <1>1 DEF IInv, QueuedAreConfirmed, outside
  <1>7. QED  BY <1>1, <1>2, <1>3, <1>4, <1>5, <1>6, PlainStep

LEMMA QueueKeeps ==
    ASSUME IInv, NEW w \in Workers, Queue(w)
    PROVE  IInv'
  <1>1. /\ Done(w) /\ UNCHANGED <<rows, mailed, fails, now, history>> /\ Tables
        /\ job[w].user \in Users /\ job[w].user \in confirmed
        /\ queue' = [queue EXCEPT ![job[w].user] = @ + 1]
    BY DEF Queue, IInv, Holders, Holding
  <1>2. Grow
    BY <1>1 DEF Grow, rows, history, HasProfile
  <1>3. Tables'
    BY <1>1, DoneFacts DEF Tables, rows, history, HasProfile
  <1>4. QueuedAreConfirmed'
    BY <1>1 DEF IInv, QueuedAreConfirmed, rows, Tables
  <1>5. QED  BY <1>1, <1>2, <1>3, <1>4, DoneFacts, PlainStep DEF rows

LEMMA TakeTaskKeeps ==
    ASSUME IInv, NEW w \in Workers, TakeTask(w)
    PROVE  IInv'
  <1>1. PICK u \in Users :
            /\ queue[u] > 0
            /\ queue' = [queue EXCEPT ![u] = @ - 1]
            /\ job' = [job EXCEPT ![w] = Task(u)]
    BY DEF TakeTask
  <1>2. /\ UNCHANGED <<rows, mailed, fails, now, history, copy>> /\ Tables
        /\ u \in confirmed /\ pc' = [pc EXCEPT ![w] = "wait"]
    BY <1>1 DEF TakeTask, Goto, IInv, QueuedAreConfirmed
  <1>3. Grow
    BY <1>2 DEF Grow, rows, history, HasProfile
  <1>4. /\ queue' \in [Users -> Nat]
        /\ \A v \in Users : queue'[v] > 0 => queue[v] > 0
    BY <1>1, <1>2 DEF Tables
  <1>5. QueuedAreConfirmed'
    BY <1>2, <1>4 DEF IInv, QueuedAreConfirmed, rows
  <1>6. /\ DOMAIN pc' = Workers /\ DOMAIN job' = Workers /\ DOMAIN copy' = Workers
        /\ pc'[w] = "wait" /\ job'[w] = Task(u) /\ OthersWait(w)
    BY <1>1, <1>2 DEF Tables, OthersWait
  <1>7. Tables'
    BY <1>2, <1>4, <1>6 DEF Tables, rows, history, HasProfile
  <1>8. Holding(w)'
    BY <1>2, <1>6 DEF Holding, Task, rows
  <1>9. QED  BY <1>2, <1>3, <1>5, <1>6, <1>7, <1>8, PlainStep DEF rows

LEMMA ReadPendingKeeps ==
    ASSUME IInv, NEW w \in Workers, ReadPending(w)
    PROVE  IInv'
  <1>1. PICK u : u = job[w].user
    OBVIOUS
  <1>2. /\ UNCHANGED <<rows, outside, history>> /\ Tables
        /\ u \in Users /\ u \in confirmed
        /\ job[w].op = "verificar_kyc_async"
    BY <1>1 DEF ReadPending, IInv, Holders, Holding
  <1>3. CASE Done(w)
    BY <1>2, <1>3, DoneFacts, MoveStep DEF outside, Tables
  <1>4. CASE ~Done(w)
    <2>1. /\ profile[u].status = "PENDING" /\ UNCHANGED job
          /\ copy' = [copy EXCEPT ![w] = profile[u]]
          /\ pc' = [pc EXCEPT ![w] = "save"]
      BY <1>1, <1>4 DEF ReadPending, Goto
    <2>2. /\ DOMAIN pc' = Workers /\ DOMAIN job' = Workers
          /\ DOMAIN copy' = Workers /\ OthersWait(w)
          /\ pc'[w] = "save" /\ copy'[w] = profile[u]
      BY <1>2, <2>1 DEF Tables, OthersWait
    <2>3. HasProfile(u) /\ profile[u] \in Profile
      BY <1>2, <2>1, ProfileRow DEF HasProfile
    <2>4. Holding(w)'
      BY <1>1, <1>2, <2>1, <2>2, <2>3 DEF Holding, rows, HasProfile
    <2>5. QED  BY <1>2, <2>2, <2>4, MoveStep DEF outside, Tables
  <1>5. QED  BY <1>3, <1>4

LEMMA CountKeeps ==
    ASSUME IInv, NEW w \in Workers, Count(w)
    PROVE  IInv'
  <1>1. PICK n : n = fails[job[w].user] + 1
    OBVIOUS
  <1>2. PICK p : p = IF n >= MaxFails THEN "block" ELSE "set"
    OBVIOUS
  <1>3. /\ UNCHANGED <<rows, outside, history, job>> /\ Tables
        /\ job[w].user \in Users /\ pc[w] = "count"
        /\ pc' = [pc EXCEPT ![w] = p]
        /\ copy' = [copy EXCEPT ![w] = [status |-> "NONE", fails |-> n]]
    BY <1>1, <1>2 DEF Count, IInv, Holders, Holding, Goto
  <1>4. /\ DOMAIN pc' = Workers /\ DOMAIN copy' = Workers
        /\ pc'[w] = p /\ copy'[w].fails = n /\ OthersWait(w)
    BY <1>3 DEF Tables, OthersWait
  <1>5. p = "set" => n \in 0 .. MaxFails
    BY <1>1, <1>2, <1>3, BoundAssumption DEF Tables
  <1>6. job[w].op = "login_view"
    BY <1>3 DEF IInv, Holders, Holding
  <1>7. Holding(w)'
    BY <1>2, <1>3, <1>4, <1>5, <1>6 DEF Holding
  <1>8. QED  BY <1>3, <1>4, <1>7, MoveStep DEF outside, Tables

LEMMA FailsKeeps ==
    ASSUME IInv, NEW w \in Workers, SetFails(w) \/ ClearFails(w)
    PROVE  IInv'
  <1>1. /\ Done(w) /\ UNCHANGED <<rows, mailed, queue, now, history>> /\ Tables
    BY DEF SetFails, ClearFails, IInv
  <1>2. PICK n \in 0 .. MaxFails : fails' = [fails EXCEPT ![job[w].user] = n]
    <2>1. CASE SetFails(w)
      BY <2>1 DEF SetFails, IInv, Holders, Holding
    <2>2. CASE ClearFails(w)
      <3>1. 0 \in 0 .. MaxFails
        BY BoundAssumption
      <3>2. QED  BY <2>2, <3>1 DEF ClearFails
    <2>3. QED  BY <2>1, <2>2
  <1>3. fails' \in [Users -> 0 .. MaxFails]
    BY <1>1, <1>2 DEF Tables
  <1>4. QED  BY <1>1, <1>3, DoneFacts, MoveStep

LEMMA LoadToBlockKeeps ==
    ASSUME IInv, NEW w \in Workers, LoadToBlock(w)
    PROVE  IInv'
  <1>1. PICK u : u = job[w].user
    OBVIOUS
  <1>2. PICK p : p = IF profile[u].status \in {"NONE", "BLOCKED"}
                     THEN "clear" ELSE "save"
    OBVIOUS
  <1>3. /\ UNCHANGED <<rows, outside, history, job>> /\ Tables
        /\ u \in Users /\ job[w].op = "login_view"
        /\ copy' = [copy EXCEPT ![w] = profile[u]]
        /\ pc' = [pc EXCEPT ![w] = p]
    BY <1>1, <1>2 DEF LoadToBlock, IInv, Holders, Holding, Goto
  <1>4. /\ DOMAIN pc' = Workers /\ DOMAIN copy' = Workers
        /\ pc'[w] = p /\ copy'[w] = profile[u] /\ OthersWait(w)
    BY <1>3 DEF Tables, OthersWait
  <1>5. p = "save" => HasProfile(u) /\ profile[u] \in Profile
    BY <1>2, <1>3, ProfileRow DEF HasProfile
  <1>6. profile[u].status = "VERIFIED" => Vetted(u)
    BY <1>3 DEF IInv, VerifiedAreVetted, Vetted
  <1>7. (HasProfile(u) => HasProfile(u)') /\ (Vetted(u) => Vetted(u)')
    BY <1>3 DEF HasProfile, Vetted, rows, history
  <1>8. Holding(w)'
    BY <1>1, <1>2, <1>3, <1>4, <1>5, <1>6, <1>7 DEF Holding, rows
  <1>9. QED  BY <1>3, <1>4, <1>8, MoveStep DEF outside, Tables

LEMMA AroundKeeps ==
    ASSUME IInv,
           \/ \E r \in Offered : PlaceBet(r)
           \/ \E u \in Users : ForgetFails(u)
           \/ Tick
    PROVE  IInv'
  <1>1. /\ UNCHANGED <<accounts, confirmed, profile, mailed, queue, depositors,
                       vettedBy, local>>
        /\ Tables
    BY DEF PlaceBet, ForgetFails, Tick, rows, outside, history, IInv
  <1>2. /\ fails' \in [Users -> 0 .. MaxFails] /\ now' \in 1 .. MaxTime
        /\ bettors' \subseteq accounts
    <2>1. CASE \E r \in Offered : PlaceBet(r)
      BY <1>1, <2>1 DEF PlaceBet, outside, Tables
    <2>2. CASE \E u \in Users : ForgetFails(u)
      <3>1. 0 \in 0 .. MaxFails
        BY BoundAssumption
      <3>2. UNCHANGED <<now, bettors>>
        BY <2>2 DEF ForgetFails, history
      <3>3. fails' \in [Users -> 0 .. MaxFails]
        BY <1>1, <2>2, <3>1 DEF ForgetFails, Tables
      <3>4. QED  BY <1>1, <3>2, <3>3 DEF Tables
    <2>3. CASE Tick
      BY <1>1, <2>3, BoundAssumption DEF Tick, history, Tables
    <2>4. QED  BY <2>1, <2>2, <2>3
  <1>3. Grow
    BY <1>1, StillGrows
  <1>4. Tables'
    BY <1>1, <1>2 DEF Tables, local, HasProfile
  <1>5. QueuedAreConfirmed'
    BY <1>1 DEF IInv, QueuedAreConfirmed
  <1>6. QED  BY <1>1, <1>3, <1>4, <1>5, AwayFromWorkers

-----------------------------------------------------------------------------
(***************************************************************************)
(* The invariant and what it shows.                                        *)
(***************************************************************************)
LEMMA InitHolds == Init => IInv
  <1> SUFFICES ASSUME Init  PROVE  IInv
    OBVIOUS
  <1>1. \A u \in Users : profile[u].status = "NONE"
    BY DEF Init, NoProfile
  <1>2. Tables
    BY <1>1, BoundAssumption DEF Init, Tables, HasProfile
  <1>3. Holders
    BY DEF Init, Holders, Holding
  <1>4. QED
    BY <1>1, <1>2, <1>3 DEF Init, IInv, QueuedAreConfirmed, VerifiedAreVetted,
       DepositorsAreVetted, OneProfilePerDni, HasProfile

LEMMA NextKeeps == IInv /\ [Next]_vars => IInv'
  <1> SUFFICES ASSUME IInv, [Next]_vars  PROVE  IInv'
    OBVIOUS
  <1>1. CASE UNCHANGED vars
    <2>1. UNCHANGED <<accounts, confirmed, profile, mailed, queue, fails, now,
                      depositors, bettors, vettedBy, local, pc, job, copy>>
      BY <1>1 DEF vars, rows, outside, history, local
    <2>2. Grow
      BY <2>1, StillGrows
    <2>3. Tables' /\ QueuedAreConfirmed'
      BY <2>1 DEF IInv, Tables, QueuedAreConfirmed, HasProfile
    <2>4. QED  BY <2>1, <2>2, <2>3, AwayFromWorkers
  <1>2. ASSUME NEW w \in Workers, WebStep(w) \/ TaskStep(w) \/ Abandon(w)
        PROVE  IInv'
    BY <1>2, LoadKeeps, SaveKeeps, DepositKeeps, BeginKeeps, CreateUserKeeps,
       CreateProfileKeeps, CollideKeeps, MailKeeps, ConfirmKeeps, QueueKeeps,
       TakeTaskKeeps, ReadPendingKeeps, AbandonKeeps, CountKeeps, FailsKeeps, LoadToBlockKeeps
       DEF WebStep, TaskStep
  <1>3. QED
    BY <1>1, <1>2, AroundKeeps DEF Next, Workers

LEMMA Inductive == Spec => []IInv
  BY InitHolds, NextKeeps, PTL DEF Spec

\* Nobody is VERIFIED unvetted, whatever copies the requests write back.
THEOREM VerifiedWereVetted == Spec => []VerifiedAreVetted
  <1>1. IInv => VerifiedAreVetted
    BY DEF IInv
  <1>2. QED  BY <1>1, Inductive, PTL

\* Money comes from confirmed users who were verified once.
THEOREM DepositorsWereVetted == Spec => []DepositorsAreVetted
  <1>1. IInv => DepositorsAreVetted
    BY DEF IInv
  <1>2. QED  BY <1>1, Inductive, PTL

\* A DNI has one profile.
THEOREM DniNamesOneProfile == Spec => []OneProfilePerDni
  <1>1. IInv => OneProfilePerDni
    BY DEF IInv
  <1>2. QED  BY <1>1, Inductive, PTL

-----------------------------------------------------------------------------
(***************************************************************************)
(* Where a confirmed user who is PENDING stands.                           *)
(***************************************************************************)
OnTheWay(u) == AboutToQueue(u) \/ queue[u] > 0 \/ InVerification(u)

PInv ==
    /\ lapsed \subseteq accounts
    /\ \A u \in mailed : HasProfile(u)
    /\ \A w \in Workers : pc[w] = "mail" => HasProfile(job[w].user)
    /\ \A w \in Workers :
           job[w].op = "verificar_kyc_async" => pc[w] \in {"wait", "save"}
    /\ PendingIsExplained

\* A step of w explains a user, if it does not lose the one w stands for.
LEMMA WayKept ==
    ASSUME NEW w \in Workers, OthersWait(w), NEW u,
           pc[w] = "queue" => job[w].user # u,
           job[w] # Task(u), OnTheWay(u),
           queue[u] \in Nat, queue'[u] \in Nat, queue'[u] >= queue[u]
    PROVE  OnTheWay(u)'
  <1>1. CASE AboutToQueue(u)
    BY <1>1 DEF AboutToQueue, OthersWait, OnTheWay
  <1>2. CASE InVerification(u)
    BY <1>2 DEF InVerification, OthersWait, OnTheWay
  <1>3. CASE queue[u] > 0
    BY <1>3 DEF OnTheWay
  <1>4. QED  BY <1>1, <1>2, <1>3 DEF OnTheWay

\* What a step has to show when only w moves and no user but one is affected.
LEMMA PStep ==
    ASSUME IInv, PInv, NEW w \in Workers, OthersWait(w), Grow, IInv',
           lapsed \subseteq lapsed', lapsed' \subseteq accounts',
           \A u \in mailed' \ mailed : HasProfile(u)',
           pc'[w] = "mail" => HasProfile(job[w].user)',
           job'[w].op = "verificar_kyc_async" => pc'[w] \in {"wait", "save"},
           \A u \in confirmed' :
               profile'[u].status = "PENDING" =>
                   \/ u \in confirmed /\ profile[u].status = "PENDING"
                      /\ (OnTheWay(u) => OnTheWay(u)' \/ u \in lapsed')
                   \/ OnTheWay(u)' \/ u \in lapsed'
    PROVE  PInv'
  <1>1. \A u \in mailed' : u \in Users
    BY DEF IInv, Tables
  <1>2. \A u \in mailed' : HasProfile(u)'
    BY <1>1 DEF PInv, Grow, HasProfile
  <1>3. ASSUME NEW v \in Workers, pc'[v] = "mail"
        PROVE  HasProfile(job[v].user)'
    <2>1. CASE v = w
      BY <1>3, <2>1
    <2>2. CASE v # w
      <3>1. pc[v] = "mail" /\ job'[v] = job[v] /\ job[v].user \in Users
        BY <1>3, <2>2 DEF OthersWait, IInv, Holders, Holding
      <3>2. QED  BY <3>1 DEF PInv, Grow, HasProfile
    <2>3. QED  BY <2>1, <2>2
  <1>4. ASSUME NEW v \in Workers, job'[v].op = "verificar_kyc_async"
        PROVE  pc'[v] \in {"wait", "save"}
    BY <1>4 DEF OthersWait, PInv
  <1>5. PendingIsExplained'
    BY DEF PInv, PendingIsExplained, OnTheWay
  <1>6. QED  BY <1>2, <1>3, <1>4, <1>5 DEF PInv

\* A request that has nothing to do with verifications.
LEMMA Aside ==
    ASSUME IInv, PInv, IInv', NEW w \in Workers, OthersWait(w), Grow,
           UNCHANGED <<confirmed, mailed, queue, lapsed>>,
           \A u \in Users : profile'[u] # profile[u] => u \notin confirmed,
           pc[w] # "queue", job[w].op # "verificar_kyc_async",
           pc'[w] = "mail" => HasProfile(job[w].user)',
           job'[w].op # "verificar_kyc_async"
    PROVE  PInv'
  <1>1. lapsed \subseteq lapsed' /\ lapsed' \subseteq accounts'
    BY DEF PInv, Grow
  <1>2. ASSUME NEW u \in confirmed', profile'[u].status = "PENDING"
        PROVE  /\ u \in confirmed /\ profile[u].status = "PENDING"
               /\ OnTheWay(u) => OnTheWay(u)' \/ u \in lapsed'
    <2>1. u \in confirmed /\ u \in Users /\ profile'[u] = profile[u]
      BY DEF IInv, Tables
    <2>2. job[w] # Task(u)
      BY DEF Task
    <2>3. queue'[u] >= queue[u]
      BY <2>1 DEF IInv, Tables
    <2>4. queue[u] \in Nat /\ queue'[u] \in Nat
      BY <2>1 DEF IInv, Tables
    <2>5. QED  BY <1>2, <2>1, <2>2, <2>3, <2>4, WayKept
  <1>3. QED  BY <1>1, <1>2, PStep

LEMMA CalmKeepsP ==
    ASSUME IInv, PInv, IInv', NEW w \in Workers,
           \/ Load(w) \/ Deposit(w) \/ Validate(w) \/ Collide(w) \/ OpenLink(w)
           \/ Mistype(w) \/ Count(w) \/ SetFails(w) \/ LoadToBlock(w)
           \/ ClearFails(w)
    PROVE  PInv'
  <1>1. /\ UNCHANGED <<accounts, confirmed, profile, mailed, queue, vettedBy,
                        lapsed>>
        /\ Tables
    BY DEF Load, Deposit, Validate, Collide, OpenLink, Mistype, Count, SetFails,
           LoadToBlock, ClearFails, rows, outside, history, IInv
  <1>2. OthersWait(w) /\ pc'[w] # "mail"
    BY <1>1 DEF Load, Deposit, Validate, Collide, OpenLink, Mistype, Count,
       SetFails, LoadToBlock, ClearFails, Goto, Done, Tables, OthersWait
  <1>3. pc[w] \notin {"queue", "wait", "save"}
    BY DEF Load, Deposit, Validate, Collide, OpenLink, Mistype, Count, SetFails,
       LoadToBlock, ClearFails
  <1>4. job[w].op # "verificar_kyc_async"
    BY <1>3 DEF PInv
  <1>5. job'[w] \in Offered \cup {job[w], NoJob}
    BY <1>1 DEF Load, Deposit, Validate, Collide, OpenLink, Mistype, Count,
       SetFails, LoadToBlock, ClearFails, Done, Tables
  <1>6. job'[w].op # "verificar_kyc_async"
    <2>1. \A r \in Request : r.op # "verificar_kyc_async"
      BY DEF Request
    <2>2. QED  BY <1>4, <1>5, <2>1, OfferedAssumption DEF NoJob
  <1>7. Grow
    BY <1>1, StillGrows
  <1>8. QED  BY <1>1, <1>2, <1>3, <1>4, <1>6, <1>7, Aside

LEMMA CreateUserKeepsP ==
    ASSUME IInv, PInv, IInv', NEW w \in Workers, CreateUser(w)
    PROVE  PInv'
  <1>1. /\ UNCHANGED <<confirmed, profile, mailed, queue, vettedBy, lapsed, job,
                        copy>>
        /\ pc[w] = "user" /\ pc' = [pc EXCEPT ![w] = "profile"] /\ Tables
    BY DEF CreateUser, Goto, outside, history, IInv
  <1>2. OthersWait(w) /\ pc'[w] = "profile"
    BY <1>1 DEF OthersWait, Tables
  <1>3. Grow
    BY <1>1 DEF CreateUser, Grow, HasProfile
  <1>4. job[w].op # "verificar_kyc_async"
    BY <1>1 DEF PInv
  <1>5. QED  BY <1>1, <1>2, <1>3, <1>4, Aside

LEMMA CreateProfileKeepsP ==
    ASSUME IInv, PInv, IInv', NEW w \in Workers, CreateProfile(w)
    PROVE  PInv'
  <1>1. PICK u : u = job[w].user
    OBVIOUS
  <1>2. /\ UNCHANGED <<accounts, confirmed, mailed, queue, vettedBy, lapsed, job,
                        copy>>
        /\ pc[w] = "profile" /\ pc' = [pc EXCEPT ![w] = "mail"] /\ Tables
        /\ u \in Users /\ ~HasProfile(u)
        /\ profile' = [profile EXCEPT ![u] = NewProfile(job[w].dni)]
    BY <1>1 DEF CreateProfile, Goto, outside, history, IInv, Holders, Holding
  <1>3. OthersWait(w) /\ pc'[w] = "mail"
    BY <1>2 DEF OthersWait, Tables
  <1>4. /\ profile'[u].status # "NONE"
        /\ \A v \in Users \ {u} : profile'[v] = profile[v]
    BY <1>2 DEF Tables, NewProfile
  <1>5. Grow
    BY <1>2, <1>4 DEF Grow, HasProfile
  <1>6. u \notin confirmed
    BY <1>2 DEF PInv, Tables
  <1>7. job[w].op # "verificar_kyc_async"
    BY <1>2 DEF PInv
  <1>8. HasProfile(job[w].user)'
    BY <1>1, <1>2, <1>4 DEF HasProfile
  <1>9. QED  BY <1>2, <1>3, <1>4, <1>5, <1>6, <1>7, <1>8, Aside

LEMMA MailKeepsP ==
    ASSUME IInv, PInv, IInv', NEW w \in Workers, Mail(w)
    PROVE  PInv'
  <1>1. /\ Done(w) /\ Tables /\ pc[w] = "mail"
        /\ UNCHANGED <<accounts, confirmed, profile, queue, vettedBy, lapsed>>
        /\ mailed' = mailed \cup {job[w].user}
    BY DEF Mail, rows, history, IInv
  <1>2. OthersWait(w) /\ pc'[w] = "idle" /\ job'[w] = NoJob
    BY <1>1, DoneFacts DEF Done, Tables
  <1>3. Grow
    BY <1>1 DEF Grow, HasProfile
  <1>4. HasProfile(job[w].user)
    BY <1>1 DEF PInv
  <1>5. \A u \in mailed' \ mailed : HasProfile(u)'
    BY <1>1, <1>4 DEF HasProfile
  <1>6. job[w].op # "verificar_kyc_async"
    BY <1>1 DEF PInv
  <1>7. ASSUME NEW u \in confirmed, OnTheWay(u)  PROVE  OnTheWay(u)'
    <2>1. queue[u] \in Nat /\ queue'[u] \in Nat /\ queue'[u] >= queue[u]
      BY <1>1 DEF Tables
    <2>2. job[w] # Task(u) /\ pc[w] # "queue"
      BY <1>1, <1>6 DEF Task
    <2>3. QED  BY <1>2, <1>7, <2>1, <2>2, WayKept
  <1>8. lapsed \subseteq lapsed' /\ lapsed' \subseteq accounts'
    BY <1>1 DEF PInv
  <1>9. QED  BY <1>1, <1>2, <1>3, <1>5, <1>7, <1>8, PStep DEF NoJob

LEMMA ConfirmKeepsP ==
    ASSUME IInv, PInv, IInv', NEW w \in Workers, Confirm(w)
    PROVE  PInv'
  <1>1. /\ Tables /\ pc[w] = "confirm" /\ pc' = [pc EXCEPT ![w] = "queue"]
        /\ UNCHANGED <<accounts, profile, mailed, queue, vettedBy, lapsed, job,
                        copy>>
        /\ confirmed' = confirmed \cup {job[w].user}
    BY DEF Confirm, Goto, outside, history, IInv
  <1>2. OthersWait(w) /\ pc'[w] = "queue"
    BY <1>1 DEF OthersWait, Tables
  <1>3. Grow
    BY <1>1 DEF Grow, HasProfile
  <1>4. job[w].op # "verificar_kyc_async"
    BY <1>1 DEF PInv
  <1>5. ASSUME NEW u \in confirmed, OnTheWay(u)  PROVE  OnTheWay(u)'
    <2>1. queue[u] \in Nat /\ queue'[u] \in Nat /\ queue'[u] >= queue[u]
      BY <1>1 DEF Tables
    <2>2. job[w] # Task(u) /\ pc[w] # "queue"
      BY <1>1, <1>4 DEF Task
    <2>3. QED  BY <1>2, <1>5, <2>1, <2>2, WayKept
  <1>6. \A u \in confirmed' \ confirmed : OnTheWay(u)'
    BY <1>1, <1>2 DEF OnTheWay, AboutToQueue
  <1>7. lapsed \subseteq lapsed' /\ lapsed' \subseteq accounts'
    BY <1>1 DEF PInv
  <1>8. QED  BY <1>1, <1>2, <1>3, <1>4, <1>5, <1>6, <1>7, PStep

LEMMA QueueKeepsP ==
    ASSUME IInv, PInv, IInv', NEW w \in Workers, Queue(w)
    PROVE  PInv'
  <1>1. /\ Done(w) /\ Tables /\ pc[w] = "queue" /\ job[w].user \in Users
        /\ UNCHANGED <<accounts, confirmed, profile, mailed, vettedBy, lapsed>>
        /\ queue' = [queue EXCEPT ![job[w].user] = @ + 1]
    BY DEF Queue, rows, history, IInv, Holders, Holding
  <1>2. OthersWait(w) /\ pc'[w] = "idle" /\ job'[w] = NoJob
    BY <1>1, DoneFacts DEF Done, Tables
  <1>3. Grow
    BY <1>1, StillGrows
  <1>4. job[w].op # "verificar_kyc_async"
    BY <1>1 DEF PInv
  <1>5. ASSUME NEW u \in confirmed, OnTheWay(u)  PROVE  OnTheWay(u)'
    <2>1. u \in Users /\ queue[u] \in Nat
      BY <1>1 DEF Tables
    <2>2. CASE u = job[w].user
      BY <1>1, <2>1, <2>2 DEF OnTheWay, Tables
    <2>3. CASE u # job[w].user
      <3>1. queue'[u] \in Nat /\ queue'[u] >= queue[u]
        BY <1>1, <2>1, <2>3 DEF Tables
      <3>2. job[w] # Task(u)
        BY <1>4 DEF Task
      <3>3. QED  BY <1>2, <1>5, <2>1, <2>3, <3>1, <3>2, WayKept
    <2>4. QED  BY <2>2, <2>3
  <1>6. lapsed \subseteq lapsed' /\ lapsed' \subseteq accounts'
    BY <1>1 DEF PInv
  <1>7. QED  BY <1>1, <1>2, <1>3, <1>5, <1>6, PStep DEF NoJob

LEMMA TakeTaskKeepsP ==
    ASSUME IInv, PInv, IInv', NEW w \in Workers, TakeTask(w)
    PROVE  PInv'
  <1>1. PICK u \in Users :
            /\ queue' = [queue EXCEPT ![u] = @ - 1]
            /\ job' = [job EXCEPT ![w] = Task(u)]
    BY DEF TakeTask
  <1>2. /\ UNCHANGED <<accounts, confirmed, profile, mailed, vettedBy, lapsed, copy>>
        /\ Tables /\ pc[w] = "idle" /\ pc' = [pc EXCEPT ![w] = "wait"]
    BY DEF TakeTask, Goto, rows, history, IInv
  <1>3. OthersWait(w) /\ pc'[w] = "wait" /\ job'[w] = Task(u)
    BY <1>1, <1>2 DEF OthersWait, Tables
  <1>4. Grow
    BY <1>2, StillGrows
  <1>5. job[w].op # "verificar_kyc_async"
    BY <1>2 DEF PInv
  <1>6. ASSUME NEW v \in confirmed, OnTheWay(v)  PROVE  OnTheWay(v)'
    <2>1. CASE v = u
      BY <1>3, <2>1 DEF OnTheWay, InVerification
    <2>2. CASE v # u
      <3>1. queue[v] \in Nat /\ queue'[v] \in Nat /\ queue'[v] >= queue[v]
        BY <1>1, <1>2, <2>2 DEF Tables
      <3>2. job[w] # Task(v)
        BY <1>5 DEF Task
      <3>3. QED  BY <1>2, <1>3, <1>6, <3>1, <3>2, WayKept
    <2>3. QED  BY <2>1, <2>2
  <1>7. lapsed \subseteq lapsed' /\ lapsed' \subseteq accounts'
    BY <1>2 DEF PInv
  <1>8. QED  BY <1>2, <1>3, <1>4, <1>6, <1>7, PStep

LEMMA ReadPendingKeepsP ==
    ASSUME IInv, PInv, IInv', NEW w \in Workers, ReadPending(w)
    PROVE  PInv'
  <1>1. /\ UNCHANGED <<accounts, confirmed, profile, mailed, queue, vettedBy,
                        lapsed>>
        /\ Tables /\ pc[w] = "wait"
    BY DEF ReadPending, rows, outside, history, IInv
  <1>2. Grow
    BY <1>1, StillGrows
  <1>3. lapsed \subseteq lapsed' /\ lapsed' \subseteq accounts'
    BY <1>1 DEF PInv
  <1>4. CASE profile[job[w].user].status = "PENDING"
    <2>1. OthersWait(w) /\ pc'[w] = "save" /\ job' = job
      BY <1>1, <1>4 DEF ReadPending, Goto, OthersWait, Tables
    <2>2. \A u \in confirmed : OnTheWay(u) => OnTheWay(u)'
      <3>1. \A v \in Workers : pc[v] = "queue" => pc'[v] = "queue"
        BY <1>1, <2>1 DEF OthersWait
      <3>2. QED  BY <1>1, <2>1, <3>1 DEF OnTheWay, AboutToQueue, InVerification
    <2>3. QED  BY <1>1, <1>2, <1>3, <2>1, <2>2, PStep
  <1>5. CASE profile[job[w].user].status # "PENDING"
    <2>1. Done(w)
      BY <1>5 DEF ReadPending
    <2>2. OthersWait(w) /\ pc'[w] = "idle" /\ job'[w] = NoJob
      BY <1>1, <2>1, DoneFacts DEF Done, Tables
    <2>3. ASSUME NEW u \in confirmed, profile[u].status = "PENDING", OnTheWay(u)
          PROVE  OnTheWay(u)'
      <3>1. job[w] # Task(u) /\ pc[w] # "queue"
        BY <1>1, <1>5, <2>3 DEF Task
      <3>2. queue[u] \in Nat /\ queue'[u] \in Nat /\ queue'[u] >= queue[u]
        BY <1>1 DEF Tables
      <3>3. QED  BY <2>2, <2>3, <3>1, <3>2, WayKept
    <2>4. QED  BY <1>1, <1>2, <1>3, <2>2, <2>3, PStep DEF NoJob
  <1>6. QED  BY <1>4, <1>5

LEMMA AbandonKeepsP ==
    ASSUME IInv, PInv, IInv', NEW w \in Workers, Abandon(w)
    PROVE  PInv'
  <1>1. /\ Done(w) /\ Tables /\ pc[w] # "idle"
        /\ UNCHANGED <<accounts, confirmed, profile, mailed, queue, vettedBy>>
        /\ lapsed' = lapsed \cup
               {u \in {job[w].user} : pc[w] = "queue" \/ job[w] = Task(u)}
    BY DEF Abandon, rows, outside, IInv
  <1>2. OthersWait(w) /\ pc'[w] = "idle" /\ job'[w] = NoJob
    BY <1>1, DoneFacts DEF Done, Tables
  <1>3. Grow
    BY <1>1, StillGrows
  <1>4. ASSUME NEW u \in confirmed, OnTheWay(u), u \notin lapsed'
        PROVE  OnTheWay(u)'
    <2>1. job[w] # Task(u)
      BY <1>1, <1>4 DEF Task
    <2>2. pc[w] = "queue" => job[w].user # u
      BY <1>1, <1>4
    <2>3. queue[u] \in Nat /\ queue'[u] \in Nat /\ queue'[u] >= queue[u]
      BY <1>1 DEF Tables
    <2>4. QED  BY <1>2, <1>4, <2>1, <2>2, <2>3, WayKept
  <1>5. lapsed' \subseteq accounts'
    <2>1. ASSUME NEW u \in lapsed', u \notin lapsed  PROVE  u \in accounts
      <3>1. u = job[w].user /\ (pc[w] = "queue" \/ job[w] = Task(u))
        BY <1>1, <2>1
      <3>2. CASE pc[w] = "queue"
        BY <1>1, <3>1, <3>2 DEF IInv, Holders, Holding, Tables
      <3>3. CASE job[w] = Task(u)
        <4>1. pc[w] \in {"wait", "save"}
          BY <3>3 DEF Task, PInv
        <4>2. u \in confirmed \/ (HasProfile(u) /\ u \in Users)
          BY <3>1, <4>1 DEF IInv, Holders, Holding
        <4>3. QED  BY <1>1, <4>2 DEF Tables
      <3>4. QED  BY <3>1, <3>2, <3>3
    <2>2. QED  BY <1>1, <2>1 DEF PInv
  <1>6. QED  BY <1>1, <1>2, <1>3, <1>4, <1>5, PStep DEF NoJob

LEMMA SaveKeepsP ==
    ASSUME IInv, PInv, IInv', NEW w \in Workers, Save(w)
    PROVE  PInv'
  <1>1. PICK r : r = job[w]
    OBVIOUS
  <1>2. PICK u : u = r.user
    OBVIOUS
  <1>3. PICK row : row = Changed(r, copy[w])
    OBVIOUS
  <1>4. /\ UNCHANGED <<accounts, confirmed, mailed, queue, fails, now>>
        /\ Tables /\ u \in Users /\ copy[w] \in Profile /\ HasProfile(u)
        /\ pc[w] = "save" /\ now \in 1 .. MaxTime
        /\ copy[w].dni = profile[u].dni
        /\ \/ r \in Request /\ r.op \in SavesProfile
           \/ r.op = "login_view" \/ r.op = "verificar_kyc_async"
        /\ profile' = [profile EXCEPT ![u] = row]
        /\ vettedBy' = [vettedBy EXCEPT ![u] = @ \cup Verifiers(r)]
        /\ lapsed' = lapsed \cup {v \in {u} : Unverifies(r, copy[w])}
    BY <1>1, <1>2, <1>3 DEF Save, IInv, Holders, Holding, Tables, outside
  <1>5. row \in Profile /\ row.dni = profile[u].dni /\ row.status # "NONE"
    BY <1>3, <1>4, ChangedRow DEF Profile, Status
  <1>6. profile'[u] = row /\ \A v \in Users \ {u} : profile'[v] = profile[v]
    BY <1>4 DEF Tables
  <1>7. \A v \in Users : vettedBy[v] \subseteq vettedBy'[v]
    BY <1>4 DEF Tables
  <1>8. Grow
    BY <1>4, <1>5, <1>6, <1>7 DEF Grow, HasProfile
  <1>9. /\ OthersWait(w) /\ pc'[w] \in {"idle", "clear"}
        /\ job'[w].op # "verificar_kyc_async"
    <2>1. CASE r.op = "login_view"
      BY <1>1, <1>4, <2>1 DEF Save, Goto, OthersWait, Tables
    <2>2. CASE r.op # "login_view"
      <3>1. Done(w)
        BY <1>1, <2>2 DEF Save
      <3>2. job'[w] = NoJob
        BY <1>4, <3>1 DEF Done, Tables
      <3>3. QED  BY <1>4, <3>1, <3>2, DoneFacts DEF NoJob
    <2>3. QED  BY <2>1, <2>2
  <1>10. lapsed \subseteq lapsed' /\ lapsed' \subseteq accounts'
    BY <1>4 DEF PInv, Tables
  <1>11. ASSUME NEW v \in confirmed, profile'[v].status = "PENDING"
         PROVE  \/ profile[v].status = "PENDING"
                   /\ (OnTheWay(v) => OnTheWay(v)')
                \/ v \in lapsed'
    <2>1. v \in Users /\ queue[v] \in Nat /\ queue'[v] \in Nat
          /\ queue'[v] >= queue[v]
      BY <1>4 DEF Tables
    <2>2. CASE job[w] # Task(v)
      <3>1. OnTheWay(v) => OnTheWay(v)'
        BY <1>4, <1>9, <2>1, <2>2, WayKept
      <3>2. CASE v = u
        <4>1. row.status = "PENDING"
          BY <1>6, <1>11, <3>2
        <4>2. v \in lapsed' \/ profile[v].status = "PENDING"
          BY <1>2, <1>3, <1>4, <3>2, <4>1 DEF Unverifies
        <4>3. QED  BY <3>1, <4>2
      <3>3. CASE v # u
        BY <1>6, <1>11, <2>1, <3>1, <3>3
      <3>4. QED  BY <3>2, <3>3
    <2>3. CASE job[w] = Task(v)
      <3>1. r.op = "verificar_kyc_async" /\ v = u
        BY <1>1, <1>2, <2>3 DEF Task
      <3>2. row.status = "VERIFIED"
        <4>1. row = [copy[w] EXCEPT !.status = "VERIFIED"]
          BY <1>3, <3>1, ChangedCases
        <4>2. QED  BY <1>4, <4>1 DEF Profile
      <3>3. QED  BY <1>6, <1>11, <3>1, <3>2
    <2>4. QED  BY <2>2, <2>3
  <1>12. QED  BY <1>4, <1>8, <1>9, <1>10, <1>11, PStep

LEMMA AroundKeepsP ==
    ASSUME IInv, PInv, IInv',
           UNCHANGED <<accounts, confirmed, profile, mailed, queue, lapsed, local>>
    PROVE  PInv'
  <1>1. UNCHANGED <<pc, job>>
    BY DEF local
  <1>2. PendingIsExplained'
    BY <1>1 DEF PInv, PendingIsExplained, AboutToQueue, InVerification
  <1>3. QED  BY <1>1, <1>2 DEF PInv, HasProfile

LEMMA InitHoldsP == Init => PInv
  <1> SUFFICES ASSUME Init  PROVE  PInv
    OBVIOUS
  <1>1. \A w \in Workers : pc[w] = "idle" /\ job[w].op = "none"
    BY DEF Init, NoJob
  <1>2. QED
    BY <1>1 DEF Init, PInv, PendingIsExplained

LEMMA NextKeepsP == IInv /\ PInv /\ [Next]_vars => PInv'
  <1> SUFFICES ASSUME IInv, PInv, [Next]_vars  PROVE  PInv'
    OBVIOUS
  <1>1. IInv'
    BY NextKeeps
  <1>2. CASE UNCHANGED vars
    BY <1>1, <1>2, AroundKeepsP DEF vars, rows, outside, history
  <1>3. ASSUME NEW w \in Workers, WebStep(w) \/ TaskStep(w) \/ Abandon(w)
        PROVE  PInv'
    BY <1>1, <1>3, CalmKeepsP, SaveKeepsP, CreateUserKeepsP, CreateProfileKeepsP,
       MailKeepsP, ConfirmKeepsP, QueueKeepsP, TakeTaskKeepsP, ReadPendingKeepsP,
       AbandonKeepsP DEF WebStep, TaskStep
  <1>4. CASE \/ \E r \in Offered : PlaceBet(r)
             \/ \E u \in Users : ForgetFails(u)
             \/ Tick
    <2>1. UNCHANGED <<accounts, confirmed, profile, mailed, queue, lapsed, local>>
      BY <1>4 DEF PlaceBet, ForgetFails, Tick, rows, outside, history
    <2>2. QED  BY <1>1, <2>1, AroundKeepsP
  <1>5. QED  BY <1>2, <1>3, <1>4 DEF Next, Workers

LEMMA InductiveP == Spec => []PInv
  <1>1. IInv /\ PInv /\ [Next]_vars => PInv'
    BY NextKeepsP
  <1>2. QED  BY <1>1, InitHoldsP, Inductive, PTL DEF Spec

\* Accounts, profiles, counters and copies stay inside their types.
THEOREM TypeCorrect == Spec => []TypeOK
  <1>1. IInv /\ PInv => TypeOK
    BY DEF IInv, PInv, Tables, Holders, Holding, TypeOK
  <1>2. QED  BY <1>1, Inductive, InductiveP, PTL

\* Whoever is confirmed and PENDING has his verification before him, unless it
\* was lost with a process, or taken back by a save.
THEOREM PendingStaysExplained == Spec => []PendingIsExplained
  <1>1. PInv => PendingIsExplained
    BY DEF PInv
  <1>2. QED  BY <1>1, InductiveP, PTL

-----------------------------------------------------------------------------
(***************************************************************************)
(* What only a save does to a profile.                                     *)
(***************************************************************************)
LEMMA WritersOfProfiles ==
    ASSUME IInv, [Next]_vars, NEW u \in Users, HasProfile(u),
           profile'[u] # profile[u]
    PROVE  \E w \in Workers : Save(w) /\ job[w].user = u
  <1>1. ASSUME NEW w \in Workers, CreateProfile(w)  PROVE  FALSE
    <2>1. ~HasProfile(job[w].user)
      BY <1>1 DEF CreateProfile
    <2>2. profile'[u] = profile[u]
      BY <1>1, <2>1 DEF CreateProfile
    <2>3. QED  BY <2>2
  <1>2. ASSUME NEW w \in Workers, Save(w)  PROVE  job[w].user = u
    BY <1>2 DEF Save
  <1>3. ASSUME NEW w \in Workers, WebStep(w) \/ TaskStep(w) \/ Abandon(w)
        PROVE  Save(w) \/ CreateProfile(w)
    <2>1. profile' # profile
      OBVIOUS
    <2> USE <2>1 DEF rows
    <2>2. ~Load(w) /\ ~Deposit(w) /\ ~Validate(w) /\ ~CreateUser(w)
      BY DEF Load, Deposit, Validate, CreateUser
    <2>3. ~Collide(w) /\ ~Mail(w) /\ ~OpenLink(w) /\ ~Confirm(w) /\ ~Queue(w)
      BY DEF Collide, Mail, OpenLink, Confirm, Queue
    <2>4. ~Mistype(w) /\ ~Count(w) /\ ~SetFails(w) /\ ~LoadToBlock(w)
      BY DEF Mistype, Count, SetFails, LoadToBlock
    <2>5. ~ClearFails(w) /\ ~Abandon(w) /\ ~TakeTask(w) /\ ~ReadPending(w)
      BY DEF ClearFails, Abandon, TakeTask, ReadPending
    <2>6. QED  BY <1>3, <2>2, <2>3, <2>4, <2>5 DEF WebStep, TaskStep
  <1>4. PICK w \in Workers : WebStep(w) \/ TaskStep(w) \/ Abandon(w)
    BY DEF Next, vars, rows, PlaceBet, ForgetFails, Tick, Workers
  <1>5. QED  BY <1>1, <1>2, <1>3, <1>4

\* A block is lifted by the admin form, or by a request that had loaded the
\* profile before it was blocked; a request that loads it blocked never does.
THEOREM BlocksOutlive == Spec => BlockOutlivesLaterRequests
  <1> DEFINE Lifted(u) ==
          profile[u].status = "BLOCKED" /\ profile'[u].status # "BLOCKED" =>
              \E w \in Workers :
                  /\ pc[w] = "save" /\ job[w].user = u
                  /\ copy[w].status # "BLOCKED" \/ job[w].op = "PerfilKYCAdmin"
  <1>1. ASSUME IInv, [Next]_vars, NEW u \in Users  PROVE  Lifted(u)
    <2> SUFFICES ASSUME profile[u].status = "BLOCKED",
                        profile'[u].status # "BLOCKED"
                 PROVE  \E w \in Workers :
                            /\ pc[w] = "save" /\ job[w].user = u
                            /\ \/ copy[w].status # "BLOCKED"
                               \/ job[w].op = "PerfilKYCAdmin"
      OBVIOUS
    <2>1. PICK w \in Workers : Save(w) /\ job[w].user = u
      BY <1>1, WritersOfProfiles DEF HasProfile
    <2>2. /\ pc[w] = "save" /\ Holding(w) /\ Tables
          /\ profile'[u] = Changed(job[w], copy[w])
      BY <1>1, <2>1 DEF Save, IInv, Holders, Tables
    <2>3. now \in 1 .. MaxTime /\ copy[w] \in Profile
      BY <2>2 DEF Tables, Holding
    <2>4. /\ job[w].op = "LimitesView" =>
                 Changed(job[w], copy[w]).status = copy[w].status
          /\ job[w].op = "login_view" =>
                 Changed(job[w], copy[w]).status = "BLOCKED"
      BY <2>2, <2>3, ChangedRow DEF Holding
    <2>5. QED  BY <2>1, <2>2, <2>4 DEF Holding
  <1>2. IInv /\ [Next]_vars =>
            [\A u \in Users :
                profile[u].status = "BLOCKED" /\ profile'[u].status # "BLOCKED" =>
                    \E w \in Workers :
                        /\ pc[w] = "save" /\ job[w].user = u
                        /\ copy[w].status # "BLOCKED" \/ job[w].op = "PerfilKYCAdmin"]_vars
    BY <1>1
  <1>3. QED  BY <1>2, Inductive, PTL DEF Spec, BlockOutlivesLaterRequests

\* A change of limits that is about to be saved was accepted for its copy, and
\* time has only passed since.
CooldownInv ==
    \A w \in Workers :
        /\ pc[w] = "save" /\ job[w].op = "LimitesView"
        /\ Raises(job[w].limit, copy[w]) /\ copy[w].raisedAt # 0
        => now - copy[w].raisedAt >= Cooldown

LEMMA CooldownStays ==
    ASSUME IInv, CooldownInv, [Next]_vars
    PROVE  CooldownInv'
  <1> SUFFICES ASSUME NEW w \in Workers, pc'[w] = "save",
                      job'[w].op = "LimitesView",
                      Raises(job'[w].limit, copy'[w]), copy'[w].raisedAt # 0
               PROVE  now' - copy'[w].raisedAt >= Cooldown
    BY DEF CooldownInv, Raises
  <1> DEFINE Kept == pc'[w] = pc[w] /\ job'[w] = job[w] /\ copy'[w] = copy[w]
  <1>0. Tables /\ Holders
    BY DEF IInv
  <1>1. ASSUME Kept, now' = now \/ now' = now + 1
        PROVE  now' - copy'[w].raisedAt >= Cooldown
    <2>1. now \in Nat /\ copy[w].raisedAt \in Nat
      BY <1>0, <1>1, BoundAssumption DEF Tables, Holders, Holding, Profile
    <2>2. now - copy[w].raisedAt >= Cooldown
      BY <1>1 DEF CooldownInv, Raises
    <2>3. QED  BY <1>1, <2>1, <2>2, BoundAssumption
  <1>2. ASSUME NEW v \in Workers, v # w,
               WebStep(v) \/ TaskStep(v) \/ Abandon(v)
        PROVE  Kept /\ now' = now
    <2>1. ASSUME Load(v) \/ Validate(v) \/ OpenLink(v) \/ Mistype(v)
          PROVE  Kept /\ now' = now
      BY <1>0, <1>2, <2>1 DEF Load, Validate, OpenLink, Mistype, Goto, outside,
                               Tables
    <2>2. ASSUME Save(v) \/ Deposit(v) \/ Collide(v) \/ Mail(v) \/ Queue(v)
          PROVE  Kept /\ now' = now
      BY <1>0, <1>2, <2>2 DEF Save, Deposit, Collide, Mail, Queue, Goto, Done,
                               outside, Tables
    <2>3. ASSUME CreateUser(v) \/ CreateProfile(v) \/ Confirm(v) \/ Count(v)
          PROVE  Kept /\ now' = now
      BY <1>0, <1>2, <2>3 DEF CreateUser, CreateProfile, Confirm, Count, Goto,
                               outside, Tables
    <2>4. ASSUME SetFails(v) \/ LoadToBlock(v) \/ ClearFails(v) \/ Abandon(v)
          PROVE  Kept /\ now' = now
      BY <1>0, <1>2, <2>4 DEF SetFails, LoadToBlock, ClearFails, Abandon, Goto,
                               Done, outside, Tables
    <2>5. ASSUME TakeTask(v) \/ ReadPending(v)  PROVE  Kept /\ now' = now
      BY <1>0, <1>2, <2>5 DEF TakeTask, ReadPending, Goto, Done, outside, Tables
    <2>6. QED
      BY <1>2, <2>1, <2>2, <2>3, <2>4, <2>5 DEF WebStep, TaskStep
  <1>3. CASE Load(w)
    <2>1. PICK r \in Offered :
              /\ Accepted(r, profile[r.user])
              /\ job' = [job EXCEPT ![w] = r]
              /\ copy' = [copy EXCEPT ![w] = profile[r.user]]
      BY <1>3 DEF Load
    <2>2. job'[w] = r /\ copy'[w] = profile[r.user] /\ now' = now
      BY <1>0, <1>3, <2>1 DEF Load, Tables, outside
    <2>3. QED  BY <2>1, <2>2 DEF Accepted, Raises
  <1>4. CASE TakeTask(w) \/ ReadPending(w)
    <2>1. ~TakeTask(w)
      BY <1>0 DEF TakeTask, Goto, Tables
    <2>2. job[w].op = "verificar_kyc_async" /\ job'[w] \in {job[w], NoJob}
      BY <1>0, <1>4, <2>1 DEF ReadPending, Done, Holders, Holding, Tables
    <2>3. QED  BY <2>2 DEF NoJob
  <1>5. CASE LoadToBlock(w)
    BY <1>0, <1>5 DEF LoadToBlock, Holders, Holding
  <1>6. CASE Next /\ ~Load(w) /\ ~TakeTask(w) /\ ~ReadPending(w) /\ ~LoadToBlock(w)
    <2>1. ~Save(w) /\ ~Deposit(w) /\ ~Collide(w) /\ ~Mail(w) /\ ~Queue(w)
      BY <1>0 DEF Save, Deposit, Collide, Mail, Queue, Goto, Done, Tables
    <2>2. ~Validate(w) /\ ~CreateUser(w) /\ ~CreateProfile(w) /\ ~OpenLink(w)
      BY <1>0 DEF Validate, CreateUser, CreateProfile, OpenLink, Goto, Tables
    <2>3. ~Confirm(w) /\ ~Mistype(w) /\ ~Count(w) /\ ~SetFails(w)
      BY <1>0 DEF Confirm, Mistype, Count, SetFails, Goto, Done, Tables
    <2>4. ~ClearFails(w) /\ ~Abandon(w)
      BY <1>0 DEF ClearFails, Abandon, Done, Tables
    <2>5. CASE \E v \in Workers : WebStep(v) \/ TaskStep(v) \/ Abandon(v)
      BY <1>1, <1>2, <1>6, <2>1, <2>2, <2>3, <2>4, <2>5 DEF WebStep, TaskStep
    <2>6. CASE \/ \E r \in Offered : PlaceBet(r)
               \/ \E u \in Users : ForgetFails(u)
               \/ Tick
      BY <1>1, <2>6 DEF PlaceBet, ForgetFails, Tick, local, outside
    <2>7. QED  BY <1>6, <2>5, <2>6 DEF Next, Workers
  <1>7. CASE UNCHANGED vars
    BY <1>1, <1>7 DEF vars, local, outside
  <1>8. QED  BY <1>3, <1>4, <1>5, <1>6, <1>7

LEMMA CooldownInductive == Spec => []CooldownInv
  <1>1. Init => CooldownInv
    BY DEF Init, CooldownInv
  <1>2. IInv /\ CooldownInv /\ [Next]_vars => CooldownInv'
    BY CooldownStays
  <1>3. QED  BY <1>1, <1>2, Inductive, PTL DEF Spec

\* Inside the cooldown no limit rises with a request that has seen the row it
\* replaces, except with the admin form.
THEOREM RaisesWait == Spec => RaisesWaitForCooldown
  <1>1. ASSUME IInv, CooldownInv, [Next]_vars, NEW u \in Users,
               HasProfile(u), profile[u].raisedAt # 0,
               profile'[u].limit # profile[u].limit,
               Raises(profile'[u].limit, profile[u]),
               now - profile[u].raisedAt < Cooldown
        PROVE  \E w \in Workers :
                   /\ pc[w] = "save" /\ job[w].user = u
                   /\ copy[w] # profile[u] \/ job[w].op = "PerfilKYCAdmin"
    <2>1. PICK w \in Workers : Save(w) /\ job[w].user = u
      BY <1>1, WritersOfProfiles
    <2>2. /\ pc[w] = "save" /\ Holding(w) /\ Tables
          /\ profile'[u] = Changed(job[w], copy[w])
      BY <1>1, <2>1 DEF Save, IInv, Holders, Tables
    <2> SUFFICES ASSUME copy[w] = profile[u], job[w].op # "PerfilKYCAdmin"
                 PROVE  FALSE
      BY <2>1, <2>2
    <2>3. copy[w] \in Profile /\ now \in Nat /\ profile[u].raisedAt \in Nat
      BY <2>2, BoundAssumption DEF Holding, Tables, Profile
    <2>4. job[w].op = "LimitesView"
      <3>1. job[w].op \in {"VerificarKYCView", "verificar_kyc_async",
                           "AutoexclusionView", "login_view", "LimitesView"}
        BY <2>2 DEF Holding, SavesProfile
      <3>2. job[w].op # "LimitesView" => profile'[u].limit = profile[u].limit
        BY <2>2, <2>3, <3>1, ChangedLimit
      <3>3. QED  BY <1>1, <3>2
    <2>5. Raises(job[w].limit, copy[w])
      <3>1. profile'[u].limit = job[w].limit
        BY <2>2, <2>3, <2>4, ChangedLimit
      <3>2. QED  BY <1>1, <3>1
    <2>6. now - profile[u].raisedAt >= Cooldown
      BY <1>1, <2>2, <2>4, <2>5 DEF CooldownInv
    <2>7. QED  BY <1>1, <2>3, <2>6, BoundAssumption
  <1>2. IInv /\ CooldownInv /\ [Next]_vars =>
            [\A u \in Users :
                /\ HasProfile(u) /\ profile[u].raisedAt # 0
                /\ profile'[u].limit # profile[u].limit
                /\ Raises(profile'[u].limit, profile[u])
                /\ now - profile[u].raisedAt < Cooldown
                => \E w \in Workers :
                       /\ pc[w] = "save" /\ job[w].user = u
                       /\ copy[w] # profile[u] \/ job[w].op = "PerfilKYCAdmin"]_vars
    BY <1>1
  <1>3. QED
    BY <1>2, Inductive, CooldownInductive, PTL DEF Spec, RaisesWaitForCooldown
=============================================================================
