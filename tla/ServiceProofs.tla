---------------------------- MODULE ServiceProofs ----------------------------
(***************************************************************************)
(* Theorems about Service, for any number of processes, migrations,        *)
(* requests, browsers and accounts, any faults and any number of stops.    *)
(***************************************************************************)
EXTENDS Service, TLAPS

USE FilesAssumption, MishapsAssumption

-----------------------------------------------------------------------------
(* Migrations *)

Starting == MigratePlaces \ {"serving", "exited"}

(* The loop of p has come to at[p]: everything before it is in place.      *)
InOrder ==
    \A p \in Processes :
        /\ pc[p] \in Starting => at[p] <= Len(applied) + 1
        /\ pc[p] \in {"pending", "executed", "inserted"} => at[p] \in Files
        /\ pc[p] = "serving" => Len(applied) = FileCount

(* A row that is inserted and not committed is not there yet, and only one *)
(* transaction holds it.                                                   *)
OneInserts ==
    \A p \in Processes : pc[p] = "inserted" =>
        /\ at[p] \notin recorded
        /\ \A q \in Processes \ {p} : pc[q] = "inserted" => at[q] # at[p]

MigrateInv == MigrateTypeOK /\ AppliedOnce /\ InOrder /\ OneInserts

(* What is recorded are the first files, as many as have been applied. *)
LEMMA AppliedBound ==
    ASSUME MigrateTypeOK, AppliedOnce
    PROVE  Len(applied) \in 0..FileCount /\ DOMAIN applied = 1..Len(applied)
<1>1. Len(applied) \in Nat /\ DOMAIN applied = 1..Len(applied)
    BY DEF MigrateTypeOK
<1>2. Len(applied) > 0 => Len(applied) \in Files
    BY <1>1 DEF MigrateTypeOK, AppliedOnce
<1>3. QED
    BY <1>1, <1>2 DEF Files

(* A commit makes the file p has come to the last one applied. *)
LEMMA PublishNext ==
    ASSUME MigrateInv, NEW p \in Processes, pc[p] = "inserted", Publish(p)
    PROVE  /\ at[p] = Len(applied) + 1
           /\ applied' \in Seq(Files) /\ Len(applied') = at[p]
           /\ recorded' = 1..at[p] /\ recorded' \subseteq Files
           /\ AppliedOnce'
           /\ \A q \in Processes \ {p} : pc[q] # "inserted"
<1>1. Len(applied) \in 0..FileCount /\ DOMAIN applied = 1..Len(applied)
    BY AppliedBound DEF MigrateInv
<1>2. \A q \in Processes : pc[q] = "inserted" => at[q] = Len(applied) + 1
  <2> SUFFICES ASSUME NEW q \in Processes, pc[q] = "inserted"
               PROVE  at[q] = Len(applied) + 1
      OBVIOUS
  <2>1. at[q] \in 1..(FileCount + 1) /\ recorded = 1..Len(applied)
      BY DEF MigrateInv, MigrateTypeOK, AppliedOnce
  <2>2. at[q] <= Len(applied) + 1 /\ at[q] \notin recorded
      BY DEF MigrateInv, InOrder, MigratePlaces, Starting, OneInserts
  <2>3. QED
      BY <1>1, <2>1, <2>2
<1>3. applied \in Seq(Files) /\ at[p] \in Files /\ applied' = Append(applied, at[p])
    BY DEF MigrateInv, MigrateTypeOK, InOrder, MigratePlaces, Starting, Publish
<1>4. /\ applied' \in Seq(Files)
      /\ Len(applied') = Len(applied) + 1
      /\ DOMAIN applied' = 1..(Len(applied) + 1)
      /\ \A i \in 1..Len(applied) : applied'[i] = applied[i]
      /\ applied'[Len(applied) + 1] = at[p]
    BY <1>3
<1>5. at[p] = Len(applied) + 1
    BY <1>2
<1>6. recorded' = 1..at[p] /\ recorded' \subseteq Files
    BY <1>1, <1>3, <1>5 DEF MigrateInv, AppliedOnce, Publish, Files
<1>7. \A i \in DOMAIN applied' : applied'[i] = i
    BY <1>1, <1>4, <1>5 DEF MigrateInv, AppliedOnce
<1>8. \A q \in Processes \ {p} : pc[q] # "inserted"
    BY <1>2 DEF MigrateInv, OneInserts
<1>9. QED
    BY <1>1, <1>4, <1>5, <1>6, <1>7, <1>8 DEF AppliedOnce

LEMMA MigrateStarts == MigrateInit => MigrateInv
<1>1. SUFFICES ASSUME MigrateInit PROVE MigrateInv
    OBVIOUS
<1>2. MigrateTypeOK
  <2>1. <<>> \in Seq(Files)
      OBVIOUS
  <2>2. 1 \in 1..(FileCount + 1) /\ 0 \in 0..MaxMishaps
      OBVIOUS
  <2>3. QED
      BY <1>1, <2>1, <2>2 DEF MigrateInit, MigrateTypeOK, MigratePlaces, Starting
<1>3. AppliedOnce /\ InOrder /\ OneInserts
    BY <1>1 DEF MigrateInit, AppliedOnce, InOrder, Starting, MigratePlaces, OneInserts
<1>4. QED
    BY <1>2, <1>3 DEF MigrateInv

(* Steps that commit nothing: where a process may go without a commit. *)
LEMMA NothingCommitted ==
    ASSUME MigrateInv, NEW p \in Processes,
           applied' = applied, recorded' = recorded, table' \in BOOLEAN,
           mishaps' \in 0..MaxMishaps,
           NEW place \in MigratePlaces, Goes(p, place),
           NEW n \in 1..(FileCount + 1), at' = [at EXCEPT ![p] = n],
           place \in Starting => n <= Len(applied) + 1,
           place \in {"pending", "executed", "inserted"} => n \in Files,
           place = "serving" => Len(applied) = FileCount,
           place = "inserted" => /\ n \notin recorded
                                 /\ \A q \in Processes \ {p} :
                                       pc[q] = "inserted" => at[q] # n
    PROVE  MigrateInv'
<1>1. MigrateTypeOK'
    BY DEF MigrateInv, MigrateTypeOK, Goes
<1>2. AppliedOnce'
    BY DEF MigrateInv, AppliedOnce
<1>3. InOrder'
    BY DEF MigrateInv, MigrateTypeOK, InOrder, Starting, Goes
<1>4. OneInserts'
    BY DEF MigrateInv, MigrateTypeOK, OneInserts, Goes
<1>5. QED
    BY <1>1, <1>2, <1>3, <1>4 DEF MigrateInv

(* Steps that commit the file p has come to. *)
LEMMA OneCommitted ==
    ASSUME MigrateInv, NEW p \in Processes, pc[p] = "inserted", Publish(p),
           mishaps' \in 0..MaxMishaps,
           \/ Goes(p, "loop") /\ at' = [at EXCEPT ![p] = @ + 1]
           \/ Goes(p, "exited") /\ at' = at
    PROVE  MigrateInv'
<1>1. /\ at[p] = Len(applied) + 1
      /\ applied' \in Seq(Files) /\ Len(applied') = at[p]
      /\ recorded' = 1..at[p] /\ recorded' \subseteq Files
      /\ AppliedOnce'
      /\ \A q \in Processes \ {p} : pc[q] # "inserted"
    BY PublishNext
<1>2. at[p] \in Files /\ at[p] + 1 \in 1..(FileCount + 1)
    BY DEF MigrateInv, InOrder, Files
<1>3. pc' \in [Processes -> MigratePlaces] /\ at' \in [Processes -> 1..(FileCount + 1)]
    BY <1>2 DEF MigrateInv, MigrateTypeOK, MigratePlaces, Starting, Goes
<1>4. MigrateTypeOK'
    BY <1>1, <1>3 DEF MigrateInv, MigrateTypeOK, Publish
<1>5. InOrder'
  <2> SUFFICES ASSUME NEW q \in Processes
               PROVE  /\ pc'[q] \in Starting
                            => at'[q] <= Len(applied') + 1
                      /\ pc'[q] \in {"pending", "executed", "inserted"} => at'[q] \in Files
                      /\ pc'[q] = "serving" => Len(applied') = FileCount
      BY DEF InOrder
  <2>1. CASE q = p
      BY <2>1, <1>1, <1>2 DEF MigrateInv, MigrateTypeOK, Goes
  <2>2. CASE q # p
    <3>1. pc'[q] = pc[q] /\ at'[q] = at[q]
        BY <2>2 DEF MigrateInv, MigrateTypeOK, Goes
    <3>2. Len(applied) # FileCount /\ Len(applied) \in Nat /\ Len(applied') = Len(applied) + 1
      <4>1. Len(applied) \in 0..FileCount
          BY AppliedBound DEF MigrateInv
      <4>2. Len(applied) + 1 \in 1..FileCount
          BY <1>1, <1>2 DEF Files
      <4>3. QED
          BY <1>1, <4>1, <4>2
    <3>3. at[q] \in Nat
        BY DEF MigrateInv, MigrateTypeOK
    <3>4. QED
        BY <3>1, <3>2, <3>3 DEF MigrateInv, InOrder, MigratePlaces, Starting
  <2>3. QED
      BY <2>1, <2>2
<1>6. OneInserts'
    BY <1>1 DEF MigrateInv, MigrateTypeOK, OneInserts, Goes
<1>7. QED
    BY <1>1, <1>4, <1>5, <1>6 DEF MigrateInv

LEMMA MigrateSteps == MigrateInv /\ MigrateNext => MigrateInv'
<1>1. SUFFICES ASSUME MigrateInv, MigrateNext PROVE MigrateInv'
    OBVIOUS
<1>2. PICK p \in Processes :
         Migrate(p) \/ FailStart(p) \/ CommitUnanswered(p) \/ StopServing(p) \/ StartAgain(p)
    BY <1>1 DEF MigrateNext
<1>3. /\ at[p] \in 1..(FileCount + 1) /\ at = [at EXCEPT ![p] = at[p]]
      /\ pc \in [Processes -> MigratePlaces] /\ at \in [Processes -> 1..(FileCount + 1)]
      /\ table \in BOOLEAN /\ mishaps \in 0..MaxMishaps
    BY <1>1 DEF MigrateInv, MigrateTypeOK
<1>4. Len(applied) \in 0..FileCount /\ recorded = 1..Len(applied)
    BY <1>1, AppliedBound DEF MigrateInv, AppliedOnce
<1>5. /\ pc[p] \in Starting => at[p] <= Len(applied) + 1
      /\ pc[p] \in {"pending", "executed", "inserted"} => at[p] \in Files
    BY <1>1 DEF MigrateInv, InOrder, MigratePlaces, Starting
<1> DEFINE Safe(place, n) ==
        /\ Goes(p, place) /\ place \in MigratePlaces
        /\ n \in 1..(FileCount + 1) /\ at' = [at EXCEPT ![p] = n]
        /\ place \in Starting => n <= Len(applied) + 1
        /\ place \in {"pending", "executed", "inserted"} => n \in Files
        /\ place = "serving" => Len(applied) = FileCount
        /\ place = "inserted" => /\ n \notin recorded
                                 /\ \A q \in Processes \ {p} : pc[q] = "inserted" => at[q] # n
<1>6. ASSUME NEW place, NEW n, Safe(place, n),
             applied' = applied, recorded' = recorded,
             table' \in BOOLEAN, mishaps' \in 0..MaxMishaps
      PROVE  MigrateInv'
    BY <1>1, <1>6, NothingCommitted
<1>7. CASE EnsureTable(p)
  <2>1. Safe("loop", at[p]) \/ Safe("creating", at[p])
      BY <1>3, <1>5, <1>7 DEF EnsureTable, MigratePlaces, Starting
  <2>2. QED
      BY <1>3, <1>6, <1>7, <2>1 DEF EnsureTable, schema
<1>8. CASE CreateTable(p)
  <2>1. Safe("loop", at[p]) \/ Safe("exited", at[p])
      BY <1>3, <1>5, <1>8 DEF CreateTable, MigratePlaces, Starting
  <2>2. QED
      BY <1>3, <1>6, <1>8, <2>1 DEF CreateTable
<1>9. CASE SkipApplied(p)
  <2>1. Goes(p, "loop") /\ at[p] + 1 <= Len(applied) + 1 /\ at[p] + 1 \in 1..(FileCount + 1)
      BY <1>3, <1>4, <1>9 DEF SkipApplied, Goes
  <2>2. Safe("loop", at[p] + 1)
      BY <1>3, <1>9, <2>1 DEF SkipApplied, MigratePlaces, Starting
  <2>3. QED
      BY <1>3, <1>6, <1>9, <2>2 DEF SkipApplied, schema
<1>10. CASE FindPending(p)
  <2>1. Safe("pending", at[p])
      BY <1>3, <1>5, <1>10 DEF FindPending, MigratePlaces, Starting
  <2>2. QED
      BY <1>3, <1>6, <1>10, <2>1 DEF FindPending, schema
<1>11. CASE ExecContents(p)
  <2>1. Safe("executed", at[p]) \/ Safe("exited", at[p])
      BY <1>3, <1>5, <1>11 DEF ExecContents, MigratePlaces, Starting
  <2>2. QED
      BY <1>3, <1>6, <1>11, <2>1 DEF ExecContents, schema
<1>12. CASE RecordMigration(p)
  <2>1. \A q \in Processes \ {p} : pc[q] = "inserted" => at[q] # at[p]
      BY <1>12 DEF RecordMigration, Locked
  <2>2. Safe("inserted", at[p]) \/ Safe("exited", at[p])
      BY <1>3, <1>5, <1>12, <2>1 DEF RecordMigration, MigratePlaces, Starting
  <2>3. QED
      BY <1>3, <1>6, <1>12, <2>2 DEF RecordMigration, schema
<1>13. CASE CommitMigration(p)
    BY <1>1, <1>3, <1>13, OneCommitted DEF CommitMigration
<1>14. CASE StartServing(p)
  <2>1. Len(applied) = FileCount
      BY <1>4, <1>5, <1>14 DEF StartServing, MigratePlaces, Starting
  <2>2. Safe("serving", at[p])
      BY <1>3, <1>14, <2>1 DEF StartServing, MigratePlaces, Starting
  <2>3. QED
      BY <1>3, <1>6, <1>14, <2>2 DEF StartServing, schema
<1>15. CASE FailStart(p) \/ StopServing(p)
  <2>1. Safe("exited", at[p]) /\ mishaps' \in 0..MaxMishaps
      BY <1>3, <1>15 DEF FailStart, StopServing, MigratePlaces, Starting
  <2>2. QED
      BY <1>3, <1>6, <1>15, <2>1 DEF FailStart, StopServing, schema
<1>16. CASE CommitUnanswered(p)
  <2>1. mishaps' \in 0..MaxMishaps
      BY <1>3, <1>16 DEF CommitUnanswered
  <2>2. QED
      BY <1>1, <1>16, <2>1, OneCommitted DEF CommitUnanswered
<1>17. CASE StartAgain(p)
  <2>1. Safe("start", 1)
      BY <1>3, <1>17 DEF StartAgain, MigratePlaces, Starting
  <2>2. QED
      BY <1>3, <1>6, <1>17, <2>1 DEF StartAgain, schema
<1>18. QED
    BY <1>2, <1>7, <1>8, <1>9, <1>10, <1>11, <1>12, <1>13, <1>14, <1>15, <1>16, <1>17
    DEF Migrate

(* A step of the service is one of its migrations or leaves them alone. *)
LEMMA ServiceMigrates == [Next]_vars => MigrateNext \/ UNCHANGED migrateVars
    BY DEF Next, Start, Stop, Serve, Age, MigrateNext, vars

(* Migrate applies and records each file once and in order (migrate.go:18). *)
THEOREM MigrateInvariant == Spec => []MigrateInv
<1>1. Init => MigrateInv
    BY MigrateStarts DEF Init
<1>2. MigrateInv /\ UNCHANGED migrateVars => MigrateInv'
    BY DEF MigrateInv, MigrateTypeOK, AppliedOnce, InOrder, OneInserts, migrateVars, schema
<1>3. MigrateInv /\ [Next]_vars => MigrateInv'
    BY <1>2, MigrateSteps, ServiceMigrates
<1>4. QED
    BY <1>1, <1>3, PTL DEF Spec

(* Every migration takes effect at most once, in file order, and together  *)
(* with its row of schema_migrations (migrate.go:39-69).                   *)
THEOREM MigrationsAppliedOnce == Spec => []AppliedOnce
<1>1. MigrateInv => AppliedOnce
    BY DEF MigrateInv
<1>2. QED
    BY <1>1, MigrateInvariant, PTL

(* A process that serves finds every migration in place (main.go:42-70).   *)
THEOREM WholeSchemaServed == Spec => []ServesWholeSchema
<1>1. MigrateInv => ServesWholeSchema
    BY DEF MigrateInv, InOrder, AppliedOnce, ServesWholeSchema, Files
<1>2. QED
    BY <1>1, MigrateInvariant, PTL

-----------------------------------------------------------------------------
(* Accounts *)

(* What r typed opens the account a, which was set up with the token. *)
Matched(r, a) ==
    /\ \E u \in users : u.id = a
    /\ TokenRight(a)
    /\ Form[r].password = Form[a].password
    /\ Lower(Form[r].email) = Lower(Form[a].email)

(* Every account is what its setup typed, the token included. *)
AccountsTyped == \A u \in users : u = Account(u.id) /\ TokenRight(u.id)

(* A setup or login acts only for an account it has matched, and one that  *)
(* starts or has a session acts for one.                                   *)
SessionsMatched ==
    \A r \in Setups \cup Logins :
        /\ who[r] # NoSession => Matched(r, who[r])
        /\ call[r] = "known" \/ r \in sessions => who[r] # NoSession

(* A request that was served carried a session that matched its account.   *)
ChecksMatched ==
    \A c \in Checks : call[c] = "ok" =>
        carried[c] \in Setups \cup Logins /\ Matched(carried[c], who[c])

AccountInv == AccountTypeOK /\ AccountsTyped /\ SessionsMatched /\ ChecksMatched

LEMMA StaysMatched ==
    ASSUME users \subseteq users', NEW r, NEW a, Matched(r, a)
    PROVE  Matched(r, a)'
    BY DEF Matched, TokenRight

LEMMA AccountStarts == AccountInit => AccountInv
    BY RequestsAssumption
    DEF AccountInit, AccountInv, AccountTypeOK, AccountsTyped, SessionsMatched,
        ChecksMatched, CallPlaces, Requests

(* Steps that make no account, session or match, and serve no check. *)
LEMMA NothingMatched ==
    ASSUME AccountInv,
           users' = users, who' = who, sessions' \subseteq sessions,
           cookie' \in [Browsers -> Setups \cup Logins \cup {NoSession}],
           carried' \in [Requests -> Setups \cup Logins \cup {NoSession}],
           call' \in [Requests -> CallPlaces],
           \A r \in Setups \cup Logins : call'[r] = "known" => call[r] = "known",
           \A c \in Checks : call'[c] = "ok" => call[c] = "ok" /\ carried'[c] = carried[c]
    PROVE  AccountInv'
<1>1. AccountTypeOK'
    BY DEF AccountInv, AccountTypeOK
<1>2. AccountsTyped'
    BY DEF AccountInv, AccountsTyped, Account, TokenRight
<1>3. SessionsMatched' /\ ChecksMatched'
    BY StaysMatched DEF AccountInv, SessionsMatched, ChecksMatched
<1>4. QED
    BY <1>1, <1>2, <1>3 DEF AccountInv

LEMMA CreateUserMatched ==
    ASSUME AccountInv, NEW r \in Setups, CreateUser(r)
    PROVE  AccountInv'
<1>1. r \in Requests /\ r # NoSession /\ r \notin Checks
    BY RequestsAssumption DEF Requests
<1>2. Account(r).id = r /\ users' = users \cup {Account(r)} /\ TokenRight(r)
    BY DEF CreateUser, Account
<1>3. \E place \in {"known", "error"} : CallGoes(r, place)
    BY DEF CreateUser
<1>4. AccountTypeOK'
    BY <1>1, <1>2, <1>3 DEF AccountInv, AccountTypeOK, CreateUser, CallGoes, CallPlaces
<1>5. AccountsTyped'
    BY <1>2 DEF AccountInv, AccountsTyped, Account, TokenRight
<1>6. Matched(r, r)'
    BY <1>2 DEF Matched, TokenRight
<1>7. SessionsMatched'
    BY <1>1, <1>2, <1>3, <1>6, StaysMatched
    DEF AccountInv, AccountTypeOK, SessionsMatched, CreateUser, CallGoes
<1>8. ChecksMatched'
    BY <1>1, <1>2, <1>3, StaysMatched
    DEF AccountInv, AccountTypeOK, ChecksMatched, CreateUser, CallGoes, Requests
<1>9. QED
    BY <1>4, <1>5, <1>7, <1>8 DEF AccountInv

LEMMA FindAccountMatched ==
    ASSUME AccountInv, NEW r \in Logins, FindAccount(r)
    PROVE  AccountInv'
<1>1. r \in Requests /\ r \notin Checks
    BY RequestsAssumption DEF Requests
<1>2. CASE \E u \in Opened(r) : who' = [who EXCEPT ![r] = u.id] /\ CallGoes(r, "known")
  <2>1. PICK u \in Opened(r) : who' = [who EXCEPT ![r] = u.id] /\ CallGoes(r, "known")
      BY <1>2
  <2>2. u \in users /\ u.id \in Setups /\ u.id # NoSession
      BY RequestsAssumption DEF AccountInv, AccountTypeOK, Opened, Requests
  <2>3. Matched(r, u.id)
      BY <2>2 DEF AccountInv, AccountsTyped, Account, Opened, Matched
  <2>4. users' = users /\ sessions' = sessions /\ cookie' = cookie /\ carried' = carried
      BY DEF FindAccount
  <2>5. AccountTypeOK'
      BY <1>1, <2>1, <2>2, <2>4 DEF AccountInv, AccountTypeOK, CallGoes, CallPlaces
  <2>6. AccountsTyped'
      BY <2>4 DEF AccountInv, AccountsTyped, Account, TokenRight
  <2>7. SessionsMatched'
      BY <1>1, <2>1, <2>2, <2>3, <2>4, StaysMatched
      DEF AccountInv, AccountTypeOK, SessionsMatched, CallGoes
  <2>8. ChecksMatched'
      BY <1>1, <2>1, <2>4, StaysMatched
      DEF AccountInv, AccountTypeOK, ChecksMatched, CallGoes, Requests
  <2>9. QED
      BY <2>5, <2>6, <2>7, <2>8 DEF AccountInv
<1>3. CASE UNCHANGED who /\ \E place \in {"denied", "error"} : CallGoes(r, place)
  <2>1. PICK place \in {"denied", "error"} : CallGoes(r, place)
      BY <1>3
  <2>2. QED
      BY <1>1, <1>3, <2>1, NothingMatched
      DEF FindAccount, AccountInv, AccountTypeOK, CallGoes, CallPlaces, Requests
<1>4. QED
    BY <1>2, <1>3 DEF FindAccount, StatementFails

LEMMA StartSessionMatched ==
    ASSUME AccountInv, NEW r \in Setups \cup Logins, StartSession(r)
    PROVE  AccountInv'
<1>1. r \in Requests /\ r \notin Checks
    BY RequestsAssumption DEF Requests
<1>2. PICK place \in {"answered", "error"} : CallGoes(r, place)
    BY DEF StartSession, StatementFails
<1>3. /\ users' = users /\ who' = who /\ cookie' = cookie /\ carried' = carried
      /\ sessions' \subseteq sessions \cup {r} /\ call[r] = "known"
    BY DEF StartSession
<1>4. AccountTypeOK'
    BY <1>1, <1>2, <1>3 DEF AccountInv, AccountTypeOK, CallGoes, CallPlaces
<1>5. AccountsTyped'
    BY <1>3 DEF AccountInv, AccountsTyped, Account, TokenRight
<1>6. SessionsMatched'
    BY <1>1, <1>2, <1>3, StaysMatched DEF AccountInv, AccountTypeOK, SessionsMatched, CallGoes
<1>7. ChecksMatched'
    BY <1>1, <1>2, <1>3, StaysMatched
    DEF AccountInv, AccountTypeOK, ChecksMatched, CallGoes, Requests
<1>8. QED
    BY <1>4, <1>5, <1>6, <1>7 DEF AccountInv

LEMMA RequireAuthMatched ==
    ASSUME AccountInv, NEW c \in Checks, RequireAuth(c)
    PROVE  AccountInv'
<1>1. c \in Requests /\ c \notin Setups \cup Logins
    BY RequestsAssumption DEF Requests
<1>2. /\ users' = users /\ sessions' = sessions
      /\ cookie' = cookie /\ carried' = carried
    BY DEF RequireAuth
<1>3. CASE /\ carried[c] \in sessions
           /\ who' = [who EXCEPT ![c] = who[carried[c]]]
           /\ CallGoes(c, "ok")
  <2>1. /\ carried[c] \in Setups \cup Logins /\ Matched(carried[c], who[carried[c]])
        /\ who[carried[c]] \in Setups \cup {NoSession}
      BY <1>3 DEF AccountInv, AccountTypeOK, SessionsMatched, Requests
  <2>2. AccountTypeOK'
      BY <1>1, <1>2, <1>3, <2>1 DEF AccountInv, AccountTypeOK, CallGoes, CallPlaces
  <2>3. AccountsTyped'
      BY <1>2 DEF AccountInv, AccountsTyped, Account, TokenRight
  <2>4. SessionsMatched'
      BY <1>1, <1>2, <1>3, StaysMatched
      DEF AccountInv, AccountTypeOK, SessionsMatched, CallGoes, Requests
  <2>5. ChecksMatched'
      BY <1>1, <1>2, <1>3, <2>1, StaysMatched
      DEF AccountInv, AccountTypeOK, ChecksMatched, CallGoes, Requests
  <2>6. QED
      BY <2>2, <2>3, <2>4, <2>5 DEF AccountInv
<1>4. CASE UNCHANGED who /\ CallGoes(c, "denied")
    BY <1>1, <1>2, <1>4, NothingMatched
    DEF AccountInv, AccountTypeOK, CallGoes, CallPlaces, Requests
<1>5. QED
    BY <1>3, <1>4 DEF RequireAuth

(* The other steps of a request: they only move it, or a cookie. *)
LEMMA CallMoves ==
    ASSUME AccountInv, NEW r \in Requests, NEW place \in CallPlaces \ {"known"},
           CallGoes(r, place), place = "ok" => r \notin Checks,
           users' = users, who' = who, sessions' \subseteq sessions,
           cookie' \in [Browsers -> Setups \cup Logins \cup {NoSession}],
           \/ carried' = carried
           \/ \E b \in Browsers : carried' = [carried EXCEPT ![r] = cookie[b]] /\ place = "sent"
    PROVE  AccountInv'
<1>1. call' \in [Requests -> CallPlaces]
    BY DEF AccountInv, AccountTypeOK, CallGoes
<1>2. carried' \in [Requests -> Setups \cup Logins \cup {NoSession}]
    BY DEF AccountInv, AccountTypeOK
<1>3. \A q \in Setups \cup Logins : call'[q] = "known" => call[q] = "known"
    BY DEF AccountInv, AccountTypeOK, CallGoes, Requests
<1>4. \A c \in Checks : call'[c] = "ok" => call[c] = "ok" /\ carried'[c] = carried[c]
    BY DEF AccountInv, AccountTypeOK, CallGoes, Requests
<1>5. QED
    BY <1>1, <1>2, <1>3, <1>4, NothingMatched

LEMMA HandleMatched ==
    ASSUME AccountInv, NEW r \in Requests, Handle(r) \/ Receive(r)
    PROVE  AccountInv'
<1>1. /\ BrowserOf[r] \in Browsers
      /\ cookie \in [Browsers -> Setups \cup Logins \cup {NoSession}]
      /\ {"counted", "denied", "error", "answered", "ok", "sent"} \subseteq CallPlaces \ {"known"}
    BY RequestsAssumption DEF AccountInv, AccountTypeOK, CallPlaces
<1>2. CASE CountUsers(r)
    BY <1>1, <1>2, CallMoves DEF CountUsers, StatementFails
<1>3. CASE RefuseForm(r)
    BY <1>1, <1>3, CallMoves DEF RefuseForm
<1>4. CASE CreateUserFails(r)
    BY <1>1, <1>4, CallMoves DEF CreateUserFails, StatementFails
<1>5. CASE SendCookie(r)
    BY <1>1, <1>5, CallMoves DEF SendCookie
<1>6. CASE DropSession(r)
    BY <1>1, <1>6, CallMoves DEF DropSession
<1>7. CASE ClearCookie(r) \/ ReceiveSession(r)
  <2>1. r \notin Checks
      BY <1>7, RequestsAssumption DEF ClearCookie, ReceiveSession
  <2>2. cookie' \in [Browsers -> Setups \cup Logins \cup {NoSession}]
      BY <1>1, <1>7 DEF ClearCookie, ReceiveSession
  <2>3. QED
      BY <1>1, <1>7, <2>1, <2>2, CallMoves DEF ClearCookie, ReceiveSession
<1>8. QED
    BY <1>2, <1>3, <1>4, <1>5, <1>6, <1>7,
       CreateUserMatched, FindAccountMatched, StartSessionMatched, RequireAuthMatched
    DEF Handle, Receive

LEMMA AccountSteps == AccountInv /\ [Next]_vars => AccountInv'
<1>1. SUFFICES ASSUME AccountInv, [Next]_vars PROVE AccountInv'
    OBVIOUS
<1>2. CASE UNCHANGED accountVars
    BY <1>1, <1>2, NothingMatched DEF accountVars, AccountInv, AccountTypeOK
<1>3. CASE \E r \in Requests : Handle(r) \/ Receive(r)
    BY <1>1, <1>3, HandleMatched
<1>4. CASE \E s \in sessions : Expire(s)
    BY <1>1, <1>4, NothingMatched DEF Expire, AccountInv, AccountTypeOK
<1>5. CASE \E p \in Processes : LoseCalls(HandledAt(p))
  <2>1. PICK p \in Processes : LoseCalls(HandledAt(p))
      BY <1>5
  <2>2. /\ call' \in [Requests -> CallPlaces]
        /\ \A r \in Requests : call'[r] \in {"known", "ok"} => call'[r] = call[r]
      BY <1>1, <2>1 DEF LoseCalls, AccountInv, AccountTypeOK, CallPlaces
  <2>3. QED
      BY <1>1, <2>1, <2>2, NothingMatched DEF LoseCalls, AccountInv, AccountTypeOK, Requests
<1>6. QED
    BY <1>1, <1>2, <1>3, <1>4, <1>5 DEF Next, Start, Stop, Serve, Age, vars

(* Accounts are what their setups typed, and requests act for accounts they *)
(* matched (auth_handlers.go:35).                                          *)
THEOREM AccountInvariant == Spec => []AccountInv
<1>1. Init => AccountInv
    BY AccountStarts DEF Init
<1>2. QED
    BY <1>1, AccountSteps, PTL DEF Spec

(* Every variable of the service keeps its type.                           *)
THEOREM ServiceTypeCorrect == Spec => []TypeOK
<1>1. MigrateInv /\ AccountInv => TypeOK
    BY DEF MigrateInv, AccountInv, TypeOK
<1>2. QED
    BY <1>1, MigrateInvariant, AccountInvariant, PTL

(* A dashboard request is served for an account whose email and password   *)
(* its session typed, and whose setup typed the token                      *)
(* (auth_handlers.go:35-112, 154-177).                                     *)
THEOREM RequestsServedToHolder == Spec => []ServedToHolder
<1>1. AccountInv => ServedToHolder
    BY DEF AccountInv, ChecksMatched, Matched, ServedToHolder
<1>2. QED
    BY <1>1, AccountInvariant, PTL

(* Whoever types the email, in any case, and the password of an account    *)
(* that exists is never told they are wrong (auth_handlers.go:72-79,       *)
(* 93-108).                                                                *)
THEOREM HolderGetsIn == Spec => AccountHolderGetsIn
<1> DEFINE Owns(r, s) == /\ \E u \in users : u.id = s
                         /\ Lower(Form[r].email) = Lower(Form[s].email)
                         /\ Form[r].password = Form[s].password
           LetIn == \A r \in Logins, s \in Setups :
                        Owns(r, s) => ~(call[r] # "denied" /\ call'[r] = "denied")
<1>1. ASSUME AccountInv, [Next]_vars
      PROVE  [LetIn]_accountVars
  <2>1. SUFFICES ASSUME NEW r \in Logins, NEW s \in Setups, Owns(r, s),
                        call[r] # "denied", call'[r] = "denied"
                 PROVE  FALSE
      BY DEF accountVars
  <2>2. r \in Requests /\ r \notin Setups \cup Logouts \cup Checks
      BY RequestsAssumption DEF Requests
  <2>3. call \in [Requests -> CallPlaces]
      BY <1>1 DEF AccountInv, AccountTypeOK
  <2>4. Opened(r) # {}
      BY <1>1, <2>1 DEF AccountInv, AccountsTyped, Account, Opened
  <2>5. ~(\E q \in Requests : Receive(q))
      BY <2>1, <2>2, <2>3 DEF Receive, ReceiveSession, ClearCookie, CallGoes
  <2>6. ASSUME NEW q \in Requests, Handle(q) PROVE FALSE
    <3>1. q = r
        BY <2>1, <2>2, <2>3, <2>6
        DEF Handle, CountUsers, RefuseForm, CreateUser, CreateUserFails, FindAccount,
            StartSession, SendCookie, DropSession, RequireAuth, StatementFails, CallGoes
    <3>2. FindAccount(r) \/ StartSession(r)
        BY <2>2, <2>6, <3>1 DEF Handle
    <3>3. QED
        BY <2>1, <2>2, <2>3, <2>4, <3>2
        DEF FindAccount, StartSession, StatementFails, CallGoes
  <2>7. ~(\E p \in Processes : LoseCalls(HandledAt(p)))
      BY <2>1, <2>2, <2>3 DEF LoseCalls
  <2>8. call' # call /\ ~(\E t \in sessions : Expire(t))
      BY <2>1 DEF Expire
  <2>9. QED
      BY <1>1, <2>5, <2>6, <2>7, <2>8
      DEF Next, Start, Stop, Serve, Age, vars, accountVars
<1>2. QED
    BY <1>1, AccountInvariant, PTL DEF Spec, AccountHolderGetsIn

-----------------------------------------------------------------------------
(* Logout *)

(* A browser holds the cookie of a login or setup of its own, whose answer *)
(* it has had.                                                             *)
CookiesReceived ==
    \A b \in Browsers : cookie[b] # NoSession =>
        call[cookie[b]] = "ok" /\ BrowserOf[cookie[b]] = b

(* What a request carried its browser had received.                        *)
CarriedReceived ==
    \A r \in Requests : carried[r] # NoSession =>
        call[carried[r]] = "ok" /\ BrowserOf[carried[r]] = BrowserOf[r]

(* The session a logout gave up is gone from its browser once the answer   *)
(* is there, and from the table once the handler is through.               *)
CookieGivenUp ==
    \A r \in Logouts : call[r] = "ok" /\ carried[r] # NoSession =>
        cookie[BrowserOf[r]] # carried[r]

SessionGivenUp ==
    "db" \notin DbFaults =>
        \A r \in Logouts : call[r] \in {"answered", "ok"} /\ carried[r] # NoSession =>
            carried[r] \notin sessions

LogoutInv ==
    /\ AccountTypeOK
    /\ CookiesReceived /\ CarriedReceived /\ CookieGivenUp /\ SessionGivenUp

(* Steps of a request that has not ended, which leave the cookies alone: a *)
(* session that is started has not been received.                          *)
LEMMA CookiesStay ==
    ASSUME LogoutInv, AccountTypeOK', cookie' = cookie, carried' = carried,
           \A r \in Requests : call[r] = "ok" => call'[r] = "ok",
           \A r \in Logouts : /\ call'[r] = "ok" => call[r] = "ok"
                              /\ call'[r] = "answered" =>
                                     \/ call[r] = "answered"
                                     \/ "db" \in DbFaults
                                     \/ carried[r] \notin sessions',
           \A s \in sessions' \ sessions : call[s] # "ok"
    PROVE  LogoutInv'
<1>1. /\ Logouts \subseteq Requests /\ Setups \cup Logins \subseteq Requests
      /\ NoSession \notin Requests
    BY RequestsAssumption DEF Requests
<1>2. CookiesReceived' /\ CarriedReceived'
    BY <1>1 DEF LogoutInv, CookiesReceived, CarriedReceived, AccountTypeOK
<1>3. CookieGivenUp'
    BY <1>1 DEF LogoutInv, CookieGivenUp
<1>4. SessionGivenUp'
  <2>1. SUFFICES ASSUME "db" \notin DbFaults, NEW r \in Logouts,
                        call'[r] \in {"answered", "ok"}, carried[r] # NoSession,
                        carried[r] \in sessions'
                 PROVE  FALSE
      BY DEF SessionGivenUp
  <2>2. call[r] \in {"answered", "ok"}
      BY <2>1
  <2>3. carried[r] \in sessions' \ sessions
      BY <2>1, <2>2 DEF LogoutInv, SessionGivenUp
  <2>4. QED
      BY <1>1, <2>1, <2>3 DEF LogoutInv, CarriedReceived
<1>5. QED
    BY <1>2, <1>3, <1>4 DEF LogoutInv

LEMMA SendCookieGivesUp ==
    ASSUME LogoutInv, AccountTypeOK', NEW r \in Requests, SendCookie(r)
    PROVE  LogoutInv'
<1>1. /\ Logouts \subseteq Requests /\ Setups \cup Logins \subseteq Requests
      /\ NoSession \notin Requests /\ BrowserOf[r] \in Browsers
    BY RequestsAssumption DEF Requests
<1>2. /\ \A q \in Requests : call[q] = "ok" => call'[q] = "ok"
      /\ \A q \in Requests : call'[q] \in {"answered", "ok"} => call'[q] = call[q] /\ q # r
      /\ \A q \in Requests : q # r => carried'[q] = carried[q]
      /\ carried'[r] = cookie[BrowserOf[r]]
      /\ cookie' = cookie /\ sessions' = sessions
    BY DEF LogoutInv, AccountTypeOK, SendCookie, CallGoes
<1>3. CookiesReceived'
    BY <1>1, <1>2 DEF LogoutInv, CookiesReceived, AccountTypeOK
<1>4. CarriedReceived'
  <2>1. SUFFICES ASSUME NEW q \in Requests, carried'[q] # NoSession
                 PROVE  call'[carried'[q]] = "ok" /\ BrowserOf[carried'[q]] = BrowserOf[q]
      BY DEF CarriedReceived
  <2>2. carried'[q] \in Requests
      BY <1>1, <2>1 DEF AccountTypeOK
  <2>3. CASE q = r
      BY <1>1, <1>2, <2>1, <2>2, <2>3 DEF LogoutInv, CookiesReceived
  <2>4. CASE q # r
      BY <1>1, <1>2, <2>1, <2>2, <2>4 DEF LogoutInv, CarriedReceived
  <2>5. QED
      BY <2>3, <2>4
<1>5. CookieGivenUp'
    BY <1>1, <1>2 DEF LogoutInv, CookieGivenUp
<1>6. SessionGivenUp'
    BY <1>1, <1>2 DEF LogoutInv, SessionGivenUp
<1>7. QED
    BY <1>3, <1>4, <1>5, <1>6 DEF LogoutInv

(* The session that is received is none that was given up before. *)
LEMMA ReceiveGivesUp ==
    ASSUME LogoutInv, AccountTypeOK', NEW r \in Requests, Receive(r)
    PROVE  LogoutInv'
<1>1. /\ Logouts \subseteq Requests /\ Setups \cup Logins \subseteq Requests
      /\ NoSession \notin Requests /\ BrowserOf[r] \in Browsers
      /\ (Setups \cup Logins) \cap Logouts = {}
    BY RequestsAssumption DEF Requests
<1>2. PICK mine \in {r, NoSession} :
          /\ mine = r => r \in Setups \cup Logins
          /\ mine = NoSession => r \in Logouts
          /\ cookie' = [cookie EXCEPT ![BrowserOf[r]] = mine]
  <2>1. CASE ReceiveSession(r)
      BY <1>1, <2>1 DEF ReceiveSession
  <2>2. CASE ClearCookie(r)
      BY <1>1, <2>2 DEF ClearCookie
  <2>3. QED
      BY <2>1, <2>2 DEF Receive
<1>3. /\ call[r] = "answered" /\ call'[r] = "ok"
      /\ \A q \in Requests : q # r => call'[q] = call[q]
      /\ carried' = carried /\ sessions' = sessions
    BY DEF LogoutInv, AccountTypeOK, Receive, ReceiveSession, ClearCookie, CallGoes
<1>4. /\ cookie'[BrowserOf[r]] = mine
      /\ \A b \in Browsers : b # BrowserOf[r] => cookie'[b] = cookie[b]
    BY <1>1, <1>2 DEF LogoutInv, AccountTypeOK
<1>5. CookiesReceived'
  <2>1. SUFFICES ASSUME NEW b \in Browsers, cookie'[b] # NoSession
                 PROVE  call'[cookie'[b]] = "ok" /\ BrowserOf[cookie'[b]] = b
      BY DEF CookiesReceived
  <2>2. CASE b = BrowserOf[r]
      BY <1>2, <1>3, <1>4, <2>1, <2>2
  <2>3. CASE b # BrowserOf[r]
    <3>1. cookie[b] \in Requests /\ cookie'[b] = cookie[b]
        BY <1>1, <1>4, <2>1, <2>3 DEF AccountTypeOK
    <3>2. QED
        BY <1>3, <2>1, <3>1 DEF LogoutInv, CookiesReceived
  <2>4. QED
      BY <2>2, <2>3
<1>6. CarriedReceived'
    BY <1>1, <1>3 DEF LogoutInv, CarriedReceived, AccountTypeOK
<1>7. CookieGivenUp'
  <2>1. SUFFICES ASSUME NEW q \in Logouts, call'[q] = "ok", carried[q] # NoSession,
                        cookie'[BrowserOf[q]] = carried[q]
                 PROVE  FALSE
      BY <1>3 DEF CookieGivenUp
  <2>2. call[carried[q]] = "ok"
      BY <1>1, <2>1 DEF LogoutInv, CarriedReceived
  <2>3. CASE q = r
      BY <1>1, <1>2, <1>4, <2>1, <2>3
  <2>4. CASE q # r
    <3>1. cookie[BrowserOf[q]] # carried[q]
        BY <1>1, <1>3, <2>1, <2>4 DEF LogoutInv, CookieGivenUp
    <3>2. BrowserOf[q] \in Browsers
        BY <1>1, RequestsAssumption
    <3>3. carried[q] = mine
        BY <1>4, <2>1, <3>1, <3>2
    <3>4. QED
        BY <1>2, <1>3, <2>1, <2>2, <3>3
  <2>5. QED
      BY <2>3, <2>4
<1>8. SessionGivenUp'
    BY <1>1, <1>3 DEF LogoutInv, SessionGivenUp
<1>9. QED
    BY <1>5, <1>6, <1>7, <1>8 DEF LogoutInv

LEMMA HandleGivesUp ==
    ASSUME LogoutInv, AccountTypeOK', NEW r \in Requests, Handle(r)
    PROVE  LogoutInv'
<1>1. call \in [Requests -> CallPlaces] /\ Logouts \subseteq Requests
    BY DEF LogoutInv, AccountTypeOK, Requests
<1>2. CASE SendCookie(r)
    BY <1>2, SendCookieGivesUp
<1>3. CASE r \in Logouts /\ DropSession(r)
  <2>1. /\ \A q \in Requests : q # r => call'[q] = call[q]
        /\ call[r] = "sent" /\ call'[r] = "answered"
        /\ "db" \in DbFaults \/ carried[r] \notin sessions'
        /\ sessions' \subseteq sessions /\ cookie' = cookie /\ carried' = carried
      BY <1>1, <1>3 DEF DropSession, CallGoes
  <2>2. QED
      BY <1>1, <2>1, CookiesStay
<1>4. CASE r \in Setups \cup Logins /\ StartSession(r)
  <2>1. /\ \A q \in Requests : q # r => call'[q] = call[q]
        /\ call[r] = "known" /\ r \notin Logouts
        /\ sessions' \subseteq sessions \cup {r} /\ cookie' = cookie /\ carried' = carried
      BY <1>1, <1>4, RequestsAssumption DEF StartSession, StatementFails, CallGoes
  <2>2. QED
      BY <1>1, <2>1, CookiesStay
<1>5. CASE \/ r \in Setups /\ \/ CountUsers(r) \/ RefuseForm(r)
                              \/ CreateUser(r) \/ CreateUserFails(r)
           \/ r \in Logins /\ FindAccount(r)
           \/ r \in Checks /\ RequireAuth(r)
  <2>1. /\ \A q \in Requests : q # r => call'[q] = call[q]
        /\ call[r] # "ok" /\ r \notin Logouts
        /\ sessions' = sessions /\ cookie' = cookie /\ carried' = carried
      BY <1>1, <1>5, RequestsAssumption
      DEF CountUsers, RefuseForm, CreateUser, CreateUserFails, FindAccount, RequireAuth,
          StatementFails, CallGoes
  <2>2. QED
      BY <1>1, <2>1, CookiesStay
<1>6. QED
    BY <1>2, <1>3, <1>4, <1>5 DEF Handle

LEMMA LogoutSteps == LogoutInv /\ AccountTypeOK' /\ [Next]_vars => LogoutInv'
<1>1. SUFFICES ASSUME LogoutInv, AccountTypeOK', [Next]_vars PROVE LogoutInv'
    OBVIOUS
<1>2. Logouts \subseteq Requests
    BY DEF Requests
<1>3. CASE UNCHANGED accountVars
    BY <1>1, <1>2, <1>3, CookiesStay DEF accountVars
<1>4. CASE \E r \in Requests : Handle(r) \/ Receive(r)
    BY <1>1, <1>4, HandleGivesUp, ReceiveGivesUp
<1>5. CASE \E s \in sessions : Expire(s)
    BY <1>1, <1>2, <1>5, CookiesStay DEF Expire
<1>6. CASE \E p \in Processes : LoseCalls(HandledAt(p))
  <2>1. PICK p \in Processes : LoseCalls(HandledAt(p))
      BY <1>6
  <2>2. /\ \A r \in Requests : call[r] = "ok" => call'[r] = "ok"
        /\ \A r \in Requests : call'[r] \in {"answered", "ok"} => call'[r] = call[r]
        /\ sessions' = sessions /\ cookie' = cookie /\ carried' = carried
      BY <2>1 DEF LoseCalls
  <2>3. QED
      BY <1>1, <1>2, <2>2, CookiesStay
<1>7. QED
    BY <1>1, <1>3, <1>4, <1>5, <1>6 DEF Next, Start, Stop, Serve, Age, vars

LEMMA LogoutStarts == Init => LogoutInv
    BY AccountStarts
    DEF Init, AccountInit, AccountInv, LogoutInv, CookiesReceived, CarriedReceived,
        CookieGivenUp, SessionGivenUp, Requests

(* Once a browser has been told that it is logged out, no request carries  *)
(* the session it gave up again, from this browser or another, however its *)
(* tabs interleave; and the token opens nothing any more unless its row    *)
(* could not be deleted (auth_handlers.go:114-126, 144-152).               *)
THEOREM LoggedOutForGood == Spec => []LoggedOutStaysOut
<1>1. LogoutInv => LoggedOutStaysOut
  <2>1. SUFFICES ASSUME LogoutInv, NEW r \in Logouts, call[r] = "ok", carried[r] # NoSession
                 PROVE  /\ \A b \in Browsers : cookie[b] # carried[r]
                        /\ "db" \notin DbFaults => carried[r] \notin sessions
      BY DEF LoggedOutStaysOut
  <2>2. r \in Requests
      BY DEF Requests
  <2>3. \A b \in Browsers : cookie[b] = carried[r] => b = BrowserOf[r]
      BY <2>1, <2>2 DEF LogoutInv, CookiesReceived, CarriedReceived
  <2>4. QED
      BY <2>1, <2>3 DEF LogoutInv, CookieGivenUp, SessionGivenUp
<1>2. AccountInv => AccountTypeOK
    BY DEF AccountInv
<1>3. Spec => []LogoutInv
    BY <1>2, LogoutStarts, LogoutSteps, AccountInvariant, PTL DEF Spec
<1>4. QED
    BY <1>1, <1>3, PTL
=============================================================================
