------------------------------- MODULE Service -------------------------------
(***************************************************************************)
(* Server processes that start and migrate (Migrations) and serve the      *)
(* account requests (Accounts) from then on: cmd/clipfolio/main.go.  A     *)
(* process that stops leaves its requests unanswered wherever they stand;  *)
(* what they committed stays for the next process.                         *)
(***************************************************************************)
EXTENDS Migrations, Accounts

CONSTANT HandledBy  \* the process each request is sent to

ASSUME HandledByAssumption == HandledBy \in [Requests -> Processes]

vars == <<migrateVars, accountVars>>

TypeOK == MigrateTypeOK /\ AccountTypeOK

Init == MigrateInit /\ AccountInit

HandledAt(p) == {r \in Requests : HandledBy[r] = p}

Start(p) ==
    /\ Migrate(p) \/ FailStart(p) \/ CommitUnanswered(p) \/ StartAgain(p)
    /\ UNCHANGED accountVars

Stop(p) == StopServing(p) /\ LoseCalls(HandledAt(p))

Serve(r) ==
    /\ pc[HandledBy[r]] = "serving"
    /\ Handle(r) \/ Receive(r)
    /\ UNCHANGED migrateVars

Age == UNCHANGED migrateVars /\ \E s \in sessions : Expire(s)

Next ==
    \/ \E p \in Processes : Start(p) \/ Stop(p)
    \/ \E r \in Requests : Serve(r)
    \/ Age

(* Every process goes on with its start while it can. *)
FairSpec == Init /\ [][Next]_vars /\ \A p \in Processes : WF_vars(Migrate(p) /\ UNCHANGED accountVars)

Spec == Init /\ [][Next]_vars
=============================================================================
