------------------------------ MODULE MCService ------------------------------
(***************************************************************************)
(* Small instances of Service.  The emails are two spellings of one.       *)
(***************************************************************************)
EXTENDS Service

CONSTANTS setup1, setup2, setup3, login1, logout1, check1, laptop, phone

MCLower(email) == IF email = "Ann@x" THEN "ann@x" ELSE email

Typed(email, password, token) == [email |-> email, password |-> password, token |-> token]

(* Two setups with one email in two spellings, one without the token, a    *)
(* login with the email of both and the password of the first.             *)
MCForm ==
    [r \in Setups \cup Logins |->
        CASE r = setup1 -> Typed("Ann@x", "long pass", "tok")
          [] r = setup2 -> Typed("ann@x", "long pass 2", "tok")
          [] r = setup3 -> Typed("bob@x", "long pass", "guess")
          [] r = login1 -> Typed("ann@x", "long pass", "none")]

MCBrowserOf == [r \in Requests |-> IF r = setup1 THEN phone ELSE laptop]

(* Two operators with two emails. *)
TwoOperators ==
    [r \in Setups |-> IF r = setup1 THEN Typed("ann@x", "long pass", "tok")
                                    ELSE Typed("bob@x", "long pass", "tok")]

MCHandledBy == [r \in Requests |-> IF r \in Checks \cup {setup2} THEN 2 ELSE 1]
MCProcesses == {1, 2}
=============================================================================
