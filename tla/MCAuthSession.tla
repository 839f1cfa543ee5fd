--------------------------- MODULE MCAuthSession ---------------------------
(* AuthSession for TLC: two tabs, and the environments and accounts that    *)
(* the code tells apart.  The server starts only in the first two           *)
(* environments; the others are of a configuration that must not load.      *)
EXTENDS AuthSession

Good == [base |-> "good", issuer |-> "good", secret |-> "good",
         client |-> [k \in Kinds |-> "good"], scopes |-> [k \in Kinds |-> {}]]
SomeEnvironments ==
  {Good,
   [Good EXCEPT !.client["admin"] = "placeholder"],
   [Good EXCEPT !.scopes["user"] = Scopes],
   [Good EXCEPT !.secret = "unfit"]}

(* One tab alone follows a link.                                           *)
SomeLinks == {CHOOSE t \in Tabs : TRUE} \X {"reshaped"}

(* An administrator where both clients can log in, a user where the         *)
(* administrator's cannot.                                                  *)
SomeAccounts ==
  [e \in SomeEnvironments |->
     {IF e.client["admin"] = "good" THEN AppRoles ELSE {"securescan-user", "other"}}]
=============================================================================
