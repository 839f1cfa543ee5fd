---------------------------- MODULE MCWorkspace ----------------------------
(* Workspace for TLC: sessions of both clients, with the role of an         *)
(* administrator and without, a proxy that works, one that does not start   *)
(* and one that takes no body, inputs of the form around its limits.       *)
EXTENDS Workspace

Works == [mode |-> "unset", url |-> "good", directUrl |-> "unset", gatewaySecret |-> "unset",
          maxRequestBytes |-> "unset", timeoutMs |-> "ample"]
SomeEnvironments ==
  {Works, [Works EXCEPT !.mode = "direct"], [Works EXCEPT !.maxRequestBytes = "tiny"]}

SessionOf(kind, roles) == [kind |-> kind, roles |-> roles]
SomeSessions == {NoValue, SessionOf("admin", AppRoles),
                 SessionOf("user", {"securescan-user"})}

Host == [blank |-> FALSE, dotted |-> FALSE, octets |-> FALSE, colon |-> FALSE,
         urlParses |-> FALSE, labels |-> TRUE]
Entered(start, end) ==
  [target |-> Host, startPort |-> start, endPort |-> end, authorized |-> TRUE]
SomeInputs == {Entered(1, 2), Entered(1, 3), Entered(2, 1), Entered(1, NaN)}
=============================================================================
