-------------------------- MODULE MCTargetPinning --------------------------
(* TargetPinning for TLC: an address of every kind the two classifications   *)
(* treat differently, answers of up to two of them, and longer ones beyond   *)
(* the limit of two.                                                         *)
EXTENDS TargetPinning

Public == {<<"public", 1>>, <<"public", 2>>}
MCAddresses == Public \cup {<<c, 1>> : c \in {"special", "private", "siteLocal", "linkLocal"}}
MCLists ==
  {<<>>} \cup {<<a>> : a \in MCAddresses} \cup {<<a, b>> : a, b \in MCAddresses}
    \cup {<<a, b, c>> : a, b \in Public, c \in Public \cup {<<"special", 1>>}}
=============================================================================
