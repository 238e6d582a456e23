------------------------------ MODULE MCHandler ------------------------------
(* Two concurrent requests and the endpoints in which the two levels of    *)
(* authorizers and parameters, an undefined name and the spelling of a     *)
(* method make a difference.                                               *)
EXTENDS Handler, TLC

CONSTANTS GET, get, basic, ldap, ghost, both, open, spelled

MCNames == {basic, ldap, ghost}
MCKeys  == {GET, get}
MCUpper == [k \in MCKeys |-> GET]
MCEndpoints == {both, open, spelled}

Method0(authorizers, query) == [authorizers |-> authorizers, query |-> query]
Conf(authorizers, query, methods) ==
  [authorizers |-> authorizers, query |-> query, methods |-> methods]

MCEndpointConf ==
  both :> Conf(<<basic>>, "quiet", GET :> Method0(<<ldap>>, "returned")) @@
  open :> Conf(<<>>, "nil", GET :> Method0(<<ghost>>, "nil")) @@
  spelled :> Conf(<<>>, "nil", get :> Method0(<<basic>>, "returned"))
=============================================================================
