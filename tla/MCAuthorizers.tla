---------------------------- MODULE MCAuthorizers ----------------------------
(* One authorizer of each kind and configuration, two calls to it.         *)
EXTENDS Authorizers, TLC

CONSTANTS ann, bob, right, wrong

MCFixed == [user |-> ann, password |-> right]

MCBob   == [user |-> bob, password |-> right]

MCAccounts == {{}, {MCFixed}, {MCFixed, MCBob, Nobody}}

Basic(decodes) == [kind |-> "basic", decodes |-> decodes, credential |-> MCFixed]
LDAP(network, white, black) ==
  [kind |-> "ldap", decodes |-> TRUE, network |-> network, white |-> white, black |-> black]
Http(url, method, data, tls) ==
  [kind |-> "http", decodes |-> TRUE, url |-> url, method |-> method, data |-> data, tls |-> tls]

MCConfigs ==
  {Basic(TRUE), Basic(FALSE),
   LDAP("tcp", {}, {}), LDAP("tcp", {ann}, {}), LDAP("tls", {}, {bob}),
   LDAP("udp", {}, {}), LDAP("tcp", {ann}, {bob}),
   Http("plain", "plain", "mentions", TRUE), Http("path", "broken", "plain", FALSE),
   Http("broken", "plain", "mentions", FALSE),
   Http("blank", "mentions", "plain", FALSE), Http("unparsable", "plain", "plain", FALSE)}
=============================================================================
