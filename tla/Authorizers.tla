----------------------------- MODULE Authorizers -----------------------------
(***************************************************************************)
(* The authorizers of auth.go: basic, ldap and http.  A factory validates  *)
(* the configuration and keeps it in the authorizer; from then on every    *)
(* request calls Authorize, concurrently.  Basic compares with its         *)
(* configuration; ldap and http each ask a server, over a connection of    *)
(* the call's own.                                                         *)
(*                                                                         *)
(* Abstractions.  A template mentions the username or password, is plain,  *)
(* or cannot be rendered.  A server accepts some claims and goes through   *)
(* four conditions: it answers ("up"), its host refuses connections        *)
(* ("closed"), it accepts them and stays silent ("mute"), or its packets   *)
(* are lost ("gone").  Connections a finished call leaves open have no     *)
(* effect on later calls and are not kept.                                 *)
(***************************************************************************)
EXTENDS Naturals

CONSTANTS
  Requests,    (* the requests                                             *)
  Users,       (* user names                                               *)
  Passwords,   (* passwords                                                *)
  Fixed,       (* the credential HttpAuthorizer.Authorize puts in its data *)
  Nobody,      (* what a server is asked about that is told no credential  *)
  NoClaim,     (* no valid Authorization header                            *)
  Configs,     (* what the factories may find in AuthorizerConfig.Config   *)
  Accounts,    (* the sets of claims a server may accept                   *)
  MaxChanges   (* bound on the changes of the server                       *)

Credentials == [user : Users, password : Passwords]
Claims      == Credentials \cup {Nobody}

(* "blank" is the url nobody configured, "broken" a template that cannot   *)
(* be rendered, "path" one that mentions the user in the path of the url.  *)
Templates == {"plain", "mentions", "broken"}
Urls      == Templates \cup {"blank", "path", "unparsable"}

BasicConfigs == [kind : {"basic"}, decodes : BOOLEAN, credential : Credentials]
LDAPConfigs  == [kind : {"ldap"}, decodes : BOOLEAN, network : {"tcp", "tls", "udp"},
                 white : SUBSET Users, black : SUBSET Users]
HttpConfigs  == [kind : {"http"}, decodes : BOOLEAN, tls : BOOLEAN,
                 url : Urls, method : Templates, data : Templates]

ASSUME ConfigAssumption == Configs \subseteq BasicConfigs \cup LDAPConfigs \cup HttpConfigs
ASSUME ClaimAssumption  ==
  /\ Fixed \in Credentials
  /\ Nobody \notin Credentials
  /\ NoClaim \notin Claims
ASSUME ChangeAssumption == Accounts \subseteq SUBSET Claims /\ MaxChanges \in Nat

VARIABLES
  config,    (* the configuration, as the factory leaves it                *)
  phase,     (* "decoded", "refused" or "built"                            *)
  server,    (* the condition of the server                                *)
  accounts,  (* the claims it accepts                                      *)
  changes,   (* how often one of the two changed                           *)
  pc,        (* where each call of Authorize is                            *)
  claim,     (* the credentials in the header of the request               *)
  answer,    (* what the server answered, or the comparison said           *)
  verdict,   (* what Authorize returned: "ok" or "deny"                    *)
  vouched,   (* the claim held at some instant of the call so far          *)
  steady     (* what is asked held, with the server up, during all of it   *)

remote == <<server, accounts, changes>>
vars == <<config, phase, remote, pc, claim, answer, verdict, vouched, steady>>

-----------------------------------------------------------------------------
(* GetBasicAuth.  No space in the header is scheme "". *)
Headers == [scheme : {"", "Basic", "Other"}, base64 : BOOLEAN, colon : BOOLEAN,
            credential : Credentials]

GetBasicAuth(h) ==
  IF h.scheme = "Basic" /\ h.base64 /\ h.colon THEN h.credential ELSE NoClaim

(* The factories.  url.Parse followed by String escapes braces in the path *)
(* of a url, not those in its query.                                       *)
NetworkAny(c) == TRUE
Network(c)    == c.network \in {"tcp", "tls"}

Valid(c) ==
  /\ c.decodes
  /\ c.kind = "ldap" => (c.white = {} \/ c.black = {}) /\ Network(c)
  /\ c.kind = "http" => c.url # "unparsable"

Kept(c) ==
  IF c.kind = "http" /\ c.url = "path" THEN [c EXCEPT !.url = "plain"] ELSE c

(* blacklist and whitelist; an empty one admits everybody. *)
ListedStrictly(c, user) == user \notin c.black /\ user \in c.white
Listed(c, user) == user \notin c.black /\ (c.white # {} => user \in c.white)

(* The request of HttpAuthorizer: what cannot be rendered is blank, the    *)
(* errors being overwritten, and a blank url is an error of the client.    *)
Render(template) == IF template = "broken" THEN "blank" ELSE template

Told(c) ==
  IF "mentions" \in {Render(c.url), Render(c.method), Render(c.data)}
  THEN Fixed ELSE Nobody

Sendable(c) == Render(c.url) # "blank"

Secured(c) == IF c.kind = "http" THEN c.tls ELSE c.network = "tls"

(* Who decides on a claim. *)
Authority(c, accepted) == IF c.kind = "basic" THEN {c.credential} ELSE accepted

(* What a call asks about: basic and ldap the credentials of the request,  *)
(* http what it put into its own.                                          *)
Asked(q) == IF config.kind = "http" /\ pc[q] # "idle" THEN Told(config) ELSE claim[q]
Holds(q) == Asked(q) \in Authority(config, accounts)

-----------------------------------------------------------------------------
Init ==
  /\ config \in Configs
  /\ phase = "decoded"
  /\ server = "up"
  /\ accounts \in Accounts
  /\ changes = 0
  /\ pc = [q \in Requests |-> "idle"]
  /\ claim = [q \in Requests |-> NoClaim]
  /\ answer = [q \in Requests |-> "none"]
  /\ verdict = [q \in Requests |-> "none"]
  /\ vouched = [q \in Requests |-> FALSE]
  /\ steady = [q \in Requests |-> FALSE]

Build ==
  /\ phase = "decoded" /\ Valid(config)
  /\ phase' = "built"
  /\ config' = Kept(config)
  /\ UNCHANGED <<remote, pc, claim, answer, verdict, vouched, steady>>

Refuse ==
  /\ phase = "decoded" /\ ~Valid(config)
  /\ phase' = "refused"
  /\ UNCHANGED <<config, remote, pc, claim, answer, verdict, vouched, steady>>

(* THE SERVER *)

(* The condition or the accounts change; calls in progress see both.       *)
ServerChanges(condition, accepted) ==
  /\ phase = "built" /\ changes < MaxChanges
  /\ changes' = changes + 1
  /\ server' = condition /\ accounts' = accepted
  /\ LET holds(c) == c \in Authority(config, accepted)
     IN  /\ vouched' = [q \in Requests |->
              vouched[q] \/ (pc[q] \notin {"idle", "done"} /\ holds(claim[q]))]
         /\ steady' = [q \in Requests |-> steady[q] /\
              (pc[q] = "done" \/ (holds(Asked(q)) /\ (config.kind = "basic" \/ condition = "up")))]
  /\ UNCHANGED <<config, phase, pc, claim, answer, verdict>>

Fails   == \E condition \in {"up", "closed", "mute", "gone"} : ServerChanges(condition, accounts)
Revises == \E accepted \in Accounts : ServerChanges(server, accepted)

-----------------------------------------------------------------------------
(* AUTHORIZE *)

Local(q, from, to) ==
  /\ pc[q] = from
  /\ pc' = [pc EXCEPT ![q] = to]
  /\ UNCHANGED <<config, phase, remote>>

Goes(q, from, to) ==
  /\ Local(q, from, to)
  /\ UNCHANGED <<claim, answer, verdict, vouched, steady>>

Returns(q, from, result) ==
  /\ Local(q, from, "done")
  /\ verdict' = [verdict EXCEPT ![q] = result]
  /\ UNCHANGED <<claim, answer, vouched>>

Denies(q, from) == Returns(q, from, "deny") /\ UNCHANGED steady

(* The call begins; the header is decoded, or the templates rendered. *)
Begin(q, h) ==
  /\ phase = "built"
  /\ Local(q, "idle", "start")
  /\ claim' = [claim EXCEPT ![q] = GetBasicAuth(h)]
  /\ vouched' = [vouched EXCEPT ![q] = GetBasicAuth(h) \in Authority(config, accounts)]
  /\ steady' = [steady EXCEPT ![q] = Holds(q)' /\ (config.kind = "basic" \/ server = "up")]
  /\ UNCHANGED <<answer, verdict>>

(* Http does not look at the header. *)
HeaderInvalid(q) == config.kind # "http" /\ claim[q] = NoClaim /\ Denies(q, "start")

(* What the comparison, the bind or the response says. *)
Answers(q, from) ==
  /\ Local(q, from, "answered")
  /\ answer' = [answer EXCEPT ![q] = IF Holds(q) THEN "yes" ELSE "no"]
  /\ UNCHANGED <<claim, verdict, vouched, steady>>

BasicCompares(q) ==
  /\ config.kind = "basic" /\ claim[q] # NoClaim
  /\ Answers(q, "start")

(* Without a network the connection stays nil, which Bind does not survive. *)
Dial(q) ==
  /\ config.kind # "basic"
  /\ IF config.kind = "http" THEN Sendable(config) ELSE claim[q] # NoClaim
  /\ Goes(q, "start", IF config.kind = "ldap" /\ config.network = "udp" THEN "panicked" ELSE "dialing")

NotSent(q) ==
  /\ config.kind = "http" /\ ~Sendable(config)
  /\ Denies(q, "start")

Connected(q) ==
  /\ server \in {"up", "mute"}
  /\ Goes(q, "dialing", IF Secured(config) THEN "handshake" ELSE "connected")

DialRefused(q) == server = "closed" /\ Denies(q, "dialing")

(* The requester's dialer gives up after ten seconds, ldap.Dial when the   *)
(* operating system does; a bug would not limit the time.                  *)
TimeoutNone == FALSE
Timeout     == TRUE

DialTimesOut(q) == server = "gone" /\ Timeout /\ Denies(q, "dialing")

Handshake(q) == server = "up" /\ Goes(q, "handshake", "connected")

(* The lists are read when the connection is open. *)
NotListed(q) ==
  /\ Denies(q, "connected")
  /\ config.kind = "ldap" /\ ~Listed(config, claim[q].user)

Ask(q) ==
  /\ Goes(q, "connected", "asking")
  /\ config.kind = "ldap" => Listed(config, claim[q].user)

ServerAnswers(q) == server = "up" /\ Answers(q, "asking")

(* The connection breaks, at the latest while the answer is read. *)
Breaks(q) ==
  /\ config.kind # "basic"
  /\ \E from \in {"handshake", "asking", "answered"} : Returns(q, from, "deny")
  /\ steady' = [steady EXCEPT ![q] = FALSE]

(* A bind without an error, or status 200. *)
VerdictIgnoringAnswer(a) == "ok"
Verdict(a)               == IF a = "yes" THEN "ok" ELSE "deny"

Decide(q) == Returns(q, "answered", Verdict(answer[q])) /\ UNCHANGED steady

(* What the goroutine of the call does by itself, or the network for it. *)
Runs(q) ==
  \/ HeaderInvalid(q) \/ BasicCompares(q) \/ Dial(q) \/ NotSent(q)
  \/ NotListed(q) \/ Ask(q) \/ Decide(q)

(* What comes from the server or its host. *)
Hears(q) ==
  \/ Connected(q) \/ DialRefused(q) \/ DialTimesOut(q)
  \/ Handshake(q) \/ ServerAnswers(q)

(* A host that runs without the server resets its connections. *)
Resets(q) == server = "closed" /\ Breaks(q)

Next ==
  \/ Build \/ Refuse \/ Fails \/ Revises
  \/ \E q \in Requests :
       (\E h \in Headers : Begin(q, h)) \/ Runs(q) \/ Hears(q) \/ Breaks(q)

Spec ==
  /\ Init /\ [][Next]_vars
  /\ \A q \in Requests : WF_vars(Runs(q)) /\ WF_vars(Hears(q)) /\ WF_vars(Resets(q))

-----------------------------------------------------------------------------
(* PROPERTIES *)

PCs == {"idle", "start", "dialing", "handshake", "connected", "asking", "answered", "done"}

(* Types; no call panics on a nil connection. *)
TypeOK ==
  /\ config \in BasicConfigs \cup LDAPConfigs \cup HttpConfigs
  /\ phase \in {"decoded", "refused", "built"}
  /\ server \in {"up", "closed", "mute", "gone"}
  /\ accounts \in SUBSET Claims
  /\ changes \in 0..MaxChanges
  /\ pc \in [Requests -> PCs]
  /\ claim \in [Requests -> Claims \cup {NoClaim}]
  /\ answer \in [Requests -> {"none", "yes", "no"}]
  /\ verdict \in [Requests -> {"none", "ok", "deny"}]
  /\ vouched \in [Requests -> BOOLEAN]
  /\ steady \in [Requests -> BOOLEAN]

(* Whom the configuration of an ldap authorizer keeps out. *)
Excluded(q) ==
  /\ config.kind = "ldap" /\ claim[q] # NoClaim
  /\ \/ claim[q].user \in config.black
     \/ config.white # {} /\ claim[q].user \notin config.white

(* Basic and ldap allow a request only if its own credentials held at some *)
(* instant of the call and the lists of ldap admit the user: neither a     *)
(* late answer nor a broken connection nor an error lets anybody in.       *)
AllowedIsWarranted ==
  \A q \in Requests :
    verdict[q] = "ok" /\ config.kind # "http" => vouched[q] /\ ~Excluded(q)

(* The same of an http authorizer whose request mentions the user: "http   *)
(* authorizer basically makes http request to check username and password  *)
(* against web service" (auth.go:367).  The two are constants of the code. *)
UsernameIsChecked ==
  \A q \in Requests :
    verdict[q] = "ok" /\ config.kind = "http" /\ Told(config) # Nobody => vouched[q]

(* Nobody is sent away if what was asked held, with the server up and the  *)
(* connection whole, for as long as the call took.                         *)
NoFalseRefusal ==
  \A q \in Requests :
    verdict[q] = "deny" =>
      \/ ~steady[q]
      \/ Excluded(q)
      \/ config.kind = "http" /\ ~Sendable(config)

(* A call does not wait for a connection for ever, whatever became of the  *)
(* server, and it ends if the server is not silent or away for ever.       *)
CallsEnd ==
  /\ \A q \in Requests : (pc[q] = "dialing") ~> (pc[q] # "dialing")
  /\ <>[](server \in {"up", "closed"}) =>
       \A q \in Requests : (pc[q] # "idle") ~> (pc[q] = "done")

(* What the handler relies on. *)
Stage(q) ==
  CASE pc[q] = "idle" -> "out"
    [] pc[q] = "done" /\ verdict[q] = "ok" -> "allowed"
    [] pc[q] = "done" /\ verdict[q] # "ok" -> "denied"
    [] pc[q] = "answered" /\ answer[q] = "yes" -> "granted"
    [] pc[q] = "panicked" -> "panicked"
    [] OTHER -> "in"

G == INSTANCE Gate WITH
  authority <- Authority(config, accounts),
  claim     <- [q \in Requests |-> Asked(q)],
  stage     <- [q \in Requests |-> Stage(q)]

(* The authorizers implement the gate: a call allows or denies, and allows *)
(* only if what it asked about was granted at an instant of the call.      *)
Refinement == G!GSpec
=============================================================================
