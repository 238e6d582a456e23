-------------------------- MODULE AuthorizersProofs --------------------------
(***************************************************************************)
(* Proofs about Authorizers.  The invariant says of every call what the    *)
(* history variables mean while it is in progress, and what has been       *)
(* tested when it is past a test.  Each step moves one call or the server. *)
(***************************************************************************)
EXTENDS Authorizers, TLAPS

Active(q) == pc[q] \notin {"idle", "done"}

(* The question is about the request's own claim. *)
Own == config.kind # "http"

(* What the histories say: an answer was given at an instant of the call. *)
History(q) ==
  /\ Active(q) /\ Own /\ Holds(q) => vouched[q]
  /\ Active(q) /\ steady[q] => Holds(q) /\ (config.kind = "basic" \/ server = "up")
  /\ answer[q] = "yes" /\ Own => vouched[q]
  /\ answer[q] = "no" => ~steady[q]

(* Where the call is, and what was tested before. *)
Progress(q) ==
  /\ pc[q] # "idle" => phase = "built"
  /\ pc[q] = "done" <=> verdict[q] # "none"
  /\ answer[q] # "none" => pc[q] \in {"answered", "done"}
  /\ pc[q] = "answered" => answer[q] # "none"
  /\ pc[q] \in {"dialing", "handshake", "connected", "asking", "answered"} =>
       (Own => claim[q] # NoClaim)
  /\ pc[q] \in {"dialing", "handshake", "connected", "asking"} => config.kind # "basic"
  /\ pc[q] \in {"asking", "answered"} => ~Excluded(q)

(* What the verdict rests on. *)
Outcome(q) ==
  /\ verdict[q] = "ok" => answer[q] = "yes" /\ ~Excluded(q)
  /\ verdict[q] = "deny" =>
       \/ ~steady[q]
       \/ Excluded(q)
       \/ config.kind = "http" /\ ~Sendable(config)

CallInv(q) == History(q) /\ Progress(q) /\ Outcome(q)

IInv ==
  /\ TypeOK
  /\ phase = "built" => Valid(config)
  /\ \A q \in Requests : CallInv(q)

-----------------------------------------------------------------------------
(* OPERATORS *)

(* What the factory changes leaves a valid configuration valid. *)
LEMMA KeptValid ==
  ASSUME NEW c \in BasicConfigs \cup LDAPConfigs \cup HttpConfigs, Valid(c)
  PROVE  /\ Kept(c) \in BasicConfigs \cup LDAPConfigs \cup HttpConfigs
         /\ Valid(Kept(c))
         /\ \A accepted : Authority(Kept(c), accepted) = Authority(c, accepted)
  <1>1. CASE c.kind = "http" /\ c.url = "path"
    <2>1. c \in HttpConfigs
      BY <1>1 DEF BasicConfigs, LDAPConfigs
    <2> DEFINE k == [c EXCEPT !.url = "plain"]
    <2>2. k \in HttpConfigs /\ k.kind = "http" /\ k.url = "plain" /\ k.decodes = c.decodes
      BY <2>1, <1>1 DEF HttpConfigs, Urls, Templates
    <2>3. Kept(c) = k
      BY <1>1 DEF Kept
    <2> HIDE DEF k
    <2> QED
      BY <1>1, <2>2, <2>3 DEF Valid, Authority
  <1>2. CASE ~(c.kind = "http" /\ c.url = "path")
    BY <1>2 DEF Kept
  <1> QED
    BY <1>1, <1>2

(* The lists keep out exactly whom they should. *)
LEMMA ListsExact ==
  ASSUME NEW q \in Requests, claim[q] # NoClaim, config.kind = "ldap"
  PROVE  Listed(config, claim[q].user) <=> ~Excluded(q)
  BY DEF Listed, Excluded

(* What the header says is a claim or nothing. *)
LEMMA HeaderType ==
  ASSUME NEW h \in Headers
  PROVE  GetBasicAuth(h) \in Claims \cup {NoClaim}
  BY DEF GetBasicAuth, Headers, Claims

(* A call that has begun asks about the same as long as nothing is built. *)
LEMMA AskedStays ==
  ASSUME NEW q, config' = config, claim'[q] = claim[q],
         pc'[q] = pc[q] \/ (pc[q] # "idle" /\ pc'[q] # "idle")
  PROVE  Asked(q)' = Asked(q)
  BY DEF Asked

(* Who decides is a set of claims. *)
LEMMA AuthorityType ==
  ASSUME NEW c \in BasicConfigs \cup LDAPConfigs \cup HttpConfigs, NEW accepted \in SUBSET Claims
  PROVE  Authority(c, accepted) \in SUBSET Claims
  <1>1. CASE c.kind = "basic"
    BY <1>1 DEF Authority, BasicConfigs, LDAPConfigs, HttpConfigs, Claims
  <1>2. CASE c.kind # "basic"
    BY <1>2 DEF Authority
  <1> QED
    BY <1>1, <1>2

(* Nobody decides in favour of no claim. *)
LEMMA NothingHeld ==
  ASSUME TypeOK, NEW q \in Requests, Holds(q)
  PROVE  Asked(q) # NoClaim
  <1>1. Authority(config, accounts) \in SUBSET Claims
    BY AuthorityType DEF TypeOK
  <1> QED
    BY <1>1, ClaimAssumption DEF Holds

-----------------------------------------------------------------------------
(* STEPS *)

LEMMA InitInv == Init => IInv
  <1> SUFFICES ASSUME Init PROVE IInv
    OBVIOUS
  <1>1. TypeOK
    BY ConfigAssumption, ChangeAssumption DEF Init, TypeOK, PCs
  <1>2. ASSUME NEW q \in Requests PROVE CallInv(q)
    <2>1. pc[q] = "idle" /\ answer[q] = "none" /\ verdict[q] = "none"
      BY DEF Init
    <2> QED
      BY <2>1 DEF CallInv, History, Progress, Outcome, Active
  <1> QED
    BY <1>1, <1>2 DEF IInv, Init

LEMMA BuildInv == IInv /\ Build => IInv'
  <1> SUFFICES ASSUME IInv, Build PROVE IInv'
    OBVIOUS
  <1>1. /\ config' \in BasicConfigs \cup LDAPConfigs \cup HttpConfigs
        /\ Valid(config')
    BY KeptValid DEF IInv, TypeOK, Build
  <1>2. TypeOK'
    BY <1>1 DEF IInv, TypeOK, Build, remote
  <1>3. ASSUME NEW q \in Requests PROVE CallInv(q)'
    <2>1. pc[q] = "idle" /\ pc'[q] = "idle" /\ answer'[q] = "none" /\ verdict'[q] = "none"
      BY DEF IInv, CallInv, Progress, Build, TypeOK
    <2> QED
      BY <2>1 DEF CallInv, History, Progress, Outcome, Active
  <1> QED
    BY <1>1, <1>2, <1>3 DEF IInv

LEMMA RefuseInv == IInv /\ Refuse => IInv'
  <1> SUFFICES ASSUME IInv, Refuse PROVE IInv'
    OBVIOUS
  <1>1. TypeOK'
    BY DEF IInv, TypeOK, Refuse, remote
  <1>2. ASSUME NEW q \in Requests PROVE CallInv(q)'
    <2>1. pc[q] = "idle" /\ pc'[q] = "idle" /\ answer'[q] = "none" /\ verdict'[q] = "none"
      BY DEF IInv, CallInv, Progress, Refuse, TypeOK
    <2> QED
      BY <2>1 DEF CallInv, History, Progress, Outcome, Active
  <1> QED
    BY <1>1, <1>2 DEF IInv, Refuse

LEMMA ServerInv ==
  ASSUME IInv, NEW condition \in {"up", "closed", "mute", "gone"},
         NEW accepted \in SUBSET Claims, ServerChanges(condition, accepted)
  PROVE  IInv'
  <1> USE DEF ServerChanges
  <1>1. TypeOK'
    BY ChangeAssumption DEF IInv, TypeOK
  <1>2. ASSUME NEW q \in Requests PROVE CallInv(q)'
    <2> DEFINE holds == Asked(q) \in Authority(config, accepted)
               own   == claim[q] \in Authority(config, accepted)
    <2>1. CallInv(q)
      BY DEF IInv
    <2>2. /\ pc'[q] = pc[q] /\ answer'[q] = answer[q] /\ verdict'[q] = verdict[q]
          /\ claim'[q] = claim[q] /\ config' = config /\ phase' = phase /\ server' = condition
      OBVIOUS
    <2>3. vouched'[q] = (vouched[q] \/ (Active(q) /\ own))
      BY DEF Active
    <2>4. steady'[q] = (steady[q] /\ (pc[q] = "done" \/ (holds /\ (config.kind = "basic" \/ condition = "up"))))
      OBVIOUS
    <2>5. (Holds(q)' <=> holds) /\ (Own' <=> Own) /\ (Own => (own <=> holds))
      BY <2>2 DEF Holds, Asked, Own
    <2>6. (Active(q)' <=> Active(q)) /\ (Excluded(q)' <=> Excluded(q))
      BY <2>2 DEF Active, Excluded
    <2>7. vouched[q] \in BOOLEAN /\ steady[q] \in BOOLEAN
      BY DEF IInv, TypeOK
    <2> HIDE DEF holds, own, ServerChanges
    <2>8. History(q)'
      <3>1. vouched[q] => vouched'[q]
        BY <2>3, <2>7
      <3>2. steady'[q] => steady[q]
        BY <2>4, <2>7
      <3>3. Active(q)' /\ Own' /\ Holds(q)' => vouched'[q]
        BY <2>3, <2>5, <2>6, <2>7
      <3>4. Active(q)' /\ steady'[q] => Holds(q)' /\ (config'.kind = "basic" \/ server' = "up")
        BY <2>2, <2>4, <2>5, <2>6, <2>7 DEF Active
      <3> QED
        BY <2>1, <2>2, <2>5, <3>1, <3>2, <3>3, <3>4 DEF CallInv, History
    <2>9. Progress(q)'
      BY <2>1, <2>2, <2>5, <2>6 DEF CallInv, Progress
    <2>10. Outcome(q)'
      <3>1. steady'[q] => steady[q]
        BY <2>4, <2>7
      <3> QED
        BY <2>1, <2>2, <2>6, <3>1 DEF CallInv, Outcome
    <2> QED
      BY <2>8, <2>9, <2>10 DEF CallInv
  <1> QED
    BY <1>1, <1>2 DEF IInv

(* A step of one call leaves the others as they are. *)
Untouched(q) ==
  \A r \in Requests \ {q} :
    /\ pc'[r] = pc[r] /\ claim'[r] = claim[r] /\ answer'[r] = answer[r]
    /\ verdict'[r] = verdict[r] /\ vouched'[r] = vouched[r] /\ steady'[r] = steady[r]

LEMMA Framed ==
  ASSUME IInv, NEW q \in Requests, Untouched(q), UNCHANGED <<config, phase, remote>>,
         TypeOK', CallInv(q)'
  PROVE  IInv'
  <1>1. ASSUME NEW r \in Requests \ {q} PROVE CallInv(r)'
    <2>1. CallInv(r)
      BY DEF IInv
    <2>2. /\ pc'[r] = pc[r] /\ claim'[r] = claim[r] /\ answer'[r] = answer[r]
          /\ verdict'[r] = verdict[r] /\ vouched'[r] = vouched[r] /\ steady'[r] = steady[r]
          /\ config' = config /\ phase' = phase /\ server' = server /\ accounts' = accounts
      BY DEF Untouched, remote
    <2>3. /\ (Holds(r)' <=> Holds(r)) /\ (Active(r)' <=> Active(r))
          /\ (Excluded(r)' <=> Excluded(r)) /\ (Own' <=> Own)
      BY <2>2, AskedStays DEF Holds, Active, Excluded, Own
    <2>4. History(r)'
      BY <2>1, <2>2, <2>3 DEF CallInv, History
    <2>5. Progress(r)'
      BY <2>1, <2>2, <2>3 DEF CallInv, Progress
    <2>6. Outcome(r)'
      BY <2>1, <2>2, <2>3 DEF CallInv, Outcome
    <2> QED
      BY <2>4, <2>5, <2>6 DEF CallInv
  <1>2. phase' = "built" => Valid(config')
    BY DEF IInv
  <1> QED
    BY <1>1, <1>2 DEF IInv

LEMMA BeginInv ==
  ASSUME IInv, NEW q \in Requests, NEW h \in Headers, Begin(q, h)
  PROVE  IInv'
  <1> DEFINE c == GetBasicAuth(h)
  <1>1. c \in Claims \cup {NoClaim}
    BY HeaderType
  <1>2. /\ pc[q] = "idle" /\ pc'[q] = "start" /\ phase' = "built" /\ claim'[q] = c
        /\ answer'[q] = answer[q] /\ verdict'[q] = verdict[q]
        /\ vouched'[q] = (c \in Authority(config, accounts))
        /\ steady'[q] = (Holds(q)' /\ (config.kind = "basic" \/ server = "up"))
    BY DEF IInv, TypeOK, Begin, Local
  <1>3. UNCHANGED <<config, phase, remote>> /\ Untouched(q)
    BY DEF IInv, TypeOK, Begin, Local, Untouched
  <1> HIDE DEF c
  <1>4. TypeOK'
    <2>1. claim' \in [Requests -> Claims \cup {NoClaim}]
      BY <1>1 DEF IInv, TypeOK, Begin, c
    <2>2. pc' \in [Requests -> PCs]
      BY DEF IInv, TypeOK, Begin, Local, PCs
    <2>3. vouched' \in [Requests -> BOOLEAN] /\ steady' \in [Requests -> BOOLEAN]
      BY DEF IInv, TypeOK, Begin
    <2> QED
      BY <1>3, <2>1, <2>2, <2>3 DEF IInv, TypeOK, Begin, remote
  <1>5. CallInv(q)'
    <2>1. answer[q] = "none" /\ verdict[q] = "none"
      BY <1>2 DEF IInv, CallInv, Progress, TypeOK
    <2>2. Own' => (Holds(q)' <=> c \in Authority(config, accounts))
      BY <1>2, <1>3 DEF Holds, Asked, Own, remote
    <2>3. config' = config /\ server' = server
      BY <1>3 DEF remote
    <2> QED
      BY <1>2, <2>1, <2>2, <2>3 DEF CallInv, History, Progress, Outcome, Active
  <1> QED
    BY <1>3, <1>4, <1>5, Framed

(* A call that moves on and changes nothing else. *)
LEMMA GoesInv ==
  ASSUME IInv, NEW q \in Requests, NEW from \in PCs \ {"idle", "done", "answered"},
         NEW to \in {"dialing", "handshake", "connected", "asking"},
         Goes(q, from, to), Own => claim[q] # NoClaim, config.kind # "basic",
         to = "asking" => ~Excluded(q)
  PROVE  IInv'
  <1>1. /\ pc[q] = from /\ pc'[q] = to /\ claim'[q] = claim[q] /\ answer'[q] = answer[q]
        /\ verdict'[q] = verdict[q] /\ vouched'[q] = vouched[q] /\ steady'[q] = steady[q]
    BY DEF IInv, TypeOK, Goes, Local
  <1>2. UNCHANGED <<config, phase, remote>> /\ Untouched(q)
    BY DEF IInv, TypeOK, Goes, Local, Untouched
  <1>3. TypeOK'
    <2>1. pc' \in [Requests -> PCs]
      BY DEF IInv, TypeOK, Goes, Local, PCs
    <2> QED
      BY <1>2, <2>1 DEF IInv, TypeOK, Goes, remote
  <1>4. CallInv(q)'
    <2>1. CallInv(q)
      BY DEF IInv
    <2>2. /\ (Holds(q)' <=> Holds(q)) /\ (Excluded(q)' <=> Excluded(q)) /\ (Own' <=> Own)
          /\ Active(q) /\ Active(q)'
      BY <1>1, <1>2, AskedStays DEF Holds, Excluded, Own, Active, remote
    <2>3. config' = config /\ server' = server /\ phase' = phase
      BY <1>2 DEF remote
    <2>4. answer[q] = "none" /\ verdict[q] = "none"
      BY <1>1, <2>1 DEF CallInv, Progress, PCs, IInv, TypeOK
    <2>5. History(q)'
      BY <1>1, <2>1, <2>2, <2>3 DEF CallInv, History
    <2>6. Progress(q)'
      BY <1>1, <2>1, <2>2, <2>3, <2>4 DEF CallInv, Progress
    <2>7. Outcome(q)'
      BY <1>1, <2>4 DEF Outcome
    <2> QED
      BY <2>5, <2>6, <2>7 DEF CallInv
  <1> QED
    BY <1>2, <1>3, <1>4, Framed

(* The instant an answer is given. *)
LEMMA AnswersInv ==
  ASSUME IInv, NEW q \in Requests, NEW from \in {"start", "asking"}, Answers(q, from),
         Own => claim[q] # NoClaim, ~Excluded(q)
  PROVE  IInv'
  <1>1. /\ pc[q] = from /\ pc'[q] = "answered" /\ claim'[q] = claim[q]
        /\ answer'[q] = IF Holds(q) THEN "yes" ELSE "no"
        /\ verdict'[q] = verdict[q] /\ vouched'[q] = vouched[q] /\ steady'[q] = steady[q]
    BY DEF IInv, TypeOK, Answers, Local
  <1>2. UNCHANGED <<config, phase, remote>> /\ Untouched(q)
    BY DEF IInv, TypeOK, Answers, Local, Untouched
  <1>3. TypeOK'
    <2>1. pc' \in [Requests -> PCs] /\ answer' \in [Requests -> {"none", "yes", "no"}]
      BY DEF IInv, TypeOK, Answers, Local, PCs
    <2> QED
      BY <1>2, <2>1 DEF IInv, TypeOK, Answers, remote
  <1>4. CallInv(q)'
    <2>1. CallInv(q)
      BY DEF IInv
    <2>2. /\ (Holds(q)' <=> Holds(q)) /\ (Excluded(q)' <=> Excluded(q)) /\ (Own' <=> Own)
          /\ Active(q) /\ Active(q)'
      BY <1>1, <1>2, AskedStays DEF Holds, Excluded, Own, Active, remote
    <2>3. config' = config /\ server' = server /\ phase' = phase
      BY <1>2 DEF remote
    <2>4. verdict[q] = "none"
      BY <1>1, <2>1 DEF CallInv, Progress
    <2>5. History(q)'
      BY <1>1, <2>1, <2>2, <2>3 DEF CallInv, History
    <2>6. Progress(q)'
      BY <1>1, <2>1, <2>2, <2>3, <2>4 DEF CallInv, Progress
    <2>7. Outcome(q)'
      BY <1>1, <2>4 DEF Outcome
    <2> QED
      BY <2>5, <2>6, <2>7 DEF CallInv
  <1> QED
    BY <1>2, <1>3, <1>4, Framed

(* A call that returns, with a verdict its answer or a failure warrants. *)
LEMMA ReturnsInv ==
  ASSUME IInv, NEW q \in Requests, NEW from \in PCs \ {"idle", "done"},
         NEW result \in {"ok", "deny"}, Returns(q, from, result),
         steady' = steady \/ steady' = [steady EXCEPT ![q] = FALSE],
         result = "ok" => answer[q] = "yes" /\ ~Excluded(q),
         result = "deny" => \/ ~steady'[q]
                            \/ Excluded(q)
                            \/ config.kind = "http" /\ ~Sendable(config)
  PROVE  IInv'
  <1>1. /\ pc[q] = from /\ pc'[q] = "done" /\ claim'[q] = claim[q] /\ answer'[q] = answer[q]
        /\ verdict'[q] = result /\ vouched'[q] = vouched[q]
    BY DEF IInv, TypeOK, Returns, Local
  <1>2. UNCHANGED <<config, phase, remote>> /\ Untouched(q) /\ (steady'[q] => steady[q])
    BY DEF IInv, TypeOK, Returns, Local, Untouched
  <1>3. TypeOK'
    <2>1. pc' \in [Requests -> PCs] /\ verdict' \in [Requests -> {"none", "ok", "deny"}]
          /\ steady' \in [Requests -> BOOLEAN]
      BY DEF IInv, TypeOK, Returns, Local, PCs
    <2> QED
      BY <1>2, <2>1 DEF IInv, TypeOK, Returns, remote
  <1>4. CallInv(q)'
    <2>1. CallInv(q)
      BY DEF IInv
    <2>2. (Excluded(q)' <=> Excluded(q)) /\ ~Active(q)' /\ (Own' <=> Own)
      BY <1>1, <1>2 DEF Excluded, Active, Own
    <2>3. config' = config /\ phase' = phase
      BY <1>2
    <2>4. History(q)'
      BY <1>1, <1>2, <2>1, <2>2 DEF CallInv, History
    <2>5. Progress(q)'
      BY <1>1, <2>1, <2>2, <2>3 DEF CallInv, Progress
    <2>6. Outcome(q)'
      BY <1>1, <2>2, <2>3 DEF Outcome
    <2> QED
      BY <2>4, <2>5, <2>6 DEF CallInv
  <1> QED
    BY <1>2, <1>3, <1>4, Framed

LEMMA RunsInv ==
  ASSUME IInv, NEW q \in Requests, Runs(q)
  PROVE  IInv'
  <1>1. CallInv(q) /\ TypeOK
    BY DEF IInv
  <1>2. CASE HeaderInvalid(q)
    <2>1. pc[q] = "start" /\ Active(q) /\ Returns(q, "start", "deny") /\ steady' = steady
      BY <1>2 DEF HeaderInvalid, Denies, Returns, Local, Active
    <2>2. ~steady[q]
      BY <1>1, <1>2, <2>1, NothingHeld DEF HeaderInvalid, CallInv, History, Asked
    <2> QED
      BY <2>1, <2>2, ReturnsInv DEF PCs
  <1>3. CASE BasicCompares(q)
    <2>1. Answers(q, "start") /\ claim[q] # NoClaim /\ ~Excluded(q)
      BY <1>3 DEF BasicCompares, Excluded
    <2> QED
      BY <2>1, AnswersInv
  <1>4. CASE Dial(q)
    <2>1. pc[q] = "start" /\ phase = "built"
      BY <1>1, <1>4 DEF Dial, Goes, Local, CallInv, Progress
    <2>2. config.kind = "ldap" => config.network # "udp"
      BY <2>1 DEF IInv, Valid, Network
    <2>3. Goes(q, "start", "dialing") /\ (Own => claim[q] # NoClaim) /\ config.kind # "basic"
      BY <1>4, <2>2 DEF Dial, Own
    <2> QED
      BY <2>3, GoesInv DEF PCs
  <1>5. CASE NotSent(q)
    <2>1. Returns(q, "start", "deny") /\ steady' = steady /\ config.kind = "http" /\ ~Sendable(config)
      BY <1>5 DEF NotSent, Denies
    <2> QED
      BY <2>1, ReturnsInv DEF PCs
  <1>6. CASE NotListed(q)
    <2>1. pc[q] = "connected" /\ Returns(q, "connected", "deny") /\ steady' = steady
      BY <1>6 DEF NotListed, Denies, Returns, Local
    <2>2. Excluded(q)
      BY <1>1, <1>6, <2>1, ListsExact DEF NotListed, CallInv, Progress, Own
    <2> QED
      BY <2>1, <2>2, ReturnsInv DEF PCs
  <1>7. CASE Ask(q)
    <2>1. pc[q] = "connected" /\ Goes(q, "connected", "asking")
      BY <1>7 DEF Ask, Goes, Local
    <2>2. (Own => claim[q] # NoClaim) /\ config.kind # "basic"
      BY <1>1, <2>1 DEF CallInv, Progress
    <2>3. ~Excluded(q)
      <3>1. CASE config.kind = "ldap"
        BY <1>7, <2>2, <3>1, ListsExact DEF Ask, Own
      <3>2. CASE config.kind # "ldap"
        BY <3>2 DEF Excluded
      <3> QED
        BY <3>1, <3>2
    <2> QED
      BY <2>1, <2>2, <2>3, GoesInv DEF PCs
  <1>8. CASE Decide(q)
    <2>1. pc[q] = "answered" /\ Returns(q, "answered", Verdict(answer[q])) /\ steady' = steady
      BY <1>8 DEF Decide, Returns, Local
    <2>2. answer[q] \in {"yes", "no"} /\ ~Excluded(q)
      BY <1>1, <2>1 DEF CallInv, Progress, TypeOK
    <2>3. CASE answer[q] = "yes"
      <3>1. Verdict(answer[q]) = "ok"
        BY <2>3 DEF Verdict
      <3> QED
        BY <2>1, <2>2, <2>3, <3>1, ReturnsInv DEF PCs
    <2>4. CASE answer[q] = "no"
      <3>1. Verdict(answer[q]) = "deny" /\ ~steady[q]
        BY <1>1, <2>4 DEF Verdict, CallInv, History
      <3> QED
        BY <2>1, <3>1, ReturnsInv DEF PCs
    <2> QED
      BY <2>2, <2>3, <2>4
  <1> QED
    BY <1>2, <1>3, <1>4, <1>5, <1>6, <1>7, <1>8 DEF Runs

LEMMA HearsInv ==
  ASSUME IInv, NEW q \in Requests, Hears(q) \/ Breaks(q)
  PROVE  IInv'
  <1>1. CallInv(q) /\ TypeOK
    BY DEF IInv
  <1>2. ASSUME pc[q] \in {"dialing", "handshake", "connected", "asking"}
        PROVE  /\ Own => claim[q] # NoClaim
               /\ config.kind # "basic"
               /\ steady[q] => server = "up"
    BY <1>1, <1>2 DEF CallInv, Progress, History, Active
  <1>3. CASE Connected(q)
    <2>1. pc[q] = "dialing"
      BY <1>3 DEF Connected, Goes, Local
    <2>2. Goes(q, "dialing", "handshake") \/ Goes(q, "dialing", "connected")
      BY <1>3 DEF Connected
    <2> QED
      BY <1>2, <2>1, <2>2, GoesInv DEF PCs
  <1>4. CASE DialRefused(q)
    <2>1. pc[q] = "dialing" /\ server = "closed"
      BY <1>4 DEF DialRefused, Denies, Returns, Local
    <2>2. Returns(q, "dialing", "deny") /\ steady' = steady
      BY <1>4 DEF DialRefused, Denies
    <2>3. ~steady[q]
      BY <1>2, <2>1
    <2> QED
      BY <2>2, <2>3, ReturnsInv DEF PCs
  <1>5. CASE DialTimesOut(q)
    <2>1. Returns(q, "dialing", "deny") /\ steady' = steady /\ server = "gone"
      BY <1>5 DEF DialTimesOut, Denies
    <2>2. pc[q] = "dialing"
      BY <2>1 DEF Returns, Local
    <2>3. ~steady[q]
      BY <1>2, <2>1, <2>2
    <2> QED
      BY <2>1, <2>3, ReturnsInv DEF PCs
  <1>6. CASE Handshake(q)
    <2>1. pc[q] = "handshake" /\ Goes(q, "handshake", "connected")
      BY <1>6 DEF Handshake, Goes, Local
    <2> QED
      BY <1>2, <2>1, GoesInv DEF PCs
  <1>7. CASE ServerAnswers(q)
    <2>1. pc[q] = "asking" /\ Answers(q, "asking")
      BY <1>7 DEF ServerAnswers, Answers, Local
    <2>2. ~Excluded(q)
      BY <1>1, <2>1 DEF CallInv, Progress
    <2> QED
      BY <1>2, <2>1, <2>2, AnswersInv
  <1>8. CASE Breaks(q)
    <2>1. PICK from \in {"handshake", "asking", "answered"} : Returns(q, from, "deny")
      BY <1>8 DEF Breaks
    <2>2. steady' = [steady EXCEPT ![q] = FALSE] /\ ~steady'[q]
      BY <1>1, <1>8 DEF Breaks, TypeOK
    <2> QED
      BY <2>1, <2>2, ReturnsInv DEF PCs
  <1> QED
    BY <1>3, <1>4, <1>5, <1>6, <1>7, <1>8 DEF Hears

LEMMA NextInv == IInv /\ [Next]_vars => IInv'
  <1> SUFFICES ASSUME IInv, [Next]_vars PROVE IInv'
    OBVIOUS
  <1>1. CASE Build
    BY <1>1, BuildInv
  <1>2. CASE Refuse
    BY <1>2, RefuseInv
  <1>3. CASE Fails
    <2>1. accounts \in SUBSET Claims
      BY DEF IInv, TypeOK
    <2> QED
      BY <1>3, <2>1, ServerInv DEF Fails
  <1>4. CASE Revises
    <2>1. server \in {"up", "closed", "mute", "gone"}
      BY DEF IInv, TypeOK
    <2> QED
      BY <1>4, <2>1, ServerInv, ChangeAssumption DEF Revises
  <1>5. ASSUME NEW q \in Requests, NEW h \in Headers, Begin(q, h) PROVE IInv'
    BY <1>5, BeginInv
  <1>6. ASSUME NEW q \in Requests, Runs(q) PROVE IInv'
    BY <1>6, RunsInv
  <1>7. ASSUME NEW q \in Requests, Hears(q) \/ Breaks(q) PROVE IInv'
    BY <1>7, HearsInv
  <1>8. CASE UNCHANGED vars
    <2>1. TypeOK'
      BY <1>8 DEF IInv, TypeOK, vars, remote
    <2>2. ASSUME NEW q \in Requests PROVE CallInv(q)'
      BY <1>8 DEF IInv, CallInv, History, Progress, Outcome, Active, Own, Holds,
                     Asked, Excluded, vars, remote
    <2> QED
      BY <1>8, <2>1, <2>2 DEF IInv, vars
  <1> QED
    BY <1>1, <1>2, <1>3, <1>4, <1>5, <1>6, <1>7, <1>8 DEF Next

THEOREM Invariance == Spec => []IInv
  BY InitInv, NextInv, PTL DEF Spec

-----------------------------------------------------------------------------
(* THEOREMS *)

(* The types hold, and no call uses a connection that is nil.              *)
THEOREM TypeCorrect == Spec => []TypeOK
  <1>1. IInv => TypeOK
    BY DEF IInv
  <1> QED
    BY <1>1, Invariance, PTL

(* Authorize of basic and ldap returns no error only if the credentials of *)
(* the request held during the call, and the lists admit the user.         *)
THEOREM AllowedWarranted == Spec => []AllowedIsWarranted
  <1>1. IInv => AllowedIsWarranted
    BY DEF IInv, CallInv, History, Own, Outcome, AllowedIsWarranted
  <1> QED
    BY <1>1, Invariance, PTL

(* Authorize returns an error only for a reason.                           *)
THEOREM RefusalsHaveReasons == Spec => []NoFalseRefusal
  <1>1. IInv => NoFalseRefusal
    BY DEF IInv, CallInv, Outcome, NoFalseRefusal
  <1> QED
    BY <1>1, Invariance, PTL

-----------------------------------------------------------------------------
(* REFINEMENT *)

(* A step of one call is a step of the gate, or not seen by it. *)
LEMMA CallSeen ==
  ASSUME NEW q \in Requests, Untouched(q), UNCHANGED <<config, phase, remote, claim>>,
         NEW from, NEW to, Stage(q) = from, Stage(q)' = to,
         pc[q] # "idle", pc'[q] # "idle"
  PROVE  /\ G!Step(q, from, to)
         /\ UNCHANGED [r \in Requests |-> Asked(r)]
         /\ from = to => UNCHANGED G!gvars
  <1> DEFINE S == [r \in Requests |-> Stage(r)]
  <1>1. \A r \in Requests \ {q} : Stage(r)' = Stage(r)
    BY DEF Untouched, Stage
  <1>2. S' = [S EXCEPT ![q] = to] /\ S[q] = from
    BY <1>1
  <1>3. Authority(config, accounts)' = Authority(config, accounts)
    BY DEF remote
  <1>4. [r \in Requests |-> Asked(r)]' = [r \in Requests |-> Asked(r)]
    BY AskedStays DEF Untouched
  <1> QED
    BY <1>2, <1>3, <1>4 DEF G!Step, G!gvars

LEMMA GoesSeen ==
  ASSUME IInv, NEW q \in Requests, NEW from \in {"start", "dialing", "handshake", "connected"},
         NEW to \in {"dialing", "handshake", "connected", "asking"}, Goes(q, from, to)
  PROVE  UNCHANGED G!gvars
  <1>1. UNCHANGED <<config, phase, remote, claim>> /\ Untouched(q)
    BY DEF IInv, TypeOK, Goes, Local, Untouched
  <1>2. pc[q] = from /\ pc'[q] = to
    BY DEF IInv, TypeOK, Goes, Local
  <1>3. Stage(q) = "in" /\ Stage(q)' = "in"
    BY <1>2 DEF Stage
  <1> QED
    BY <1>1, <1>2, <1>3, CallSeen

LEMMA AnswersSeen ==
  ASSUME IInv, NEW q \in Requests, NEW from \in {"start", "asking"}, Answers(q, from)
  PROVE  G!Grant(q) \/ UNCHANGED G!gvars
  <1>1. UNCHANGED <<config, phase, remote, claim>> /\ Untouched(q)
    BY DEF IInv, TypeOK, Answers, Local, Untouched
  <1>2. /\ pc[q] = from /\ pc'[q] = "answered"
        /\ answer'[q] = IF Holds(q) THEN "yes" ELSE "no"
    BY DEF IInv, TypeOK, Answers, Local
  <1>3. Stage(q) = "in"
    BY <1>2 DEF Stage
  <1>4. CASE Holds(q)
    <2>1. Stage(q)' = "granted"
      BY <1>2, <1>4 DEF Stage
    <2> QED
      BY <1>1, <1>2, <1>3, <1>4, <2>1, CallSeen DEF G!Grant, Holds
  <1>5. CASE ~Holds(q)
    <2>1. Stage(q)' = "in"
      BY <1>2, <1>5 DEF Stage
    <2> QED
      BY <1>1, <1>2, <1>3, <2>1, CallSeen
  <1> QED
    BY <1>4, <1>5

LEMMA ReturnsSeen ==
  ASSUME IInv, NEW q \in Requests, NEW from \in PCs \ {"idle", "done"},
         NEW result \in {"ok", "deny"}, Returns(q, from, result),
         steady' = steady \/ steady' = [steady EXCEPT ![q] = FALSE],
         result = "ok" => from = "answered" /\ answer[q] = "yes"
  PROVE  G!Allow(q) \/ G!Deny(q)
  <1>1. UNCHANGED <<config, phase, remote, claim>> /\ Untouched(q)
    BY DEF IInv, TypeOK, Returns, Local, Untouched
  <1>2. pc[q] = from /\ pc'[q] = "done" /\ verdict'[q] = result
    BY DEF IInv, TypeOK, Returns, Local
  <1>3. Stage(q) \in {"in", "granted"}
    BY <1>2 DEF Stage, PCs
  <1>4. CASE result = "ok"
    <2>1. Stage(q) = "granted" /\ Stage(q)' = "allowed"
      BY <1>2, <1>4 DEF Stage
    <2> QED
      BY <1>1, <1>2, <2>1, CallSeen DEF G!Allow, PCs
  <1>5. CASE result = "deny"
    <2>1. Stage(q)' = "denied"
      BY <1>2, <1>5 DEF Stage
    <2> QED
      BY <1>1, <1>2, <1>3, <2>1, CallSeen DEF G!Deny, PCs
  <1> QED
    BY <1>4, <1>5

LEMMA BeginSeen ==
  ASSUME IInv, IInv', NEW q \in Requests, NEW h \in Headers, Begin(q, h)
  PROVE  G!Enter(q)
  <1> DEFINE S == [r \in Requests |-> Stage(r)]
  <1>1. \A r \in Requests \ {q} : Stage(r)' = Stage(r)
    BY DEF IInv, TypeOK, Begin, Local, Stage
  <1>2. Stage(q) = "out" /\ Stage(q)' = "in"
    BY DEF IInv, TypeOK, Begin, Local, Stage
  <1>3. S' = [S EXCEPT ![q] = "in"] /\ S[q] = "out"
    BY <1>1, <1>2
  <1>4. Authority(config, accounts)' = Authority(config, accounts)
    BY DEF Begin, Local, remote
  <1> DEFINE A == [r \in Requests |-> Asked(r)]
  <1>5. \A r \in Requests \ {q} : Asked(r)' = Asked(r)
    BY AskedStays DEF IInv, TypeOK, Begin, Local
  <1>6. A' = [A EXCEPT ![q] = Asked(q)']
    BY <1>5
  <1>7. Asked(q)' \in Claims \cup {NoClaim}
    BY ClaimAssumption DEF IInv, TypeOK, Asked, Told, Claims
  <1> QED
    BY <1>3, <1>4, <1>6, <1>7 DEF G!Enter, G!Step

(* The server and the factory: no call moves. *)
LEMMA ChangeSeen ==
  ASSUME IInv', UNCHANGED <<pc, answer, verdict, claim>>,
         config' = config \/ \A q \in Requests : pc[q] = "idle"
  PROVE  G!Change
  <1>1. /\ [r \in Requests |-> Stage(r)]' = [r \in Requests |-> Stage(r)]
        /\ [r \in Requests |-> Asked(r)]' = [r \in Requests |-> Asked(r)]
    BY DEF Stage, Asked
  <1>2. Authority(config, accounts)' \in SUBSET Claims
    BY AuthorityType DEF IInv, TypeOK
  <1> QED
    BY <1>1, <1>2 DEF G!Change

LEMMA RunsSeen ==
  ASSUME IInv, NEW q \in Requests, Runs(q)
  PROVE  [G!GNext]_G!gvars
  <1>1. CASE HeaderInvalid(q)
    BY <1>1, ReturnsSeen DEF HeaderInvalid, Denies, PCs, G!GNext
  <1>2. CASE BasicCompares(q)
    BY <1>2, AnswersSeen DEF BasicCompares, G!GNext
  <1>3. CASE Dial(q)
    <2>1. pc[q] = "start" /\ phase = "built"
      BY <1>3 DEF Dial, Goes, Local, IInv, CallInv, Progress
    <2>2. config.kind = "ldap" => config.network # "udp"
      BY <2>1 DEF IInv, Valid, Network
    <2>3. Goes(q, "start", "dialing")
      BY <1>3, <2>2 DEF Dial
    <2> QED
      BY <2>3, GoesSeen
  <1>4. CASE NotSent(q)
    BY <1>4, ReturnsSeen DEF NotSent, Denies, PCs, G!GNext
  <1>5. CASE NotListed(q)
    BY <1>5, ReturnsSeen DEF NotListed, Denies, PCs, G!GNext
  <1>6. CASE Ask(q)
    BY <1>6, GoesSeen DEF Ask
  <1>7. CASE Decide(q)
    <2>1. Verdict(answer[q]) = "ok" => answer[q] = "yes"
      BY DEF Verdict
    <2>2. Verdict(answer[q]) \in {"ok", "deny"}
      BY DEF Verdict
    <2> QED
      BY <1>7, <2>1, <2>2, ReturnsSeen DEF Decide, PCs, G!GNext
  <1> QED
    BY <1>1, <1>2, <1>3, <1>4, <1>5, <1>6, <1>7 DEF Runs

LEMMA HearsSeen ==
  ASSUME IInv, NEW q \in Requests, Hears(q) \/ Breaks(q)
  PROVE  [G!GNext]_G!gvars
  <1>1. CASE Connected(q)
    <2>1. Goes(q, "dialing", "handshake") \/ Goes(q, "dialing", "connected")
      BY <1>1 DEF Connected
    <2> QED
      BY <2>1, GoesSeen
  <1>2. CASE DialRefused(q)
    BY <1>2, ReturnsSeen DEF DialRefused, Denies, PCs, G!GNext
  <1>3. CASE DialTimesOut(q)
    BY <1>3, ReturnsSeen DEF DialTimesOut, Denies, PCs, G!GNext
  <1>4. CASE Handshake(q)
    BY <1>4, GoesSeen DEF Handshake
  <1>5. CASE ServerAnswers(q)
    BY <1>5, AnswersSeen DEF ServerAnswers, G!GNext
  <1>6. CASE Breaks(q)
    <2>1. PICK from \in {"handshake", "asking", "answered"} : Returns(q, from, "deny")
      BY <1>6 DEF Breaks
    <2>2. steady' = [steady EXCEPT ![q] = FALSE]
      BY <1>6 DEF Breaks
    <2> QED
      BY <2>1, <2>2, ReturnsSeen DEF PCs, G!GNext
  <1> QED
    BY <1>1, <1>2, <1>3, <1>4, <1>5, <1>6 DEF Hears

LEMMA StepSeen == IInv /\ IInv' /\ [Next]_vars => [G!GNext]_G!gvars
  <1> SUFFICES ASSUME IInv, IInv', [Next]_vars PROVE [G!GNext]_G!gvars
    OBVIOUS
  <1>1. CASE Build \/ Refuse \/ Fails \/ Revises
    <2>1. UNCHANGED <<pc, answer, verdict, claim>>
      BY <1>1 DEF Build, Refuse, Fails, Revises, ServerChanges
    <2>2. config' = config \/ \A q \in Requests : pc[q] = "idle"
      BY <1>1 DEF Build, Refuse, Fails, Revises, ServerChanges, IInv, CallInv, Progress
    <2> QED
      BY <2>1, <2>2, ChangeSeen DEF G!GNext
  <1>2. ASSUME NEW q \in Requests, NEW h \in Headers, Begin(q, h) PROVE [G!GNext]_G!gvars
    BY <1>2, BeginSeen DEF G!GNext
  <1>3. ASSUME NEW q \in Requests, Runs(q) PROVE [G!GNext]_G!gvars
    BY <1>3, RunsSeen
  <1>4. ASSUME NEW q \in Requests, Hears(q) \/ Breaks(q) PROVE [G!GNext]_G!gvars
    BY <1>4, HearsSeen
  <1>5. CASE UNCHANGED vars
    BY <1>5, ChangeSeen DEF vars, G!GNext
  <1> QED
    BY <1>1, <1>2, <1>3, <1>4, <1>5 DEF Next

LEMMA InitSeen == Init => G!GInit
  <1> SUFFICES ASSUME Init PROVE G!GInit
    OBVIOUS
  <1>1. [r \in Requests |-> Stage(r)] = [r \in Requests |-> "out"]
    BY DEF Init, Stage
  <1>2. Authority(config, accounts) \in SUBSET Claims
    BY AuthorityType, ConfigAssumption, ChangeAssumption DEF Init
  <1>3. [r \in Requests |-> Asked(r)] = [r \in Requests |-> NoClaim]
    BY DEF Init, Asked
  <1> QED
    BY <1>1, <1>2, <1>3 DEF G!GInit, Init

(* The authorizers implement the gate the handler relies on.               *)
THEOREM Implements == Spec => Refinement
  BY InitSeen, StepSeen, Invariance, PTL DEF Spec, Refinement, G!GSpec

-----------------------------------------------------------------------------
(* HOW LONG A CALL CAN TAKE *)

Ahead == [start |-> 6, dialing |-> 5, handshake |-> 4, connected |-> 3,
          asking |-> 2, answered |-> 1, done |-> 0]

Advances(q) ==
  \/ UNCHANGED <<pc[q], claim[q], answer[q], verdict[q]>>
  \/ pc[q] = "idle" /\ pc'[q] = "start"
  \/ pc[q] # "idle" /\ Ahead[pc'[q]] < Ahead[pc[q]]

TakesSixSteps == [][\A q \in Requests : Advances(q)]_vars

(* A step of one call leaves the others alone. *)
LEMMA OthersStay ==
  ASSUME TypeOK, NEW r \in Requests, NEW q \in Requests, q # r,
         (\E h \in Headers : Begin(r, h)) \/ Runs(r) \/ Hears(r) \/ Breaks(r)
  PROVE  UNCHANGED <<pc[q], claim[q], answer[q], verdict[q]>>
  <1> USE DEF TypeOK, Local
  <1>1. ASSUME NEW h \in Headers, Begin(r, h)
        PROVE  UNCHANGED <<pc[q], claim[q], answer[q], verdict[q]>>
    BY <1>1 DEF Begin
  <1>2. CASE Runs(r)
    BY <1>2 DEF Runs, HeaderInvalid, BasicCompares, Dial, NotSent, NotListed, Ask, Decide,
                Denies, Returns, Goes, Answers
  <1>3. CASE Hears(r) \/ Breaks(r)
    BY <1>3 DEF Hears, Connected, DialRefused, DialTimesOut, Handshake, ServerAnswers, Breaks,
                Denies, Returns, Goes, Answers
  <1> QED
    BY <1>1, <1>2, <1>3

LEMMA CallAdvances ==
  ASSUME IInv, IInv', NEW q \in Requests, Runs(q) \/ Hears(q) \/ Breaks(q)
  PROVE  pc[q] # "idle" /\ Ahead[pc'[q]] < Ahead[pc[q]]
  <1>1. pc \in [Requests -> PCs] /\ pc'[q] \in PCs
    BY DEF IInv, TypeOK
  <1>2. \/ pc[q] = "start" /\ pc'[q] \in {"done", "answered", "dialing"}
        \/ pc[q] = "dialing" /\ pc'[q] \in {"done", "handshake", "connected"}
        \/ pc[q] = "handshake" /\ pc'[q] \in {"done", "connected"}
        \/ pc[q] = "connected" /\ pc'[q] \in {"done", "asking"}
        \/ pc[q] = "asking" /\ pc'[q] \in {"done", "answered"}
        \/ pc[q] = "answered" /\ pc'[q] = "done"
    <2>1. CASE Runs(q)
      BY <1>1, <2>1 DEF Runs, HeaderInvalid, BasicCompares, Dial, NotSent, NotListed, Ask,
                        Decide, Denies, Returns, Goes, Answers, Local, PCs
    <2>2. CASE Hears(q) \/ Breaks(q)
      BY <1>1, <2>2 DEF Hears, Connected, DialRefused, DialTimesOut, Handshake, ServerAnswers,
                        Breaks, Denies, Returns, Goes, Answers, Local, PCs
    <2> QED
      BY <2>1, <2>2
  <1> QED
    BY <1>2 DEF Ahead

(* A call takes at most six steps after its first, whatever the server and *)
(* the other calls do: it never dials or asks again, and a verdict, once   *)
(* returned, stays.                                                        *)
THEOREM CallsAreShort == Spec => TakesSixSteps
  <1>1. ASSUME IInv, IInv', [Next]_vars, NEW q \in Requests PROVE Advances(q)
    <2>1. CASE Build \/ Refuse \/ Fails \/ Revises \/ UNCHANGED vars
      BY <2>1 DEF Build, Refuse, Fails, Revises, ServerChanges, vars, Advances
    <2>2. ASSUME NEW r \in Requests,
                 (\E h \in Headers : Begin(r, h)) \/ Runs(r) \/ Hears(r) \/ Breaks(r)
          PROVE  Advances(q)
      <3>1. CASE r # q
        BY <1>1, <2>2, <3>1, OthersStay DEF IInv, Advances
      <3>2. CASE r = q /\ \E h \in Headers : Begin(r, h)
        BY <1>1, <3>2 DEF IInv, TypeOK, Begin, Local, Advances
      <3>3. CASE r = q /\ (Runs(r) \/ Hears(r) \/ Breaks(r))
        BY <1>1, <3>3, CallAdvances DEF Advances
      <3> QED
        BY <2>2, <3>1, <3>2, <3>3
    <2> QED
      BY <1>1, <2>1, <2>2 DEF Next
  <1>2. IInv /\ IInv' /\ [Next]_vars => \A q \in Requests : Advances(q)
    BY <1>1
  <1>3. Spec => [][Next]_vars
    BY PTL DEF Spec
  <1> QED
    BY <1>2, <1>3, Invariance, PTL DEF TakesSixSteps
=============================================================================
