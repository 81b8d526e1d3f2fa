------------------------------ MODULE Enrolment ------------------------------
(***************************************************************************)
(* Binding an Agent to the Controller: the one-time code                   *)
(* (internal/binding/binding.go and its table), the `bind' subcommand of   *)
(* the Agent (cmd/agent/main.go), and the private key file it creates      *)
(* (internal/agent/key.go).                                                *)
(*                                                                         *)
(* Several runs of the subcommand can be under way, on one machine as well *)
(* as on many.  A request can be lost or handled after its run has given   *)
(* up; a run can be killed and a machine can lose power at any step.       *)
(***************************************************************************)
EXTENDS Integers, FiniteSets

CONSTANTS
  Machines,  \* machines on which bind is run
  Runs,      \* processes that run bind, each on any machine, one run after the other
  Codes,     \* binding codes that can be drawn
  Keys,      \* key pairs that can be generated
  AgentIds,  \* Agent ids that can be drawn
  Requests,  \* HTTP requests that can be made
  TTL,       \* binding.DefaultTTL
  MaxTime,   \* bound: the clock stops there
  NoMachine, NoKey, NoCode, NoAgent, NoRequest, Refused

ASSUME EnrolmentAssumption ==
  /\ NoMachine \notin Machines /\ NoKey \notin Keys /\ NoCode \notin Codes
  /\ NoRequest \notin Requests
  /\ NoAgent \notin AgentIds /\ Refused \notin AgentIds \cup {NoAgent}
  /\ TTL \in Nat \ {0} /\ MaxTime \in Nat

VARIABLES
  now,
  codes,     \* table binding_codes
  agents,    \* table agents; code is history: what the row was bound with
  file,      \* the key file of each machine
  cli,       \* each run of the bind subcommand
  requests,  \* requests made
  hasty      \* history: keys loaded from a file that its creator has not finished

vars == <<now, codes, agents, file, cli, requests, hasty>>

Binding == [at: {"idle", "load", "create", "reload", "write", "sync", "close", "send", "await"},
            host: Machines \cup {NoMachine}, code: Codes \cup {NoCode}, key: Keys \cup {NoKey},
            request: Requests \cup {NoRequest}]

KeyFile == [state: {"absent", "empty", "full"}, key: Keys \cup {NoKey}, synced: BOOLEAN]

\* time: the clock Bind read, once it runs.  reply: none yet, refused, or an id.
Request == [code: Codes, key: Keys, time: -1..MaxTime,
            reply: AgentIds \cup {NoAgent, Refused}]

TypeOK ==
  /\ now \in 0..MaxTime
  /\ DOMAIN codes \subseteq Codes
  /\ codes \in [DOMAIN codes -> [expires: Nat, consumed: BOOLEAN]]
  /\ DOMAIN agents \subseteq AgentIds
  /\ agents \in [DOMAIN agents -> [key: Keys, code: Codes]]
  /\ file \in [Machines -> KeyFile]
  /\ cli \in [Runs -> Binding]
  /\ DOMAIN requests \subseteq Requests /\ requests \in [DOMAIN requests -> Request]
  /\ hasty \subseteq Keys

Absent == [state |-> "absent", key |-> NoKey, synced |-> TRUE]

Idle == [at |-> "idle", host |-> NoMachine, code |-> NoCode, key |-> NoKey, request |-> NoRequest]

Init ==
  /\ now = 0
  /\ codes = [c \in {} |-> NoCode] /\ agents = [a \in {} |-> NoAgent]
  /\ file = [m \in Machines |-> Absent] /\ cli = [p \in Runs |-> Idle]
  /\ requests = [r \in {} |-> NoRequest] /\ hasty = {}
-----------------------------------------------------------------------------
\* f with x mapped to v.
With(f, x, v) == [y \in DOMAIN f \cup {x} |-> IF y = x THEN v ELSE f[y]]

\* Issue: the administrator draws a code.
Issue(c) ==
  /\ c \notin DOMAIN codes
  /\ codes' = With(codes, c, [expires |-> now + TTL, consumed |-> FALSE])
  /\ UNCHANGED <<now, agents, file, cli, requests, hasty>>

\* bind on machine m reads the code from its input.
Start(p, m, c) ==
  /\ cli[p].at = "idle" /\ c \in DOMAIN codes
  /\ cli' = [cli EXCEPT ![p] = [Idle EXCEPT !.at = "load", !.host = m, !.code = c]]
  /\ UNCHANGED <<now, codes, agents, file, requests, hasty>>

\* parsePrivateKey accepts the file.
Parses(f) == f.state = "full"

\* Run p created the key file of its machine and is still at it.
Creates(p) == cli[p].at \in {"write", "sync", "close"}

\* The key file of m can still be lost: it is not synced, or its creator can remove it.
Unfinished(m) == ~file[m].synced \/ \E p \in Runs : Creates(p) /\ cli[p].host = m

\* LoadPrivateKey by run p: a file that does not parse is an error, and is left as it is;
\* without a file the run goes on as missing says.
LoadPrivateKey(p, missing) ==
  LET m == cli[p].host IN
  /\ cli' = [cli EXCEPT ![p] =
       CASE Parses(file[m]) -> [@ EXCEPT !.at = "send", !.key = file[m].key]
         [] file[m].state = "absent" -> missing
         [] OTHER -> Idle]
  /\ hasty' = IF Parses(file[m]) /\ Unfinished(m) THEN hasty \cup {file[m].key} ELSE hasty
  /\ UNCHANGED <<now, codes, agents, file, requests>>

\* LoadOrCreatePrivateKey looks for a key ...
Load(p) == cli[p].at = "load" /\ LoadPrivateKey(p, [cli[p] EXCEPT !.at = "create"])

\* A key nobody has drawn.
Fresh(k) ==
  /\ k \notin hasty
  /\ \A p \in Runs : cli[p].key # k
  /\ \A m \in Machines : file[m].key # k
  /\ \A r \in DOMAIN requests : requests[r].key # k

\* ... generates one and opens the file with O_EXCL.  When another run was first, the
\* generated key is dropped ...
Create(p, k) ==
  LET m == cli[p].host IN
  /\ cli[p].at = "create"
  /\ \/ /\ file[m].state = "absent" /\ Fresh(k)
        /\ file' = [file EXCEPT ![m] = [state |-> "empty", key |-> NoKey, synced |-> FALSE]]
        /\ cli' = [cli EXCEPT ![p].at = "write", ![p].key = k]
     \/ /\ file[m].state # "absent"
        /\ cli' = [cli EXCEPT ![p].at = "reload"]
        /\ UNCHANGED file
  /\ UNCHANGED <<now, codes, agents, requests, hasty>>

\* ... and the other run's file loaded.
Reload(p) == cli[p].at = "reload" /\ LoadPrivateKey(p, Idle)

\* A step at "at" of the run that created the file, which leaves the file f and goes on at
\* next; a failure removes the file and ends the run.
FileStep(p, at, f, next, ok) ==
  /\ cli[p].at = at
  /\ file' = [file EXCEPT ![cli[p].host] = IF ok THEN f ELSE Absent]
  /\ cli' = [cli EXCEPT ![p] = IF ok THEN [@ EXCEPT !.at = next] ELSE Idle]
  /\ UNCHANGED <<now, codes, agents, requests>>

\* A bug: the file is not synced before the key is used.
AfterWriteSend == "send"

AfterWrite == "sync"

Write(p, ok) ==
  /\ FileStep(p, "write", [file[cli[p].host] EXCEPT !.state = "full", !.key = cli[p].key],
              AfterWrite, ok)
  /\ UNCHANGED hasty

Sync(p, ok) ==
  /\ FileStep(p, "sync", [file[cli[p].host] EXCEPT !.synced = TRUE], "close", ok)
  /\ UNCHANGED hasty

Close(p, ok) ==
  /\ FileStep(p, "close", file[cli[p].host], "send", ok)
  /\ hasty' = IF ok THEN hasty \ {cli[p].key} ELSE hasty

\* BindAgent posts the code and the public key ...
Send(p, r) ==
  /\ cli[p].at = "send" /\ r \notin DOMAIN requests
  /\ requests' = With(requests, r,
       [code |-> cli[p].code, key |-> cli[p].key, time |-> -1, reply |-> NoAgent])
  /\ cli' = [cli EXCEPT ![p].at = "await", ![p].request = r]
  /\ UNCHANGED <<now, codes, agents, file, hasty>>

\* ... and the run ends with the answer: the id is printed, or the error.
Receive(p) ==
  /\ cli[p].at = "await" /\ requests[cli[p].request].reply # NoAgent
  /\ cli' = [cli EXCEPT ![p] = Idle]
  /\ UNCHANGED <<now, codes, agents, file, requests, hasty>>

\* The run ends without one: another error, killed, or its 30 seconds are over.
End(p) ==
  /\ cli[p].at # "idle" /\ cli' = [cli EXCEPT ![p] = Idle]
  /\ UNCHANGED <<now, codes, agents, file, requests, hasty>>

\* A power failure: what was not synced may be there, be empty or be gone.
PowerLoss(m) ==
  /\ cli' = [p \in Runs |-> IF cli[p].host = m THEN Idle ELSE cli[p]]
  /\ \E f \in IF file[m].synced THEN {file[m]}
              ELSE {Absent, [state |-> "empty", key |-> NoKey, synced |-> TRUE],
                    [file[m] EXCEPT !.synced = TRUE]} :
       file' = [file EXCEPT ![m] = f]
  /\ UNCHANGED <<now, codes, agents, requests, hasty>>
-----------------------------------------------------------------------------
\* The UPDATE of ConsumeBindingCode matches the code's row.
Consumable(q) ==
  q.code \in DOMAIN codes /\ ~codes[q.code].consumed /\ codes[q.code].expires > q.time

\* The INSERT does not violate UNIQUE(public_key).
Unbound(k) == \A a \in DOMAIN agents : agents[a].key # k

\* A bug: the code stays consumed when the Agent could not be inserted.
RolledBackNever(q) ==
  IF Consumable(q) THEN [codes EXCEPT ![q.code].consumed = TRUE] ELSE codes

\* The codes after a transaction that did not commit.
RolledBack(q) == codes

\* Bind runs for a request and reads the clock.  A lost request never gets here ...
Bind(r) ==
  /\ r \in DOMAIN requests /\ requests[r].time = -1
  /\ requests' = [requests EXCEPT ![r].time = now]
  /\ UNCHANGED <<now, codes, agents, file, cli, hasty>>

\* ... and then its transaction: consume the code and insert the Agent, or roll both
\* back.  The Agent's id is random, so always new.
ConsumeBindingCode(r, a) ==
  LET q == requests[r] IN
  /\ r \in DOMAIN requests /\ q.time >= 0 /\ q.reply = NoAgent /\ a \notin DOMAIN agents
  /\ IF Consumable(q) /\ Unbound(q.key)
     THEN /\ codes' = [codes EXCEPT ![q.code].consumed = TRUE]
          /\ agents' = With(agents, a, [key |-> q.key, code |-> q.code])
          /\ requests' = [requests EXCEPT ![r].reply = a]
     ELSE /\ codes' = RolledBack(q)
          /\ requests' = [requests EXCEPT ![r].reply = Refused]
          /\ UNCHANGED agents
  /\ UNCHANGED <<now, file, cli, hasty>>

Tick ==
  /\ now < MaxTime /\ now' = now + 1
  /\ UNCHANGED <<codes, agents, file, cli, requests, hasty>>

Next ==
  \/ \E c \in Codes : Issue(c)
  \/ \E p \in Runs :
       \/ \E m \in Machines, c \in Codes : Start(p, m, c)
       \/ \E k \in Keys : Create(p, k)
       \/ \E ok \in BOOLEAN : Write(p, ok) \/ Sync(p, ok) \/ Close(p, ok)
       \/ \E r \in Requests : Send(p, r)
       \/ Load(p) \/ Reload(p) \/ Receive(p) \/ End(p)
  \/ \E m \in Machines : PowerLoss(m)
  \/ \E r \in Requests : Bind(r) \/ \E a \in AgentIds : ConsumeBindingCode(r, a)
  \/ Tick

Spec == Init /\ [][Next]_vars
-----------------------------------------------------------------------------
\* A code is used up exactly when it has bound one Agent: requests that race or
\* arrive late never bind two, and a request that fails leaves the code usable.
CodeBindsOne ==
  /\ TypeOK
  /\ \A c \in DOMAIN codes :
       Cardinality({a \in DOMAIN agents : agents[a].code = c}) = IF codes[c].consumed THEN 1 ELSE 0

\* The Controller never knows a key its machine can lose: the key of a bound Agent is
\* in a key file and synced, whatever was killed or lost power when and however many runs
\* race for the file.  The exception the code leaves: a run that loads the file before the
\* run that created it has synced and closed it uses the key as it is; when that run then
\* fails or is killed, the key may be lost.
BoundKeyOnDisk ==
  \A a \in DOMAIN agents :
    \/ agents[a].key \in hasty
    \/ \E m \in Machines :
         file[m].state = "full" /\ file[m].key = agents[a].key /\ file[m].synced
=============================================================================
