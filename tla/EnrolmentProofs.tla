-------------------------- MODULE EnrolmentProofs ---------------------------
(***************************************************************************)
(* Proofs about binding, for any number of machines, runs, codes, keys and *)
(* requests: a code binds one Agent, and a bound key is on a disk.         *)
(***************************************************************************)
EXTENDS Enrolment, FiniteSetTheorems, TLAPS

\* The key file of m is complete, synced and out of its creator's hands.
Finished(m) == file[m].state = "full" /\ ~Unfinished(m)

\* Key k is in a finished key file, or was loaded from one that was not.
Safe(k) == k \in hasty \/ \E m \in Machines : Finished(m) /\ file[m].key = k

\* What a run b of bind relies on: its file is f, and sound says its key may be sent.
StageOK(b, f, sound) ==
  /\ b.at # "idle" => b.host \in Machines /\ b.code \in Codes
  /\ b.at \in {"write", "sync", "close"} => b.key \in Keys
  /\ b.at = "write" => f.state = "empty" /\ ~f.synced
  /\ b.at = "sync" => f.state = "full" /\ f.key = b.key /\ ~f.synced
  /\ b.at = "close" => f.state = "full" /\ f.key = b.key /\ f.synced
  /\ b.at = "send" => b.key \in Keys /\ sound

RunOK(p) == StageOK(cli[p], file[cli[p].host], Safe(cli[p].key))

\* O_EXCL: a file has one creator.
OneCreator ==
  \A p, q \in Runs : Creates(p) /\ Creates(q) /\ cli[p].host = cli[q].host => p = q

\* The keys that left a machine are safe.
KeysOK ==
  /\ OneCreator
  /\ \A p \in Runs : RunOK(p)
  /\ \A m \in Machines : file[m].state = "full" => file[m].key \in Keys
  /\ \A r \in DOMAIN requests : Safe(requests[r].key)
  /\ \A a \in DOMAIN agents : Safe(agents[a].key)

\* A code is consumed with, and only with, the insertion of one Agent.
CodesOK ==
  /\ \A a \in DOMAIN agents : agents[a].code \in DOMAIN codes /\ codes[agents[a].code].consumed
  /\ \A c \in DOMAIN codes : codes[c].consumed => \E a \in DOMAIN agents : agents[a].code = c
  /\ \A a, b \in DOMAIN agents : agents[a].code = agents[b].code => a = b

EnrolInv == TypeOK /\ KeysOK /\ CodesOK
-----------------------------------------------------------------------------
\* A finished file is not changed, and a key leaves hasty for such a file: safe keys
\* stay safe.
LEMMA SafeStays ==
  ASSUME \A m \in Machines : Finished(m) => Finished(m)' /\ file'[m] = file[m],
         \A k \in hasty \ hasty' : Safe(k)'
  PROVE  \A k : Safe(k) => Safe(k)'
BY DEF Safe

\* Run p goes on as b, and the file of its machine m becomes f: only its creator, or
\* somebody who finds none, changes a file.
RunGoes(p, b, m, f) ==
  /\ cli' = [cli EXCEPT ![p] = b] /\ file' = [file EXCEPT ![m] = f]
  /\ f = file[m] \/ file[m].state = "absent" \/ (Creates(p) /\ cli[p].host = m)
  /\ f.state = "full" => f.key \in Keys
  /\ b.at \in {"write", "sync", "close"} =>
       b.host = m /\ (file[m].state = "absent" \/ (Creates(p) /\ cli[p].host = m))
  /\ UNCHANGED <<now, codes, agents>>

\* Then nobody else's file changes, no finished file does, and a file has one creator.
OthersSame(p, b, m, f) ==
  /\ cli' \in [Runs -> Binding] /\ cli'[p] = b /\ \A q \in Runs \ {p} : cli'[q] = cli[q]
  /\ file' \in [Machines -> KeyFile] /\ file'[m] = f
  /\ \A n \in Machines \ {m} : file'[n] = file[n]
  /\ \A q \in Runs \ {p} : Creates(q) => file'[cli[q].host] = file[cli[q].host]
  /\ \A n \in Machines : Finished(n) => Finished(n)' /\ file'[n] = file[n]
  /\ OneCreator'

\* The finished files and the other runs, when a run takes a step.
LEMMA OthersStay ==
  ASSUME EnrolInv, NEW p \in Runs, NEW b \in Binding, NEW m \in Machines, NEW f \in KeyFile,
         RunGoes(p, b, m, f)
  PROVE  OthersSame(p, b, m, f)
<1>1. /\ cli' \in [Runs -> Binding] /\ cli'[p] = b /\ \A q \in Runs \ {p} : cli'[q] = cli[q]
      /\ file' \in [Machines -> KeyFile] /\ file'[m] = f
      /\ \A n \in Machines \ {m} : file'[n] = file[n]
  BY DEF RunGoes, EnrolInv, TypeOK
<1>2. ASSUME NEW q \in Runs, Creates(q)
      PROVE  /\ cli[q].host \in Machines /\ file[cli[q].host].state # "absent"
             /\ q # p /\ cli[q].host = m =>
                  f = file[m] /\ ~(b.at \in {"write", "sync", "close"} /\ b.host = m)
  <2>1. RunOK(q)
    BY DEF EnrolInv, KeysOK
  <2>2. cli[q].host \in Machines /\ file[cli[q].host].state # "absent"
    BY <1>2, <2>1 DEF RunOK, StageOK, Creates
  <2>3. ~(q # p /\ cli[q].host = m /\ Creates(p) /\ cli[p].host = m)
    BY <1>2 DEF EnrolInv, KeysOK, OneCreator
  <2>. QED
    BY <2>2, <2>3 DEF RunGoes
<1>3. \A q \in Runs \ {p} : Creates(q) => file'[cli[q].host] = file[cli[q].host]
  BY <1>1, <1>2
<1>4. ASSUME NEW n \in Machines, Finished(n) PROVE Finished(n)' /\ file'[n] = file[n]
  <2>1. \A q \in Runs : ~(Creates(q) /\ cli[q].host = n)
    BY <1>4 DEF Finished, Unfinished
  <2>2. file[n].state = "full" /\ file[n].synced
    BY <1>4 DEF Finished, Unfinished
  <2>3. file'[n] = file[n]
    BY <1>1, <2>1, <2>2 DEF RunGoes
  <2>4. \A q \in Runs : ~(Creates(q) /\ cli[q].host = n)'
    <3>1. ASSUME NEW q \in Runs PROVE ~(Creates(q) /\ cli[q].host = n)'
      <4>1. CASE q = p
        BY <1>1, <2>1, <2>2, <4>1 DEF RunGoes, Creates
      <4>2. CASE q # p
        BY <1>1, <2>1, <4>2 DEF Creates
      <4>. QED
        BY <4>1, <4>2
    <3>. QED
      BY <3>1
  <2>. QED
    BY <2>2, <2>3, <2>4 DEF Finished, Unfinished
<1>5. OneCreator'
  <2>1. ASSUME NEW q \in Runs, q # p, Creates(q)', Creates(p)', cli'[q].host = cli'[p].host
        PROVE  FALSE
    <3>1. cli'[q] = cli[q] /\ Creates(q) /\ b.at \in {"write", "sync", "close"} /\ b.host = m
      BY <1>1, <2>1 DEF Creates, RunGoes
    <3>. QED
      BY <1>1, <1>2, <2>1, <3>1
  <2>2. ASSUME NEW q \in Runs, NEW r \in Runs, q # p, r # p, Creates(q)', Creates(r)',
               cli'[q].host = cli'[r].host
        PROVE  q = r
    BY <1>1, <2>2 DEF Creates, EnrolInv, KeysOK, OneCreator
  <2>. QED
    BY <2>1, <2>2 DEF OneCreator
<1>. QED
  BY <1>1, <1>3, <1>4, <1>5 DEF OthersSame

\* A step of bind.
LEMMA RunStep ==
  ASSUME EnrolInv, NEW p \in Runs, NEW b \in Binding, NEW m \in Machines, NEW f \in KeyFile,
         RunGoes(p, b, m, f),
         b.at # "idle" => b.host = m,
         hasty' \subseteq Keys, \A k \in hasty \ hasty' : Safe(k)',
         DOMAIN requests' \subseteq Requests, requests' \in [DOMAIN requests' -> Request],
         \A r \in DOMAIN requests' :
           (r \in DOMAIN requests /\ requests'[r] = requests[r]) \/ Safe(requests[r].key)',
         StageOK(b, f, Safe(b.key)')
  PROVE  EnrolInv'
<1>1. OthersSame(p, b, m, f)
  BY Zenon, OthersStay
<1>2. \A k : Safe(k) => Safe(k)'
  BY Zenon, <1>1, SafeStays DEF OthersSame
<1>3. ASSUME NEW q \in Runs PROVE RunOK(q)'
  <2>1. CASE q = p
    BY <1>1, <2>1 DEF OthersSame, RunOK, StageOK
  <2>2. CASE q # p
    <3>1. cli'[q] = cli[q] /\ RunOK(q) /\ (Creates(q) => file'[cli[q].host] = file[cli[q].host])
      BY <1>1, <2>2 DEF OthersSame, EnrolInv, KeysOK
    <3>2. Safe(cli[q].key) => Safe(cli[q].key)'
      BY <1>2, <3>1 DEF Safe
    <3>. QED
      BY <3>1, <3>2 DEF RunOK, StageOK, Creates
  <2>. QED
    BY <2>1, <2>2
<1>4. \A n \in Machines : file'[n].state = "full" => file'[n].key \in Keys
  BY <1>1 DEF OthersSame, EnrolInv, KeysOK, RunGoes
<1>5. \A a \in DOMAIN agents' : Safe(agents[a].key)'
  BY <1>2 DEF EnrolInv, KeysOK, RunGoes
<1>6. \A r \in DOMAIN requests' : Safe(requests[r].key)'
  BY <1>2 DEF EnrolInv, KeysOK, Safe
<1>7. KeysOK'
  BY <1>1, <1>3, <1>4, <1>5, <1>6 DEF OthersSame, KeysOK
<1>8. codes' = codes /\ agents' = agents /\ now' = now
  BY DEF RunGoes
<1>9. CodesOK'
  BY <1>8 DEF EnrolInv, CodesOK
<1>10. TypeOK'
  BY <1>1, <1>8 DEF OthersSame, EnrolInv, TypeOK
<1>. QED
  BY <1>7, <1>9, <1>10 DEF EnrolInv

\* A run that ends leaves the files alone.
LEMMA EndStep ==
  ASSUME EnrolInv, NEW p \in Runs, End(p) \/ Receive(p)
  PROVE  EnrolInv'
<1>1. cli[p] \in Binding /\ RunOK(p) /\ cli[p].at # "idle"
  BY DEF EnrolInv, TypeOK, KeysOK, End, Receive
<1>2. PICK m \in Machines : m = cli[p].host
  BY <1>1 DEF RunOK, StageOK
<1>3. Idle \in Binding /\ Idle.at = "idle" /\ file[m] \in KeyFile
  BY DEF Idle, Binding, EnrolInv, TypeOK
<1>4. UNCHANGED <<now, codes, agents, file, requests, hasty>> /\ cli' = [cli EXCEPT ![p] = Idle]
  BY DEF End, Receive
<1>5. RunGoes(p, Idle, m, file[m])
  <2>1. file' = [file EXCEPT ![m] = file[m]] /\ (file[m].state = "full" => file[m].key \in Keys)
    BY <1>4 DEF EnrolInv, KeysOK, TypeOK
  <2>. QED
    BY Zenon, <1>3, <1>4, <2>1 DEF RunGoes
<1>6. StageOK(Idle, file[m], Safe(Idle.key)')
  BY <1>3 DEF StageOK
<1>7. DOMAIN requests' \subseteq Requests /\ requests' \in [DOMAIN requests' -> Request]
      /\ hasty' \subseteq Keys /\ hasty' = hasty /\ requests' = requests
  BY <1>4 DEF EnrolInv, TypeOK
<1>. QED
  BY Zenon, <1>3, <1>5, <1>6, <1>7, RunStep

\* bind reads the code.
LEMMA StartStep ==
  ASSUME EnrolInv, NEW p \in Runs, NEW m \in Machines, NEW c \in Codes, Start(p, m, c)
  PROVE  EnrolInv'
<1>. DEFINE b == [Idle EXCEPT !.at = "load", !.host = m, !.code = c]
<1>1. b \in Binding /\ b.at = "load" /\ b.code = c /\ b.host = m /\ file[m] \in KeyFile
  BY Zenon DEF Idle, Binding, EnrolInv, TypeOK
<1>2. UNCHANGED <<now, codes, agents, file, requests, hasty>> /\ cli' = [cli EXCEPT ![p] = b]
  BY DEF Start
<1>. HIDE DEF b
<1>3. RunGoes(p, b, m, file[m])
  <2>1. file' = [file EXCEPT ![m] = file[m]] /\ (file[m].state = "full" => file[m].key \in Keys)
    BY <1>2 DEF EnrolInv, KeysOK, TypeOK
  <2>. QED
    BY Zenon, <1>1, <1>2, <2>1 DEF RunGoes
<1>4. StageOK(b, file[m], Safe(b.key)')
  BY <1>1 DEF StageOK
<1>5. DOMAIN requests' \subseteq Requests /\ requests' \in [DOMAIN requests' -> Request]
      /\ hasty' \subseteq Keys /\ hasty' = hasty /\ requests' = requests
  BY <1>2 DEF EnrolInv, TypeOK
<1>. QED
  BY Zenon, <1>1, <1>3, <1>4, <1>5, RunStep

\* LoadPrivateKey: the key of a file that parses is safe, the file being finished or the
\* key noted in hasty.
LEMMA LoadStep ==
  ASSUME EnrolInv, NEW p \in Runs, Load(p) \/ Reload(p)
  PROVE  EnrolInv'
<1>1. cli[p] \in Binding /\ RunOK(p) /\ cli[p].at \in {"load", "reload"}
  BY DEF EnrolInv, TypeOK, KeysOK, Load, Reload
<1>2. PICK q \in Binding : q = cli[p]
  BY <1>1
<1>3. PICK m \in Machines : m = q.host
  BY <1>1, <1>2 DEF RunOK, StageOK
<1>4. /\ UNCHANGED <<now, codes, agents, file, requests>>
      /\ hasty' = IF Parses(file[m]) /\ Unfinished(m) THEN hasty \cup {file[m].key} ELSE hasty
  BY <1>2, <1>3 DEF Load, Reload, LoadPrivateKey
<1>5. /\ file' = [file EXCEPT ![m] = file[m]] /\ (file[m].state = "full" => file[m].key \in Keys)
      /\ file[m] \in KeyFile
  BY <1>4 DEF EnrolInv, KeysOK, TypeOK
<1>6. /\ DOMAIN requests' \subseteq Requests /\ requests' \in [DOMAIN requests' -> Request]
      /\ hasty' \subseteq Keys /\ hasty \subseteq hasty' /\ requests' = requests
  BY <1>4, <1>5 DEF EnrolInv, TypeOK, Parses
<1>7. q.code \in Codes
  BY <1>1, <1>2 DEF RunOK, StageOK
<1>8. ASSUME NEW b \in Binding, cli' = [cli EXCEPT ![p] = b],
             b.at \in {"idle", "create", "send"}, b.at # "idle" => b.host = m /\ b.code = q.code,
             b.at = "send" => b.key = file[m].key /\ Parses(file[m])
      PROVE  EnrolInv'
  <2>1. RunGoes(p, b, m, file[m])
    BY Zenon, <1>4, <1>5, <1>8 DEF RunGoes
  <2>2. b.at = "send" => b.key \in Keys /\ Safe(b.key)'
    <3>1. SUFFICES ASSUME b.at = "send" PROVE b.key \in Keys /\ Safe(b.key)'
      OBVIOUS
    <3>2. file[m].state = "full" /\ b.key = file[m].key /\ b.key \in Keys
      BY <1>5, <1>8, <3>1 DEF Parses
    <3>3. CASE Unfinished(m)
      BY <1>4, <1>8, <3>1, <3>2, <3>3 DEF Safe
    <3>4. CASE ~Unfinished(m)
      <4>1. Finished(m)
        BY <3>2, <3>4 DEF Finished
      <4>2. OthersSame(p, b, m, file[m])
        BY Zenon, <1>5, <2>1, OthersStay
      <4>3. Finished(m)' /\ file'[m] = file[m]
        BY <4>1, <4>2 DEF OthersSame
      <4>. QED
        BY <3>2, <4>3 DEF Safe
    <3>. QED
      BY <3>2, <3>3, <3>4
  <2>3. StageOK(b, file[m], Safe(b.key)')
    BY <1>3, <1>7, <1>8, <2>2 DEF StageOK
  <2>. QED
    BY Zenon, <1>5, <1>6, <1>8, <2>1, <2>3, RunStep
<1>9. CASE Parses(file[m])
  <2>. DEFINE b == [q EXCEPT !.at = "send", !.key = file[m].key]
  <2>1. b \in Binding /\ b.at = "send" /\ b.key = file[m].key /\ b.code = q.code /\ b.host = q.host
    BY Zenon, <1>5, <1>9 DEF Binding, Parses
  <2>2. cli' = [cli EXCEPT ![p] = b]
    BY <1>2, <1>3, <1>9 DEF Load, Reload, LoadPrivateKey, Parses
  <2>. HIDE DEF b
  <2>. QED
    BY Zenon, <1>3, <1>8, <1>9, <2>1, <2>2
<1>10. CASE ~Parses(file[m]) /\ cli' = [cli EXCEPT ![p] = Idle]
  <2>1. Idle \in Binding /\ Idle.at = "idle"
    BY DEF Idle, Binding
  <2>. QED
    BY Zenon, <1>8, <1>10, <2>1
<1>11. CASE ~Parses(file[m]) /\ cli' = [cli EXCEPT ![p] = [q EXCEPT !.at = "create"]]
  <2>. DEFINE b == [q EXCEPT !.at = "create"]
  <2>1. b \in Binding /\ b.at = "create" /\ b.code = q.code /\ b.host = q.host
    BY Zenon DEF Binding
  <2>. HIDE DEF b
  <2>2. cli' = [cli EXCEPT ![p] = b]
    BY <1>11 DEF b
  <2>. QED
    BY Zenon, <1>3, <1>8, <2>1, <2>2
<1>12. ~Parses(file[m]) =>
         cli' = [cli EXCEPT ![p] = Idle] \/ cli' = [cli EXCEPT ![p] = [q EXCEPT !.at = "create"]]
  BY <1>2, <1>3 DEF Load, Reload, LoadPrivateKey, Parses
<1>. QED
  BY <1>9, <1>10, <1>11, <1>12

\* GenerateKey and OpenFile.
LEMMA CreateStep ==
  ASSUME EnrolInv, NEW p \in Runs, NEW k \in Keys, Create(p, k)
  PROVE  EnrolInv'
<1>1. cli[p] \in Binding /\ RunOK(p) /\ cli[p].at = "create"
  BY DEF EnrolInv, TypeOK, KeysOK, Create
<1>2. PICK q \in Binding : q = cli[p]
  BY <1>1
<1>3. PICK m \in Machines : m = q.host
  BY <1>1, <1>2 DEF RunOK, StageOK
<1>4. /\ UNCHANGED <<now, codes, agents>> /\ hasty' = hasty /\ requests' = requests
      /\ DOMAIN requests' \subseteq Requests /\ requests' \in [DOMAIN requests' -> Request]
      /\ hasty' \subseteq Keys /\ q.code \in Codes
  BY <1>1, <1>2 DEF Create, EnrolInv, TypeOK, RunOK, StageOK
<1>5. CASE file[m].state = "absent"
  <2>. DEFINE b == [q EXCEPT !.at = "write", !.key = k]
              f == [state |-> "empty", key |-> NoKey, synced |-> FALSE]
  <2>1. b \in Binding /\ b.at = "write" /\ b.key = k /\ b.code = q.code /\ b.host = q.host
    BY Zenon DEF Binding
  <2>2. f \in KeyFile /\ f.state = "empty" /\ ~f.synced
    BY DEF KeyFile
  <2>3. cli' = [cli EXCEPT ![p] = b] /\ file' = [file EXCEPT ![m] = f]
    BY Zenon, <1>2, <1>3, <1>5 DEF Create
  <2>. HIDE DEF b, f
  <2>4. RunGoes(p, b, m, f)
    BY <1>3, <1>4, <1>5, <2>1, <2>2, <2>3 DEF RunGoes
  <2>5. StageOK(b, f, Safe(b.key)')
    BY <1>3, <1>4, <2>1, <2>2 DEF StageOK
  <2>. QED
    BY Zenon, <1>3, <1>4, <2>1, <2>2, <2>4, <2>5, RunStep
<1>6. CASE file[m].state # "absent"
  <2>. DEFINE b == [q EXCEPT !.at = "reload"]
  <2>1. b \in Binding /\ b.at = "reload" /\ b.code = q.code /\ b.host = q.host
    BY Zenon DEF Binding
  <2>2. cli' = [cli EXCEPT ![p] = b] /\ file' = file
    BY <1>2, <1>3, <1>6 DEF Create
  <2>. HIDE DEF b
  <2>3. /\ file' = [file EXCEPT ![m] = file[m]] /\ (file[m].state = "full" => file[m].key \in Keys)
        /\ file[m] \in KeyFile
    BY <2>2 DEF EnrolInv, KeysOK, TypeOK
  <2>4. RunGoes(p, b, m, file[m])
    BY Zenon, <1>4, <2>1, <2>2, <2>3 DEF RunGoes
  <2>5. StageOK(b, file[m], Safe(b.key)')
    BY <1>3, <1>4, <2>1 DEF StageOK
  <2>. QED
    BY Zenon, <1>3, <1>4, <2>1, <2>3, <2>4, <2>5, RunStep
<1>. QED
  BY <1>5, <1>6

\* Write, Sync and Close by the creator of the file; a failure removes the file.
LEMMA FileStepKeeps ==
  ASSUME EnrolInv, NEW p \in Runs, NEW ok \in BOOLEAN,
         Write(p, ok) \/ Sync(p, ok) \/ Close(p, ok)
  PROVE  EnrolInv'
<1>1. cli[p] \in Binding /\ RunOK(p) /\ Creates(p)
  BY DEF EnrolInv, TypeOK, KeysOK, Write, Sync, Close, FileStep, Creates
<1>2. PICK q \in Binding : q = cli[p]
  BY <1>1
<1>3. PICK m \in Machines : m = q.host
  BY <1>1, <1>2 DEF RunOK, StageOK, Creates
<1>4. PICK g \in KeyFile : g = file[m]
  BY <1>3 DEF EnrolInv, TypeOK
<1>5. /\ UNCHANGED <<now, codes, agents>> /\ requests' = requests
      /\ DOMAIN requests' \subseteq Requests /\ requests' \in [DOMAIN requests' -> Request]
      /\ hasty' \subseteq Keys
  BY DEF Write, Sync, Close, FileStep, EnrolInv, TypeOK
<1>6. q.code \in Codes /\ q.key \in Keys
  BY <1>1, <1>2 DEF RunOK, StageOK, Creates
<1>7. CASE ~ok
  <2>1. cli' = [cli EXCEPT ![p] = Idle] /\ file' = [file EXCEPT ![m] = Absent] /\ hasty' = hasty
    BY <1>2, <1>3, <1>7 DEF Write, Sync, Close, FileStep
  <2>2. Absent.state = "absent" /\ Absent \in KeyFile /\ Idle \in Binding /\ Idle.at = "idle"
    BY DEF Absent, KeyFile, Idle, Binding
  <2>3. RunGoes(p, Idle, m, Absent)
    BY <1>1, <1>2, <1>3, <1>5, <2>1, <2>2 DEF RunGoes
  <2>4. StageOK(Idle, Absent, Safe(Idle.key)')
    BY <2>2 DEF StageOK
  <2>. QED
    BY Zenon, <1>5, <2>1, <2>2, <2>3, <2>4, RunStep
<1>8. ASSUME NEW step \in {"sync", "close", "send"}, NEW f \in KeyFile,
             f.state = "full", f.key = q.key, f.synced <=> step # "sync",
             cli' = [cli EXCEPT ![p] = [q EXCEPT !.at = step]], file' = [file EXCEPT ![m] = f],
             hasty' = IF step = "send" THEN hasty \ {q.key} ELSE hasty
      PROVE  EnrolInv'
  <2>. DEFINE b == [q EXCEPT !.at = step]
  <2>1. b \in Binding /\ b.at = step /\ b.key = q.key /\ b.code = q.code /\ b.host = q.host
    BY <1>8 DEF Binding
  <2>. HIDE DEF b
  <2>2. cli' = [cli EXCEPT ![p] = b]
    BY <1>8 DEF b
  <2>3. RunGoes(p, b, m, f)
    BY Zenon, <1>1, <1>2, <1>3, <1>5, <1>6, <1>8, <2>1, <2>2 DEF RunGoes
  <2>4. step = "send" => Safe(q.key)'
    <3>1. OthersSame(p, b, m, f)
      BY Zenon, <2>1, <2>3, OthersStay
    <3>2. \A r \in Runs \ {p} : ~(Creates(r) /\ cli[r].host = m)
      BY <1>1, <1>2, <1>3 DEF EnrolInv, KeysOK, OneCreator
    <3>3. step = "send" => ~Unfinished(m)'
      BY <1>8, <2>1, <3>1, <3>2 DEF OthersSame, Unfinished, Creates
    <3>. QED
      BY <1>8, <3>1, <3>3 DEF OthersSame, Safe, Finished
  <2>5. StageOK(b, f, Safe(b.key)')
    BY <1>3, <1>6, <1>8, <2>1, <2>4 DEF StageOK
  <2>6. \A k \in hasty \ hasty' : Safe(k)'
    <3>1. ASSUME NEW k \in hasty \ hasty' PROVE step = "send" /\ k = q.key
      BY <1>8, <3>1
    <3>. QED
      BY <2>4, <3>1
  <2>. QED
    BY Zenon, <1>3, <1>5, <1>8, <2>1, <2>3, <2>5, <2>6, RunStep
<1>9. CASE ok /\ Write(p, ok)
  <2>. DEFINE f == [g EXCEPT !.state = "full", !.key = q.key]
  <2>1. ~g.synced
    BY <1>1, <1>2, <1>3, <1>4, <1>9 DEF Write, FileStep, RunOK, StageOK
  <2>2. f \in KeyFile /\ f.state = "full" /\ f.key = q.key /\ ~f.synced
    BY Zenon, <1>6, <2>1 DEF KeyFile
  <2>3. /\ cli' = [cli EXCEPT ![p] = [q EXCEPT !.at = "sync"]] /\ file' = [file EXCEPT ![m] = f]
        /\ hasty' = hasty
    BY Zenon, <1>2, <1>3, <1>4, <1>9 DEF Write, FileStep, AfterWrite
  <2>. HIDE DEF f
  <2>. QED
    BY Zenon, <1>8, <2>2, <2>3
<1>10. CASE ok /\ Sync(p, ok)
  <2>. DEFINE f == [g EXCEPT !.synced = TRUE]
  <2>1. g.state = "full" /\ g.key = q.key
    BY <1>1, <1>2, <1>3, <1>4, <1>10 DEF Sync, FileStep, RunOK, StageOK
  <2>2. f \in KeyFile /\ f.state = "full" /\ f.key = q.key /\ f.synced
    BY Zenon, <2>1 DEF KeyFile
  <2>3. /\ cli' = [cli EXCEPT ![p] = [q EXCEPT !.at = "close"]] /\ file' = [file EXCEPT ![m] = f]
        /\ hasty' = hasty
    BY Zenon, <1>2, <1>3, <1>4, <1>10 DEF Sync, FileStep
  <2>. HIDE DEF f
  <2>. QED
    BY Zenon, <1>8, <2>2, <2>3
<1>11. CASE ok /\ Close(p, ok)
  <2>1. g.state = "full" /\ g.key = q.key /\ g.synced
    BY <1>1, <1>2, <1>3, <1>4, <1>11 DEF Close, FileStep, RunOK, StageOK
  <2>2. /\ cli' = [cli EXCEPT ![p] = [q EXCEPT !.at = "send"]] /\ file' = [file EXCEPT ![m] = g]
        /\ hasty' = hasty \ {q.key}
    BY Zenon, <1>2, <1>3, <1>4, <1>11 DEF Close, FileStep
  <2>. QED
    BY Zenon, <1>8, <2>1, <2>2
<1>. QED
  BY <1>7, <1>9, <1>10, <1>11

\* BindAgent posts a safe key.
LEMMA SendStep ==
  ASSUME EnrolInv, NEW p \in Runs, NEW r \in Requests, Send(p, r)
  PROVE  EnrolInv'
<1>1. cli[p] \in Binding /\ RunOK(p) /\ cli[p].at = "send"
  BY DEF EnrolInv, TypeOK, KeysOK, Send
<1>2. PICK q \in Binding : q = cli[p]
  BY <1>1
<1>3. PICK m \in Machines : m = q.host
  BY <1>1, <1>2 DEF RunOK, StageOK
<1>4. q.code \in Codes /\ q.key \in Keys /\ Safe(q.key)
  BY <1>1, <1>2 DEF RunOK, StageOK
<1>. DEFINE b == [q EXCEPT !.at = "await", !.request = r]
            n == [code |-> q.code, key |-> q.key, time |-> -1, reply |-> NoAgent]
<1>5. b \in Binding /\ b.at = "await" /\ b.host = q.host /\ b.code = q.code
  BY Zenon DEF Binding
<1>6. n \in Request /\ n.key = q.key
  BY <1>4, EnrolmentAssumption DEF Request
<1>7. /\ cli' = [cli EXCEPT ![p] = b] /\ requests' = With(requests, r, n) /\ r \notin DOMAIN requests
      /\ UNCHANGED <<now, codes, agents, file, hasty>>
  BY Zenon, <1>2 DEF Send
<1>. HIDE DEF b, n
<1>8. /\ file' = [file EXCEPT ![m] = file[m]] /\ (file[m].state = "full" => file[m].key \in Keys)
      /\ file[m] \in KeyFile /\ hasty' \subseteq Keys /\ hasty' = hasty
  BY <1>7 DEF EnrolInv, KeysOK, TypeOK
<1>9. RunGoes(p, b, m, file[m])
  BY Zenon, <1>5, <1>7, <1>8 DEF RunGoes
<1>10. StageOK(b, file[m], Safe(b.key)')
  BY <1>3, <1>4, <1>5 DEF StageOK
<1>11. Safe(q.key)'
  <2>1. OthersSame(p, b, m, file[m])
    BY Zenon, <1>5, <1>8, <1>9, OthersStay
  <2>. QED
    BY <1>4, <1>8, <2>1 DEF OthersSame, Safe
<1>12. /\ DOMAIN requests' = DOMAIN requests \cup {r} /\ requests'[r] = n
       /\ \A x \in DOMAIN requests : requests'[x] = requests[x]
       /\ requests' = [x \in DOMAIN requests' |-> requests'[x]]
  BY <1>7 DEF With
<1>13. DOMAIN requests' \subseteq Requests /\ requests' \in [DOMAIN requests' -> Request]
  <2>1. \A x \in DOMAIN requests' : requests'[x] \in Request
    BY <1>6, <1>12 DEF EnrolInv, TypeOK
  <2>. QED
    BY <1>12, <2>1 DEF EnrolInv, TypeOK
<1>14. \A x \in DOMAIN requests' :
         (x \in DOMAIN requests /\ requests'[x] = requests[x]) \/ Safe(requests[x].key)'
  BY <1>6, <1>11, <1>12 DEF Safe
<1>. QED
  BY Zenon, <1>3, <1>5, <1>8, <1>9, <1>10, <1>13, <1>14, RunStep

\* A power failure ends the runs of a machine; its file stays if it was synced.
LEMMA PowerLossStep ==
  ASSUME EnrolInv, NEW m \in Machines, PowerLoss(m)
  PROVE  EnrolInv'
<1>1. PICK f \in IF file[m].synced THEN {file[m]}
                 ELSE {Absent, [state |-> "empty", key |-> NoKey, synced |-> TRUE],
                       [file[m] EXCEPT !.synced = TRUE]} :
        file' = [file EXCEPT ![m] = f]
  BY Zenon DEF PowerLoss
<1>2. PICK g \in KeyFile : g = file[m]
  BY DEF EnrolInv, TypeOK
<1>3. f \in KeyFile /\ (f.state = "full" => f.key \in Keys) /\ (g.synced => f = g)
  <2>1. g.state = "full" => g.key \in Keys
    BY <1>2 DEF EnrolInv, KeysOK
  <2>2. CASE f = g
    BY <2>1, <2>2
  <2>3. CASE ~g.synced /\ f = Absent
    BY <2>3 DEF Absent, KeyFile
  <2>4. CASE ~g.synced /\ f = [state |-> "empty", key |-> NoKey, synced |-> TRUE]
    BY <2>4 DEF KeyFile
  <2>5. CASE ~g.synced /\ f = [g EXCEPT !.synced = TRUE]
    BY Zenon, <2>1, <2>5 DEF KeyFile
  <2>. QED
    BY <1>1, <1>2, <2>2, <2>3, <2>4, <2>5
<1>4. /\ Idle \in Binding /\ Idle.at = "idle"
      /\ \A p \in Runs : cli'[p] = IF cli[p].host = m THEN Idle ELSE cli[p]
      /\ UNCHANGED <<now, codes, agents, requests, hasty>>
  BY DEF PowerLoss, Idle, Binding
<1>5. cli' \in [Runs -> Binding] /\ file' \in [Machines -> KeyFile] /\ file'[m] = f
      /\ \A n \in Machines \ {m} : file'[n] = file[n]
  <2>1. \A p \in Runs : (IF cli[p].host = m THEN Idle ELSE cli[p]) \in Binding
    BY <1>4 DEF EnrolInv, TypeOK
  <2>2. cli' \in [Runs -> Binding]
    BY <2>1, <1>4 DEF PowerLoss, EnrolInv, TypeOK
  <2>. QED
    BY <1>1, <1>3, <2>2 DEF EnrolInv, TypeOK
<1>6. \A p \in Runs : Creates(p)' => cli'[p] = cli[p] /\ Creates(p) /\ cli[p].host # m
  BY <1>4 DEF Creates
<1>7. ASSUME NEW n \in Machines, Finished(n) PROVE Finished(n)' /\ file'[n] = file[n]
  <2>1. file'[n] = file[n]
    BY <1>2, <1>3, <1>5, <1>7 DEF Finished, Unfinished
  <2>. QED
    BY <1>6, <1>7, <2>1 DEF Finished, Unfinished
<1>8. \A k : Safe(k) => Safe(k)'
  BY <1>4, <1>7, SafeStays
<1>9. ASSUME NEW p \in Runs PROVE RunOK(p)'
  <2>1. CASE cli'[p] = Idle
    BY <1>4, <2>1 DEF RunOK, StageOK
  <2>2. CASE cli'[p] = cli[p] /\ cli[p].host # m
    <3>1. RunOK(p) /\ (Safe(cli[p].key) => Safe(cli[p].key)')
      BY <1>8, <2>2 DEF EnrolInv, KeysOK, Safe
    <3>2. cli[p].host \in Machines => file'[cli[p].host] = file[cli[p].host]
      BY <1>5, <2>2
    <3>. QED
      BY <2>2, <3>1, <3>2 DEF RunOK, StageOK
  <2>. QED
    BY <1>4, <2>1, <2>2
<1>10. OneCreator' /\ \A n \in Machines : file'[n].state = "full" => file'[n].key \in Keys
  <2>1. OneCreator'
    BY <1>6 DEF EnrolInv, KeysOK, OneCreator
  <2>. QED
    BY <1>3, <1>5, <2>1 DEF EnrolInv, KeysOK
<1>11. KeysOK'
  BY <1>4, <1>8, <1>9, <1>10 DEF EnrolInv, KeysOK
<1>12. TypeOK' /\ CodesOK'
  BY <1>4, <1>5 DEF EnrolInv, TypeOK, CodesOK
<1>. QED
  BY <1>11, <1>12 DEF EnrolInv

\* A step of the Controller: the machines do not notice.
LEMMA ControllerStep ==
  ASSUME EnrolInv, UNCHANGED <<file, cli, hasty>>, TypeOK', CodesOK',
         \A x \in DOMAIN requests' : x \in DOMAIN requests /\ requests'[x].key = requests[x].key,
         \A a \in DOMAIN agents' :
           \/ a \in DOMAIN agents /\ agents'[a] = agents[a]
           \/ \E x \in DOMAIN requests : agents'[a].key = requests[x].key
  PROVE  EnrolInv'
<1>1. \A k : Safe(k) <=> Safe(k)'
  BY DEF Safe, Finished, Unfinished, Creates
<1>2. ASSUME NEW p \in Runs PROVE RunOK(p)'
  <2>1. RunOK(p) /\ (Safe(cli[p].key) => Safe(cli[p].key)')
    BY <1>1 DEF EnrolInv, KeysOK, Safe
  <2>. QED
    BY <2>1 DEF RunOK, StageOK
<1>3. \A x \in DOMAIN requests' : Safe(requests[x].key)'
  BY <1>1 DEF EnrolInv, KeysOK, Safe
<1>4. \A a \in DOMAIN agents' : Safe(agents[a].key)'
  BY <1>1 DEF EnrolInv, KeysOK, Safe
<1>5. OneCreator' /\ \A m \in Machines : file'[m].state = "full" => file'[m].key \in Keys
  BY DEF EnrolInv, KeysOK, OneCreator, Creates
<1>. QED
  BY <1>2, <1>3, <1>4, <1>5 DEF EnrolInv, KeysOK

\* The administrator issues a code.
LEMMA IssueStep ==
  ASSUME EnrolInv, NEW c \in Codes, Issue(c)
  PROVE  EnrolInv'
<1>. DEFINE n == [expires |-> now + TTL, consumed |-> FALSE]
<1>1. n \in [expires: Nat, consumed: BOOLEAN] /\ ~n.consumed
  BY EnrolmentAssumption DEF EnrolInv, TypeOK
<1>2. codes' = With(codes, c, n) /\ c \notin DOMAIN codes
      /\ UNCHANGED <<now, agents, file, cli, requests, hasty>>
  BY DEF Issue
<1>. HIDE DEF n
<1>3. /\ DOMAIN codes' = DOMAIN codes \cup {c} /\ codes'[c] = n
      /\ \A x \in DOMAIN codes : codes'[x] = codes[x]
      /\ codes' = [x \in DOMAIN codes' |-> codes'[x]]
  BY <1>2 DEF With
<1>4. codes' \in [DOMAIN codes' -> [expires: Nat, consumed: BOOLEAN]]
  <2>1. \A x \in DOMAIN codes' : codes'[x] \in [expires: Nat, consumed: BOOLEAN]
    BY <1>1, <1>3 DEF EnrolInv, TypeOK
  <2>. QED
    BY <1>3, <2>1
<1>5. TypeOK'
  BY <1>2, <1>3, <1>4 DEF EnrolInv, TypeOK
<1>6. CodesOK'
  BY <1>1, <1>2, <1>3 DEF EnrolInv, CodesOK
<1>. QED
  BY <1>2, <1>5, <1>6, ControllerStep

\* Bind reads the clock.
LEMMA BindStep ==
  ASSUME EnrolInv, NEW r \in Requests, Bind(r)
  PROVE  EnrolInv'
<1>1. r \in DOMAIN requests /\ requests[r] \in Request /\ now \in -1..MaxTime
  BY EnrolmentAssumption DEF Bind, EnrolInv, TypeOK
<1>2. PICK q \in Request : q = requests[r]
  BY <1>1
<1>3. [q EXCEPT !.time = now] \in Request /\ [q EXCEPT !.time = now].key = q.key
  BY <1>1 DEF Request
<1>4. requests' = [requests EXCEPT ![r] = [q EXCEPT !.time = now]]
      /\ UNCHANGED <<now, codes, agents, file, cli, hasty>>
  BY <1>2 DEF Bind
<1>5. /\ DOMAIN requests' = DOMAIN requests /\ requests' \in [DOMAIN requests' -> Request]
      /\ \A x \in DOMAIN requests' : requests'[x].key = requests[x].key
  BY <1>1, <1>2, <1>3, <1>4 DEF EnrolInv, TypeOK
<1>6. TypeOK'
  BY <1>4, <1>5 DEF EnrolInv, TypeOK
<1>7. CodesOK'
  BY <1>4 DEF EnrolInv, CodesOK
<1>. QED
  BY <1>4, <1>5, <1>6, <1>7, ControllerStep

\* The transaction of ConsumeBindingCode.
LEMMA ConsumeStep ==
  ASSUME EnrolInv, NEW r \in Requests, NEW a \in AgentIds, ConsumeBindingCode(r, a)
  PROVE  EnrolInv'
<1>1. r \in DOMAIN requests /\ requests[r] \in Request /\ a \notin DOMAIN agents
      /\ UNCHANGED <<now, file, cli, hasty>>
  BY DEF ConsumeBindingCode, EnrolInv, TypeOK
<1>2. PICK q \in Request : q = requests[r]
  BY <1>1
<1>3. ASSUME NEW reply \in AgentIds \cup {Refused},
             requests' = [requests EXCEPT ![r].reply = reply]
      PROVE  /\ DOMAIN requests' = DOMAIN requests /\ requests' \in [DOMAIN requests' -> Request]
             /\ \A x \in DOMAIN requests' : requests'[x].key = requests[x].key
  <2>1. [q EXCEPT !.reply = reply] \in Request /\ [q EXCEPT !.reply = reply].key = q.key
    BY DEF Request
  <2>2. requests' = [requests EXCEPT ![r] = [q EXCEPT !.reply = reply]]
    BY <1>2, <1>3
  <2>. QED
    BY <1>1, <1>2, <2>1, <2>2 DEF EnrolInv, TypeOK
<1>4. CASE ~(Consumable(q) /\ Unbound(q.key))
  <2>1. codes' = codes /\ agents' = agents /\ requests' = [requests EXCEPT ![r].reply = Refused]
    BY <1>2, <1>4 DEF ConsumeBindingCode, RolledBack
  <2>2. /\ DOMAIN requests' = DOMAIN requests /\ requests' \in [DOMAIN requests' -> Request]
        /\ \A x \in DOMAIN requests' : requests'[x].key = requests[x].key
    BY Zenon, <1>3, <2>1
  <2>3. TypeOK'
    BY <1>1, <2>1, <2>2 DEF EnrolInv, TypeOK
  <2>4. CodesOK'
    BY <2>1 DEF EnrolInv, CodesOK
  <2>. QED
    BY <1>1, <2>1, <2>2, <2>3, <2>4, ControllerStep
<1>5. CASE Consumable(q) /\ Unbound(q.key)
  <2>. DEFINE n == [key |-> q.key, code |-> q.code]
  <2>1. /\ codes' = [codes EXCEPT ![q.code].consumed = TRUE]
        /\ agents' = With(agents, a, n)
        /\ requests' = [requests EXCEPT ![r].reply = a]
    BY <1>2, <1>5 DEF ConsumeBindingCode
  <2>2. n \in [key: Keys, code: Codes] /\ n.key = q.key /\ n.code = q.code
    BY DEF Request
  <2>. HIDE DEF n
  <2>3. /\ DOMAIN requests' = DOMAIN requests /\ requests' \in [DOMAIN requests' -> Request]
        /\ \A x \in DOMAIN requests' : requests'[x].key = requests[x].key
    BY Zenon, <1>3, <2>1
  <2>4. /\ DOMAIN agents' = DOMAIN agents \cup {a} /\ agents'[a] = n
        /\ \A x \in DOMAIN agents : agents'[x] = agents[x]
        /\ agents' = [x \in DOMAIN agents' |-> agents'[x]]
    BY <1>1, <2>1 DEF With
  <2>5. agents' \in [DOMAIN agents' -> [key: Keys, code: Codes]]
    <3>1. \A x \in DOMAIN agents' : agents'[x] \in [key: Keys, code: Codes]
      BY <2>2, <2>4 DEF EnrolInv, TypeOK
    <3>. QED
      BY <2>4, <3>1
  <2>6. q.code \in DOMAIN codes /\ ~codes[q.code].consumed
    BY <1>5 DEF Consumable
  <2>7. codes[q.code] \in [expires: Nat, consumed: BOOLEAN]
    BY <2>6 DEF EnrolInv, TypeOK
  <2>8. /\ DOMAIN codes' = DOMAIN codes
        /\ codes' \in [DOMAIN codes' -> [expires: Nat, consumed: BOOLEAN]]
        /\ codes'[q.code].consumed
        /\ \A c \in DOMAIN codes \ {q.code} : codes'[c] = codes[c]
    BY Zenon, <2>1, <2>6, <2>7 DEF EnrolInv, TypeOK
  <2>9. TypeOK'
    BY <1>1, <2>3, <2>4, <2>5, <2>8 DEF EnrolInv, TypeOK
  <2>10. CodesOK'
    <3>1. \A x \in DOMAIN agents : agents[x].code # q.code
      BY <2>6 DEF EnrolInv, CodesOK
    <3>2. \A x \in DOMAIN agents' : agents'[x].code \in DOMAIN codes'
                                    /\ codes'[agents'[x].code].consumed
      BY <2>2, <2>4, <2>6, <2>8, <3>1 DEF EnrolInv, CodesOK
    <3>3. \A c \in DOMAIN codes' : codes'[c].consumed => \E x \in DOMAIN agents' : agents'[x].code = c
      BY <2>2, <2>4, <2>6, <2>8 DEF EnrolInv, CodesOK
    <3>4. \A x, y \in DOMAIN agents' : agents'[x].code = agents'[y].code => x = y
      BY <2>2, <2>4, <3>1 DEF EnrolInv, CodesOK
    <3>. QED
      BY <3>2, <3>3, <3>4 DEF CodesOK
  <2>11. \A x \in DOMAIN agents' :
           \/ x \in DOMAIN agents /\ agents'[x] = agents[x]
           \/ \E y \in DOMAIN requests : agents'[x].key = requests[y].key
    BY <1>1, <1>2, <2>2, <2>4
  <2>. QED
    BY <1>1, <2>3, <2>9, <2>10, <2>11, ControllerStep
<1>. QED
  BY <1>4, <1>5
-----------------------------------------------------------------------------
\* Nothing is bound, and nobody has a key.
LEMMA EnrolInit == Init => EnrolInv
<1>. SUFFICES ASSUME Init PROVE EnrolInv
  OBVIOUS
<1>1. DOMAIN codes = {} /\ DOMAIN agents = {} /\ DOMAIN requests = {}
  BY DEF Init
<1>2. TypeOK
  BY <1>1, EnrolmentAssumption DEF Init, TypeOK, KeyFile, Absent, Idle, Binding
<1>3. \A p \in Runs : cli[p].at = "idle"
  BY DEF Init, Idle
<1>4. /\ OneCreator /\ \A p \in Runs : RunOK(p)
      /\ \A m \in Machines : file[m].state = "full" => file[m].key \in Keys
  BY <1>3 DEF Init, OneCreator, Creates, RunOK, StageOK, Absent
<1>. QED
  BY <1>1, <1>2, <1>4 DEF EnrolInv, KeysOK, CodesOK

\* Every step keeps the invariant.
LEMMA EnrolStep == EnrolInv /\ [Next]_vars => EnrolInv'
<1>. SUFFICES ASSUME EnrolInv, [Next]_vars PROVE EnrolInv'
  OBVIOUS
<1>1. CASE Tick \/ UNCHANGED vars
  <2>1. UNCHANGED <<codes, agents, file, cli, requests, hasty>> /\ now' \in 0..MaxTime
    BY <1>1, EnrolmentAssumption DEF Tick, vars, EnrolInv, TypeOK
  <2>2. TypeOK' /\ CodesOK'
    BY <2>1 DEF EnrolInv, TypeOK, CodesOK
  <2>. QED
    BY <2>1, <2>2, ControllerStep
<1>2. CASE \E c \in Codes : Issue(c)
  BY <1>2, IssueStep
<1>3. CASE \E r \in Requests : Bind(r) \/ \E a \in AgentIds : ConsumeBindingCode(r, a)
  BY <1>3, BindStep, ConsumeStep
<1>4. ASSUME NEW p \in Runs,
             \/ \E m \in Machines, c \in Codes : Start(p, m, c)
             \/ \E k \in Keys : Create(p, k)
             \/ \E ok \in BOOLEAN : Write(p, ok) \/ Sync(p, ok) \/ Close(p, ok)
             \/ \E r \in Requests : Send(p, r)
             \/ Load(p) \/ Reload(p) \/ Receive(p) \/ End(p)
      PROVE  EnrolInv'
  BY Zenon, <1>4, StartStep, CreateStep, FileStepKeeps, SendStep, LoadStep, EndStep
<1>5. CASE \E m \in Machines : PowerLoss(m)
  BY Zenon, <1>5, PowerLossStep
<1>. QED
  BY <1>1, <1>2, <1>3, <1>4, <1>5 DEF Next

\* The inductive invariant holds in every reachable state.
THEOREM EnrolmentInvariant == Spec => []EnrolInv
BY EnrolInit, EnrolStep, PTL DEF Spec

\* However many requests race for a code, it is used up exactly when it has
\* bound one Agent.
THEOREM CodeBindsOneAlways == Spec => []CodeBindsOne
<1>1. EnrolInv => CodeBindsOne
  <2>. SUFFICES ASSUME EnrolInv, NEW c \in DOMAIN codes
                PROVE  Cardinality({a \in DOMAIN agents : agents[a].code = c})
                         = IF codes[c].consumed THEN 1 ELSE 0
    BY DEF CodeBindsOne, EnrolInv
  <2>1. CASE codes[c].consumed
    <3>1. PICK a \in DOMAIN agents : agents[a].code = c
      BY <2>1 DEF EnrolInv, CodesOK
    <3>2. {x \in DOMAIN agents : agents[x].code = c} = {a}
      BY <3>1 DEF EnrolInv, CodesOK
    <3>. QED
      BY <2>1, <3>2, FS_Singleton
  <2>2. CASE ~codes[c].consumed
    <3>1. {x \in DOMAIN agents : agents[x].code = c} = {}
      BY <2>2 DEF EnrolInv, CodesOK
    <3>. QED
      BY <2>2, <3>1, FS_EmptySet
  <2>. QED
    BY <2>1, <2>2
<1>. QED
  BY <1>1, EnrolmentInvariant, PTL

\* Whatever is killed or loses power when, and however many runs race for the file: the
\* key of a bound Agent is in a synced key file, unless a run loaded it from a file that its
\* creator has not finished.
THEOREM BoundKeyOnDiskAlways == Spec => []BoundKeyOnDisk
<1>1. EnrolInv => BoundKeyOnDisk
  BY DEF EnrolInv, KeysOK, Safe, Finished, Unfinished, BoundKeyOnDisk
<1>. QED
  BY <1>1, EnrolmentInvariant, PTL
=============================================================================
