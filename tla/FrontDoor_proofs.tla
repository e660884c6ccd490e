-------------------------- MODULE FrontDoor_proofs --------------------------
(***************************************************************************)
(* Proofs about FrontDoor and Tokens, for any number of connections, hosts,*)
(* tokens, crashes and failing file operations.                            *)
(***************************************************************************)
EXTENDS FrontDoor, TLAPS

(***************************************************************************)
(* The inductive invariant.                                                *)
(***************************************************************************)
Saving == {"cert", "certBytes", "key", "keyBytes"}

\* The CA of the process: both halves are there once it is up, and while it
\* saves them they belong together.
ProcOK ==
  /\ proc.pc = "up" => proc.cert \in CAs /\ proc.key \in CAs
  /\ proc.pc \in Saving => proc.cert \in CAs /\ proc.key = proc.cert

\* The key file is written last, and the process that writes it has written
\* the certificate before.
FilesOK ==
  /\ saved = None => keyFile \notin CAs
  /\ ~spoiled /\ proc.pc \in Saving \cup {"generate"} => saved = None
  /\ proc.pc \in {"key", "keyBytes"} => certFile = proc.cert

\* There are connections and leaves only while the process is up, and a leaf
\* only for a host that was asked for and only if its CA could sign it.
ConnsOK ==
  /\ proc.pc # "up" => leafCache = {} /\ \A c \in Conns : conn[c].pc = "none"
  /\ leafCache # {} => proc.key = proc.cert
  /\ \A c \in Conns : conn[c].pc = "leaf" => conn[c].host \in Hosts
  /\ \A c \in Conns : conn[c].pc \in {"handshake", "serve"} => conn[c].host \in leafCache

\* A token is in the store with the expiry it was issued with, or it has been
\* found expired.
TokensOK ==
  \A t \in Bearers :
    /\ expiry[t] \in {0, granted[t]}
    /\ granted[t] # 0 /\ expiry[t] = 0 => clock > granted[t]

IInv ==
  /\ TypeOK
  /\ ProcOK
  /\ FilesOK
  /\ CASurvivesRestarts
  /\ ConnsOK
  /\ TokensOK

(***************************************************************************)
(* Tokens.                                                                 *)
(***************************************************************************)
TokenOp ==
  \/ Tick
  \/ \E t \in Bearers : Issue(t) \/ Lookup(t)
  \/ ResetTokens
  \/ UNCHANGED tokenVars

LEMMA TokensTypeStep == TokensTypeOK /\ TokenOp => TokensTypeOK'
<1> SUFFICES ASSUME TokensTypeOK, TokenOp PROVE TokensTypeOK'
  OBVIOUS
<1> USE TokensAssumption DEF TokensTypeOK
<1>1. CASE Tick
  BY <1>1 DEF Tick
<1>2. ASSUME NEW t \in Bearers, Issue(t) PROVE TokensTypeOK'
  BY <1>2 DEF Issue
<1>3. ASSUME NEW t \in Bearers, Lookup(t) PROVE TokensTypeOK'
  BY <1>3 DEF Lookup
<1>4. CASE ResetTokens
  BY <1>4 DEF ResetTokens, NoTokens
<1>5. CASE UNCHANGED tokenVars
  BY <1>5 DEF tokenVars
<1> QED BY <1>1, <1>2, <1>3, <1>4, <1>5 DEF TokenOp

LEMMA TokensStep == TokensTypeOK /\ TokensOK /\ TokenOp => TokensOK'
<1> SUFFICES ASSUME TokensTypeOK, TokensOK, TokenOp PROVE TokensOK'
  OBVIOUS
<1> USE TokensAssumption DEF TokensTypeOK, TokensOK
<1>1. CASE Tick
  BY <1>1 DEF Tick
<1>2. ASSUME NEW t \in Bearers, Issue(t) PROVE TokensOK'
  BY <1>2 DEF Issue
<1>3. ASSUME NEW t \in Bearers, Lookup(t) PROVE TokensOK'
  <2>1. /\ \A s \in Bearers \ {t} : expiry'[s] = expiry[s]
        /\ expiry'[t] = IF clock > expiry[t] THEN 0 ELSE expiry[t]
        /\ granted' = granted /\ clock' = clock
    BY <1>3 DEF Lookup
  <2> QED BY <2>1
<1>4. CASE ResetTokens
  BY <1>4 DEF ResetTokens, NoTokens
<1>5. CASE UNCHANGED tokenVars
  BY <1>5 DEF tokenVars
<1> QED BY <1>1, <1>2, <1>3, <1>4, <1>5 DEF TokenOp

\* The only thing that happens to the tokens is an operation on the store.
LEMMA NextIsTokenOp == [Next]_vars => TokenOp
<1> SUFFICES ASSUME [Next]_vars PROVE TokenOp
  OBVIOUS
<1>1. CASE Start \/ Load \/ LoadNothing \/ LoadFails
  BY <1>1 DEF Start, Load, LoadNothing, LoadFails, TokenOp
<1>2. ASSUME NEW a \in CAs, Generate(a) PROVE TokenOp
  BY <1>2 DEF Generate, TokenOp
<1>3. CASE SaveCert \/ SaveCertBytes \/ SaveKey \/ SaveKeyBytes \/ SaveFails
  BY <1>3 DEF SaveCert, SaveCertBytes, SaveKey, SaveKeyBytes, SaveFails, TokenOp
<1>4. CASE Crash
  BY <1>4 DEF Crash, TokenOp
<1>5. ASSUME NEW c \in Conns,
             Accept(c) \/ ClientLeaves(c) \/ ReadOther(c) \/ Leaf(c) \/ Handshake(c)
             \/ HandshakeRefused(c) \/ HandshakeEnds(c) \/ Answer(c) \/ HttpEnds(c)
      PROVE  TokenOp
  BY <1>5 DEF Accept, ClientLeaves, ReadOther, Leaf, Handshake, HandshakeRefused,
              HandshakeEnds, Answer, HttpEnds, TokenOp
<1>6. ASSUME NEW c \in Conns, NEW h \in Hosts, NEW early \in BOOLEAN, ReadConnect(c, h, early)
      PROVE  TokenOp
  BY <1>6 DEF ReadConnect, TokenOp
<1>7. ASSUME NEW c \in Conns, NEW t \in Bearers, Request(c, t) PROVE TokenOp
  BY <1>7 DEF Request, TokenOp
<1>8. CASE TokenStep
  BY <1>8 DEF TokenStep, TokenOp
<1>9. CASE UNCHANGED vars
  BY <1>9 DEF vars, TokenOp, tokenVars
<1> QED BY <1>1, <1>2, <1>3, <1>4, <1>5, <1>6, <1>7, <1>8, <1>9 DEF Next

(***************************************************************************)
(* Connections.                                                            *)
(***************************************************************************)
Process == [pc: {"down", "up"} \cup Booting, cert: CAs \cup {None}, key: CAs \cup {None}]

LEMMA FreshType ==
  /\ Fresh \in Connection
  /\ Fresh.pc = "none"
  /\ [Fresh EXCEPT !.pc = "request", !.open = TRUE] \in Connection
  /\ [Fresh EXCEPT !.pc = "request", !.open = TRUE].pc = "request"
BY DEF Fresh, Connection

\* What a step on connection c does to the state.
Moves(c, x) ==
  /\ UNCHANGED Others
  /\ client' \in [Conns -> BOOLEAN]
  /\ conn' = [conn EXCEPT ![c] = x]
  /\ x.pc # "none" => proc.pc = "up" \/ conn[c].pc # "none"
  /\ x.pc = "leaf" => x.host \in Hosts
  /\ x.pc \in {"handshake", "serve"} => x.host \in leafCache'
  /\ \/ leafCache' = leafCache
     \/ /\ leafCache' = leafCache \cup {conn[c].host}
        /\ conn[c].pc = "leaf"
        /\ leafCache # {} \/ proc.cert = proc.key

OnConn(c) ==
  \/ Accept(c) \/ ClientLeaves(c)
  \/ \E h \in Hosts, early \in BOOLEAN : ReadConnect(c, h, early)
  \/ ReadOther(c) \/ Leaf(c)
  \/ Handshake(c) \/ HandshakeRefused(c) \/ HandshakeEnds(c)
  \/ \E t \in Bearers : Request(c, t)
  \/ Answer(c) \/ HttpEnds(c)

LEMMA OnConnMoves ==
  ASSUME TypeOK, ConnsOK, NEW c \in Conns, OnConn(c)
  PROVE  \E x \in Connection : Moves(c, x)
<1> DEFINE x == conn[c]
<1>1. x \in Connection /\ client \in [Conns -> BOOLEAN] /\ conn \in [Conns -> Connection]
  BY DEF TypeOK
<1>2. /\ x.pc = "leaf" => x.host \in Hosts
      /\ x.pc \in {"handshake", "serve"} => x.host \in leafCache
  BY DEF ConnsOK
<1>3. x.host \in Hosts \cup {None}
  BY <1>1 DEF Connection
<1>4. CASE Accept(c)
  BY <1>1, <1>4, FreshType DEF Accept, Moves
<1>5. CASE ClientLeaves(c)
  <2>1. conn' = [conn EXCEPT ![c] = x]
    BY <1>1, <1>5 DEF ClientLeaves
  <2> QED BY <1>1, <1>2, <1>5, <2>1 DEF ClientLeaves, Moves
<1>6. ASSUME NEW h \in Hosts, NEW early \in BOOLEAN, ReadConnect(c, h, early)
      PROVE  \E y \in Connection : Moves(c, y)
  <2> DEFINE y == [x EXCEPT !.pc = "leaf", !.host = h, !.early = early]
  <2>1. y \in Connection /\ y.pc = "leaf" /\ y.host = h
    BY <1>1 DEF Connection
  <2>2. conn' = [conn EXCEPT ![c] = y] /\ x.pc # "none"
    BY <1>6 DEF ReadConnect
  <2>3. UNCHANGED Others /\ client' = client /\ leafCache' = leafCache
    BY <1>6 DEF ReadConnect
  <2> QED
    <3> HIDE DEF y
    <3> QED BY <1>1, <2>1, <2>2, <2>3 DEF Moves
<1>7. ASSUME Return(c), x.pc # "none", UNCHANGED <<client, leafCache, Others>>
      PROVE  \E y \in Connection : Moves(c, y)
  <2> DEFINE y == [x EXCEPT !.pc = "returned", !.open = FALSE]
  <2>1. y \in Connection /\ y.pc = "returned"
    BY <1>1, <1>3 DEF Connection
  <2>2. conn' = [conn EXCEPT ![c] = y]
    BY <1>7 DEF Return
  <2> QED
    <3> HIDE DEF y
    <3> QED BY <1>1, <1>7, <2>1, <2>2 DEF Moves
<1>8. CASE ReadOther(c) \/ HandshakeRefused(c) \/ HandshakeEnds(c)
  BY <1>7, <1>8 DEF ReadOther, HandshakeRefused, HandshakeEnds
<1>9. CASE Leaf(c)
  <2>1. CASE x.host \in leafCache \/ proc.cert = proc.key
    <3> DEFINE y == [x EXCEPT !.pc = "handshake"]
    <3>1. y \in Connection /\ y.pc = "handshake" /\ y.host = x.host
      BY <1>1, <1>3 DEF Connection
    <3>2. /\ conn' = [conn EXCEPT ![c] = y] /\ x.pc = "leaf"
          /\ leafCache' = leafCache \cup {x.host}
          /\ UNCHANGED Others /\ client' = client
      BY <1>9, <2>1 DEF Leaf, CanSign
    <3> QED
      <4> HIDE DEF y
      <4> QED BY <1>1, <2>1, <3>1, <3>2 DEF Moves
  <2>2. CASE ~(x.host \in leafCache \/ proc.cert = proc.key)
    BY <1>7, <1>9, <2>2 DEF Leaf, CanSign
  <2> QED BY <2>1, <2>2
<1>10. CASE Handshake(c)
  <2> DEFINE y == [x EXCEPT !.pc = "serve", !.http = "idle"]
  <2>1. y \in Connection /\ y.pc = "serve" /\ y.host = x.host
    BY <1>1, <1>3 DEF Connection
  <2>2. /\ conn' = [conn EXCEPT ![c] = y] /\ x.pc = "handshake"
        /\ UNCHANGED Others /\ client' = client /\ leafCache' = leafCache
    BY <1>10 DEF Handshake
  <2> QED
    <3> HIDE DEF y
    <3> QED BY <1>1, <1>2, <2>1, <2>2 DEF Moves
<1>11. ASSUME NEW y \in Connection, conn' = [conn EXCEPT ![c] = y],
              y.pc = x.pc, y.host = x.host, UNCHANGED <<client, leafCache, Others>>
       PROVE  \E z \in Connection : Moves(c, z)
  BY <1>1, <1>2, <1>11 DEF Moves
<1>12. ASSUME NEW http \in {"none", "idle", "busy", "ended"}, NEW open \in BOOLEAN
       PROVE  /\ [x EXCEPT !.http = http] \in Connection
              /\ [x EXCEPT !.http = http].pc = x.pc
              /\ [x EXCEPT !.http = http].host = x.host
              /\ [x EXCEPT !.http = http, !.open = open] \in Connection
              /\ [x EXCEPT !.http = http, !.open = open].pc = x.pc
              /\ [x EXCEPT !.http = http, !.open = open].host = x.host
  BY <1>1, <1>3, <1>12 DEF Connection
<1>13. ASSUME NEW t \in Bearers, Request(c, t) PROVE \E y \in Connection : Moves(c, y)
  <2>1. CASE Accepted(t)
    <3>1. /\ conn' = [conn EXCEPT ![c] = [x EXCEPT !.http = "busy"]]
          /\ UNCHANGED <<client, leafCache, Others>>
      BY <1>13, <2>1 DEF Request
    <3> QED BY <1>11, <1>12, <3>1
  <2>2. CASE ~Accepted(t)
    <3>1. conn' = [conn EXCEPT ![c] = x] /\ UNCHANGED <<client, leafCache, Others>>
      BY <1>1, <1>13, <2>2 DEF Request
    <3> QED BY <1>1, <1>11, <3>1
  <2> QED BY <2>1, <2>2
<1>14. CASE Answer(c)
  <2>1. /\ conn' = [conn EXCEPT ![c] = [x EXCEPT !.http = "idle"]]
        /\ UNCHANGED <<client, leafCache, Others>>
    BY <1>14 DEF Answer
  <2> QED BY <1>11, <1>12, <2>1
<1>15. CASE HttpEnds(c)
  <2>1. /\ conn' = [conn EXCEPT ![c] = [x EXCEPT !.http = "ended", !.open = FALSE]]
        /\ UNCHANGED <<client, leafCache, Others>>
    BY <1>15 DEF HttpEnds
  <2> QED BY <1>11, <1>12, <2>1
<1> QED
  BY <1>4, <1>5, <1>6, <1>8, <1>9, <1>10, <1>13, <1>14, <1>15 DEF OnConn

(***************************************************************************)
(* The start of the process.                                               *)
(***************************************************************************)
OnBoot ==
  \/ Start \/ Load \/ LoadNothing \/ LoadFails
  \/ \E a \in CAs : Generate(a)
  \/ SaveCert \/ SaveCertBytes \/ SaveKey \/ SaveKeyBytes \/ SaveFails

LEMMA NextSteps ==
  Next => OnBoot \/ Crash \/ (\E c \in Conns : OnConn(c)) \/ TokenStep
BY DEF Next, OnBoot, OnConn

LEMMA BootMoves ==
  ASSUME NEW pc \in {"down", "up"} \cup Booting, proc \in Process, Boot(pc)
  PROVE  proc' \in Process /\ proc'.pc = pc /\ proc'.cert = proc.cert /\ proc'.key = proc.key
BY DEF Boot, Process

\* No step of the start touches a connection, and none is taken once the
\* process is up.
LEMMA BootQuiet ==
  ASSUME TypeOK, OnBoot
  PROVE  proc.pc # "up" /\ UNCHANGED <<conn, client, leafCache>>
<1>1. CASE Start \/ Load \/ LoadNothing \/ LoadFails
  BY <1>1 DEF Start, Load, LoadNothing, LoadFails
<1>2. ASSUME NEW a \in CAs, Generate(a) PROVE proc.pc # "up" /\ UNCHANGED <<conn, client, leafCache>>
  BY <1>2 DEF Generate
<1>3. CASE SaveCert \/ SaveCertBytes \/ SaveKey \/ SaveKeyBytes \/ SaveFails
  BY <1>3 DEF SaveCert, SaveCertBytes, SaveKey, SaveKeyBytes, SaveFails
<1> QED BY <1>1, <1>2, <1>3 DEF OnBoot

LEMMA BootConns == ASSUME TypeOK, ConnsOK, OnBoot PROVE ConnsOK'
BY BootQuiet DEF ConnsOK

\* The state of the start.
StartOK ==
  /\ proc \in Process
  /\ certFile \in File /\ keyFile \in File
  /\ generated \subseteq CAs
  /\ faults \in 0..MaxFaults
  /\ saved \in CAs \cup {None}
  /\ spoiled \in BOOLEAN

LEMMA TypeParts ==
  TypeOK <=> /\ TokensTypeOK /\ StartOK /\ leafCache \subseteq Hosts
             /\ conn \in [Conns -> Connection] /\ client \in [Conns -> BOOLEAN]
BY DEF TypeOK, StartOK, Process

LEMMA PartsType ==
  ASSUME TokensTypeOK', StartOK', leafCache' \subseteq Hosts,
         conn' \in [Conns -> Connection], client' \in [Conns -> BOOLEAN]
  PROVE  TypeOK'
BY DEF TypeOK, StartOK, Process

LEMMA BootStep ==
  ASSUME StartOK, ProcOK, FilesOK, CASurvivesRestarts, OnBoot
  PROVE  StartOK' /\ ProcOK' /\ FilesOK' /\ CASurvivesRestarts'
<1> DEFINE Goal == StartOK' /\ ProcOK' /\ FilesOK' /\ CASurvivesRestarts'
<1> USE NoneAssumption, BrokenAssumption DEF Booting, Saving
<1>1. proc \in Process /\ certFile \in File /\ keyFile \in File
  BY DEF StartOK
<1>2. CASE Start
  <2>1. Boot("load") /\ UNCHANGED <<certFile, keyFile, generated, faults, saved, spoiled>>
    BY <1>2 DEF Start
  <2>2. proc' \in Process /\ proc'.pc = "load"
    BY <1>1, <2>1, BootMoves
  <2> QED BY <2>1, <2>2 DEF StartOK, ProcOK, FilesOK, CASurvivesRestarts
<1>3. CASE Load
  <2>1. /\ proc'.pc = "up" /\ proc'.cert = certFile /\ proc'.key = keyFile /\ proc' \in Process
        /\ {certFile, keyFile} \subseteq CAs
        /\ UNCHANGED <<certFile, keyFile, generated, faults, saved, spoiled>>
    BY <1>3 DEF Load, Process
  <2> QED BY <2>1 DEF StartOK, ProcOK, FilesOK, CASurvivesRestarts
<1>4. CASE LoadNothing
  <2>1. Boot("generate") /\ UNCHANGED <<certFile, keyFile, generated, faults, saved, spoiled>>
    BY <1>4 DEF LoadNothing
  <2>2. proc' \in Process /\ proc'.pc = "generate"
    BY <1>1, <2>1, BootMoves
  <2>3. ~spoiled => saved = None
    BY <1>4 DEF LoadNothing, CASurvivesRestarts, StartOK
  <2> QED BY <2>1, <2>2, <2>3 DEF StartOK, ProcOK, FilesOK, CASurvivesRestarts
<1>5. CASE LoadFails
  <2>1. Boot("generate") /\ UNCHANGED <<certFile, keyFile, generated, saved>> /\ spoiled' = TRUE
    BY <1>5 DEF LoadFails
  <2>2. proc' \in Process /\ proc'.pc = "generate"
    BY <1>1, <2>1, BootMoves
  <2>3. faults' \in 0..MaxFaults
    BY <1>5, FaultsAssumption DEF LoadFails, Fault, StartOK
  <2> QED BY <2>1, <2>2, <2>3 DEF StartOK, ProcOK, FilesOK, CASurvivesRestarts
<1>6. ASSUME NEW a \in CAs, Generate(a) PROVE Goal
  <2>1. /\ proc'.pc = "cert" /\ proc'.cert = a /\ proc'.key = a /\ proc' \in Process
        /\ generated' \subseteq CAs /\ proc.pc = "generate"
        /\ UNCHANGED <<certFile, keyFile, faults, saved, spoiled>>
    BY <1>6 DEF Generate, Process, StartOK
  <2> QED BY <2>1 DEF StartOK, ProcOK, FilesOK, CASurvivesRestarts
<1>7. CASE SaveCert
  <2>1. /\ Boot("certBytes") /\ certFile' = Broken /\ proc.pc = "cert"
        /\ UNCHANGED <<keyFile, generated, faults, saved, spoiled>>
    BY <1>7 DEF SaveCert
  <2>2. proc' \in Process /\ proc'.pc = "certBytes" /\ proc'.cert = proc.cert /\ proc'.key = proc.key
    BY <1>1, <2>1, BootMoves
  <2> QED BY <2>1, <2>2 DEF StartOK, ProcOK, FilesOK, CASurvivesRestarts, File
<1>8. CASE SaveCertBytes
  <2>1. /\ Boot("key") /\ certFile' = proc.cert /\ proc.pc = "certBytes"
        /\ UNCHANGED <<keyFile, generated, faults, saved, spoiled>>
    BY <1>8 DEF SaveCertBytes
  <2>2. proc' \in Process /\ proc'.pc = "key" /\ proc'.cert = proc.cert /\ proc'.key = proc.key
    BY <1>1, <2>1, BootMoves
  <2> QED BY <2>1, <2>2 DEF StartOK, ProcOK, FilesOK, CASurvivesRestarts, File
<1>9. CASE SaveKey
  <2>1. /\ Boot("keyBytes") /\ keyFile' = Broken /\ proc.pc = "key"
        /\ UNCHANGED <<certFile, generated, faults, saved, spoiled>>
    BY <1>9 DEF SaveKey
  <2>2. proc' \in Process /\ proc'.pc = "keyBytes" /\ proc'.cert = proc.cert /\ proc'.key = proc.key
    BY <1>1, <2>1, BootMoves
  <2> QED BY <2>1, <2>2 DEF StartOK, ProcOK, FilesOK, CASurvivesRestarts, File
<1>10. CASE SaveKeyBytes
  <2>1. /\ Boot("up") /\ keyFile' = proc.key /\ proc.pc = "keyBytes"
        /\ saved' = IF saved = None THEN proc.key ELSE saved
        /\ UNCHANGED <<certFile, generated, faults, spoiled>>
    BY <1>10 DEF SaveKeyBytes
  <2>2. proc' \in Process /\ proc'.pc = "up" /\ proc'.cert = proc.cert /\ proc'.key = proc.key
    BY <1>1, <2>1, BootMoves
  <2> QED BY <2>1, <2>2 DEF StartOK, ProcOK, FilesOK, CASurvivesRestarts, File
<1>11. CASE SaveFails
  <2>1. /\ Boot("up") /\ proc.pc \in Saving
        /\ UNCHANGED <<certFile, keyFile, generated, saved, spoiled>>
    BY <1>11 DEF SaveFails
  <2>2. proc' \in Process /\ proc'.pc = "up" /\ proc'.cert = proc.cert /\ proc'.key = proc.key
    BY <1>1, <2>1, BootMoves
  <2>3. faults' \in 0..MaxFaults
    BY <1>11, FaultsAssumption DEF SaveFails, Fault, StartOK
  <2> QED BY <2>1, <2>2, <2>3 DEF StartOK, ProcOK, FilesOK, CASurvivesRestarts
<1> QED
  BY <1>2, <1>3, <1>4, <1>5, <1>6, <1>7, <1>8, <1>9, <1>10, <1>11 DEF OnBoot

(***************************************************************************)
(* Crashes and steps of connections and tokens.                            *)
(***************************************************************************)
LEMMA CrashStep ==
  ASSUME TypeOK, ProcOK, FilesOK, CASurvivesRestarts, TokensTypeOK', Crash
  PROVE  TypeOK' /\ ProcOK' /\ FilesOK' /\ CASurvivesRestarts' /\ ConnsOK'
<1>1. /\ proc' \in Process /\ proc'.pc = "down" /\ leafCache' = {}
      /\ UNCHANGED <<certFile, keyFile, generated, faults, saved, spoiled>>
  BY DEF Crash, Process
<1>2. /\ conn' \in [Conns -> Connection] /\ \A c \in Conns : conn'[c].pc = "none"
      /\ client' \in [Conns -> BOOLEAN]
  BY FreshType DEF Crash
<1>3. StartOK'
  BY <1>1, TypeParts DEF StartOK
<1>4. TypeOK'
  BY <1>1, <1>2, <1>3, PartsType
<1>5. ProcOK' /\ FilesOK' /\ CASurvivesRestarts'
  BY <1>1 DEF ProcOK, FilesOK, CASurvivesRestarts, Saving
<1>6. ConnsOK'
  BY <1>1, <1>2 DEF ConnsOK
<1> QED BY <1>4, <1>5, <1>6

\* A step that leaves files and process alone keeps what is said of them.
LEMMA StartStutters ==
  ASSUME StartOK, ProcOK, FilesOK, CASurvivesRestarts, UNCHANGED Others
  PROVE  StartOK' /\ ProcOK' /\ FilesOK' /\ CASurvivesRestarts'
BY DEF Others, StartOK, ProcOK, FilesOK, CASurvivesRestarts

LEMMA ConnStep ==
  ASSUME TypeOK, ConnsOK, NEW c \in Conns, OnConn(c)
  PROVE  /\ UNCHANGED Others /\ leafCache' \subseteq Hosts
         /\ conn' \in [Conns -> Connection] /\ client' \in [Conns -> BOOLEAN]
         /\ ConnsOK'
<1>1. PICK x \in Connection : Moves(c, x)
  BY OnConnMoves
<1>2. /\ UNCHANGED Others /\ proc' = proc
      /\ client' \in [Conns -> BOOLEAN]
  BY <1>1 DEF Moves, Others
<1>3. conn \in [Conns -> Connection] /\ leafCache \subseteq Hosts
  BY DEF TypeOK
<1>4. /\ conn' \in [Conns -> Connection]
      /\ conn'[c] = x
      /\ \A d \in Conns \ {c} : conn'[d] = conn[d]
  BY <1>1, <1>3 DEF Moves
<1>5. leafCache \subseteq leafCache' /\ leafCache' \subseteq Hosts
  BY <1>1, <1>3 DEF Moves, ConnsOK
<1>6. proc.pc # "up" => leafCache' = {} /\ x.pc = "none"
  BY <1>1 DEF Moves, ConnsOK
<1>7. leafCache' # {} => proc.key = proc.cert
  BY <1>1 DEF Moves, ConnsOK
<1>8. /\ x.pc = "leaf" => x.host \in Hosts
      /\ x.pc \in {"handshake", "serve"} => x.host \in leafCache'
  BY <1>1 DEF Moves
<1>9. ConnsOK'
  BY <1>2, <1>4, <1>5, <1>6, <1>7, <1>8 DEF ConnsOK
<1> QED BY <1>2, <1>4, <1>5, <1>9

(***************************************************************************)
(* The theorems.                                                           *)
(***************************************************************************)
LEMMA InitInv == Init => IInv
<1> SUFFICES ASSUME Init PROVE IInv
  OBVIOUS
<1> USE NoneAssumption, BrokenAssumption DEF Init
<1>1. TypeOK
  <2>1. TokensTypeOK
    BY TokensAssumption DEF TokensTypeOK, TokensInit, NoTokens
  <2>2. StartOK
    <3>1. proc \in Process
      BY DEF Process
    <3>2. faults \in 0..MaxFaults
      BY FaultsAssumption
    <3> QED BY <3>1, <3>2 DEF StartOK, File
  <2>3. conn \in [Conns -> Connection] /\ client \in [Conns -> BOOLEAN] /\ leafCache \subseteq Hosts
    BY FreshType
  <2> QED BY <2>1, <2>2, <2>3, TypeParts
<1>2. ProcOK /\ FilesOK /\ CASurvivesRestarts
  BY DEF ProcOK, FilesOK, CASurvivesRestarts, Saving
<1>3. ConnsOK
  BY FreshType DEF ConnsOK
<1>4. TokensOK
  BY DEF TokensOK, TokensInit, NoTokens
<1> QED BY <1>1, <1>2, <1>3, <1>4 DEF IInv

LEMMA StepInv == IInv /\ [Next]_vars => IInv'
<1> SUFFICES ASSUME IInv, [Next]_vars PROVE IInv'
  OBVIOUS
<1>1. TypeOK /\ ProcOK /\ FilesOK /\ CASurvivesRestarts /\ ConnsOK /\ TokensOK
  BY DEF IInv
<1>2. TokensTypeOK /\ StartOK /\ TokenOp
  BY <1>1, TypeParts, NextIsTokenOp
<1>3. TokensTypeOK' /\ TokensOK'
  BY <1>1, <1>2, TokensTypeStep, TokensStep
<1>4. CASE OnBoot
  <2>1. StartOK' /\ ProcOK' /\ FilesOK' /\ CASurvivesRestarts'
    BY <1>1, <1>2, <1>4, BootStep
  <2>2. ConnsOK' /\ UNCHANGED <<conn, client, leafCache>>
    BY <1>1, <1>4, BootConns, BootQuiet
  <2>3. TypeOK'
    BY <1>1, <1>3, <2>1, <2>2, PartsType, TypeParts
  <2> QED BY <1>3, <2>1, <2>2, <2>3 DEF IInv
<1>5. CASE Crash
  BY <1>1, <1>3, <1>5, CrashStep DEF IInv
<1>6. ASSUME NEW c \in Conns, OnConn(c) PROVE IInv'
  <2>1. /\ UNCHANGED Others /\ leafCache' \subseteq Hosts
        /\ conn' \in [Conns -> Connection] /\ client' \in [Conns -> BOOLEAN]
        /\ ConnsOK'
    BY <1>1, <1>6, ConnStep
  <2>2. StartOK' /\ ProcOK' /\ FilesOK' /\ CASurvivesRestarts'
    BY <1>1, <1>2, <2>1, StartStutters
  <2>3. TypeOK'
    BY <1>3, <2>1, <2>2, PartsType
  <2> QED BY <1>3, <2>1, <2>2, <2>3 DEF IInv
<1>7. CASE TokenStep \/ UNCHANGED vars
  <2>1. UNCHANGED <<conn, client, leafCache, Others>>
    BY <1>7 DEF TokenStep, vars, Others
  <2>2. StartOK' /\ ProcOK' /\ FilesOK' /\ CASurvivesRestarts'
    BY <1>1, <1>2, <2>1, StartStutters
  <2>3. ConnsOK'
    BY <1>1, <2>1 DEF ConnsOK, Others
  <2>4. TypeOK'
    BY <1>1, <1>3, <2>1, <2>2, PartsType, TypeParts
  <2> QED BY <1>3, <2>2, <2>3, <2>4 DEF IInv
<1> QED BY <1>4, <1>5, <1>6, <1>7, NextSteps

\* IInv is an inductive invariant of the front door.
THEOREM Inductive == Spec => []IInv
<1>1. Init => IInv
  BY InitInv
<1>2. IInv /\ [Next]_vars => IInv'
  BY StepInv
<1> QED BY <1>1, <1>2, PTL DEF Spec

\* Every variable keeps its type.
THEOREM TypeCorrect == Spec => []TypeOK
<1>1. IInv => TypeOK
  BY DEF IInv
<1> QED BY <1>1, Inductive, PTL

\* Whatever crashes and failing writes come between, the first pair of files
\* written whole is the CA of every later start (newTLSMITMWithCADir).
THEOREM CAAlwaysSurvives == Spec => []CASurvivesRestarts
<1>1. IInv => CASurvivesRestarts
  BY DEF IInv
<1> QED BY <1>1, Inductive, PTL

\* A handshake is only ever tried with a leaf that verifies against the CA the
\* process serves (leafFor, handleConn).
THEOREM LeavesAlwaysVerify == Spec => []LeavesVerify
<1>1. IInv => LeavesVerify
  <2> SUFFICES ASSUME IInv, NEW c \in Conns, conn[c].pc \in {"handshake", "serve"}
               PROVE  proc.cert \in CAs /\ proc.key = proc.cert /\ conn[c].host \in leafCache
    BY DEF LeavesVerify
  <2>1. conn[c].pc # "none"
    OBVIOUS
  <2>2. proc.pc = "up" /\ conn[c].host \in leafCache /\ proc.key = proc.cert
    BY <2>1 DEF IInv, ConnsOK
  <2> QED BY <2>2 DEF IInv, ProcOK
<1> QED BY <1>1, Inductive, PTL

\* A token is accepted exactly until its expiry, whenever lookups prune the
\* store (Valid), unless a reset or a restart has revoked it.
THEOREM TokensAlwaysHonoured == Spec => []HonouredToItsExpiry
<1>1. IInv => HonouredToItsExpiry
  <2> SUFFICES ASSUME IInv, NEW t \in Bearers
               PROVE  Accepted(t) <=> granted[t] # 0 /\ clock <= granted[t]
    BY DEF HonouredToItsExpiry
  <2>1. clock \in Nat /\ expiry[t] \in Nat /\ granted[t] \in Nat
    BY TokensAssumption DEF IInv, TypeOK, TokensTypeOK
  <2>2. expiry[t] \in {0, granted[t]} /\ (granted[t] # 0 /\ expiry[t] = 0 => clock > granted[t])
    BY DEF IInv, TokensOK
  <2> QED BY <2>1, <2>2 DEF Accepted
<1> QED BY <1>1, Inductive, PTL

(***************************************************************************)
(* Connections whose client has left.                                      *)
(***************************************************************************)
\* The most steps of its handler that are between a connection whose client
\* has left and its Close: nothing more is read from it, but a leaf is made
\* before the handshake fails, and a request is answered.
StepsAtPc ==
  [none |-> 0, request |-> 1, leaf |-> 2, handshake |-> 1, serve |-> 0, returned |-> 0]
StepsOfHttp == [none |-> 0, idle |-> 1, busy |-> 2, ended |-> 0]
StepsToClose(x) == StepsAtPc[x.pc] + StepsOfHttp[x.http]

\* A connection is open exactly while its handler has a step to take that does
\* not need the client, and net/http has it only in "serve".
SocketOK(x) ==
  /\ x.open <=> StepsToClose(x) # 0
  /\ x.http # "none" => x.pc = "serve"

SocketsOK == \A c \in Conns : SocketOK(conn[c])

\* A Close is never further away than a leaf and a failing handshake, or an
\* answer and the end of the stream.
CloseIsNear == \A c \in Conns : StepsToClose(conn[c]) \in 0..2

\* No step takes a connection whose client has left back.
RunsDown ==
  \A c \in Conns : conn[c].open /\ ~client[c] /\ conn'[c] # conn[c] =>
                     StepsToClose(conn'[c]) < StepsToClose(conn[c])

\* What a step makes of a connection.
Descends(x, left, y) ==
  SocketOK(y) /\ (x.open /\ left /\ y # x => StepsToClose(y) < StepsToClose(x))

LEMMA StepsAt ==
  ASSUME NEW x \in Connection
  PROVE  /\ x.pc = "serve" => StepsToClose(x) = StepsOfHttp[x.http]
         /\ x.http = "none" => StepsToClose(x) = StepsAtPc[x.pc]
         /\ StepsOfHttp[x.http] \in 0..2 /\ StepsAtPc[x.pc] \in 0..2
BY DEF StepsToClose, StepsAtPc, StepsOfHttp, Connection

LEMMA FreshSocket ==
  /\ Fresh \in Connection /\ SocketOK(Fresh) /\ ~Fresh.open
  /\ SocketOK([Fresh EXCEPT !.pc = "request", !.open = TRUE])
<1>1. Fresh \in Connection /\ Fresh.pc = "none" /\ Fresh.http = "none" /\ ~Fresh.open
  BY FreshType DEF Fresh
<1>2. SocketOK(Fresh)
  BY <1>1 DEF SocketOK, StepsToClose, StepsAtPc, StepsOfHttp
<1> DEFINE x == [Fresh EXCEPT !.pc = "request", !.open = TRUE]
<1>3. x.pc = "request" /\ x.http = "none" /\ x.open
  BY DEF Fresh
<1>4. SocketOK(x)
  <2> HIDE DEF x
  <2> QED BY <1>3 DEF SocketOK, StepsToClose, StepsAtPc, StepsOfHttp
<1> QED BY <1>1, <1>2, <1>4

\* handleConn returns from before "serve".
LEMMA ReturnDescends ==
  ASSUME TypeOK, SocketsOK, NEW c \in Conns, Return(c),
         conn[c].pc \in {"request", "leaf", "handshake"}
  PROVE  \E y : conn' = [conn EXCEPT ![c] = y] /\ Descends(conn[c], ~client[c], y)
<1> DEFINE x == conn[c]
           y == [x EXCEPT !.pc = "returned", !.open = FALSE]
<1>1. x \in Connection /\ SocketOK(x)
  BY DEF TypeOK, SocketsOK
<1>2. x.http = "none"
  BY <1>1 DEF SocketOK
<1>3. conn' = [conn EXCEPT ![c] = y]
  BY DEF Return
<1>4. y.pc = "returned" /\ ~y.open /\ y.http = x.http
  BY <1>1 DEF Connection
<1> HIDE DEF y
<1>5. StepsToClose(y) = 0 /\ StepsToClose(x) \in {1, 2}
  BY <1>2, <1>4 DEF StepsToClose, StepsAtPc, StepsOfHttp
<1>6. SocketOK(y)
  BY <1>2, <1>4, <1>5 DEF SocketOK
<1>7. StepsToClose(y) < StepsToClose(x)
  BY <1>5
<1>8. Descends(x, ~client[c], y)
  BY <1>6, <1>7 DEF Descends
<1> QED BY <1>3, <1>8

LEMMA OnConnDescends ==
  ASSUME TypeOK, SocketsOK, NEW c \in Conns, OnConn(c)
  PROVE  \E y : conn' = [conn EXCEPT ![c] = y] /\ Descends(conn[c], ~client[c], y)
<1> DEFINE x == conn[c]
           Goal == \E y : conn' = [conn EXCEPT ![c] = y] /\ Descends(x, ~client[c], y)
<1>1. x \in Connection /\ SocketOK(x) /\ conn = [conn EXCEPT ![c] = x]
  BY DEF TypeOK, SocketsOK
<1>2. ASSUME conn' = conn PROVE Goal
  BY <1>1, <1>2 DEF Descends
<1>3. CASE Accept(c)
  <2>1. x.pc = "none" /\ conn' = [conn EXCEPT ![c] = [Fresh EXCEPT !.pc = "request", !.open = TRUE]]
    BY <1>3 DEF Accept
  <2>2. x.http = "none" /\ ~x.open
    BY <1>1, <2>1 DEF SocketOK, StepsToClose, StepsAtPc, StepsOfHttp
  <2> QED BY <2>1, <2>2, FreshSocket DEF Descends
<1>4. CASE ClientLeaves(c)
  BY <1>2, <1>4 DEF ClientLeaves
<1>5. ASSUME NEW h \in Hosts, NEW early \in BOOLEAN, ReadConnect(c, h, early) PROVE Goal
  <2> DEFINE y == [x EXCEPT !.pc = "leaf", !.host = h, !.early = early]
  <2>1. x.pc = "request" /\ client[c] /\ conn' = [conn EXCEPT ![c] = y]
    BY <1>5 DEF ReadConnect
  <2>2. y.pc = "leaf" /\ y.open = x.open /\ y.http = x.http
    BY <1>1 DEF Connection
  <2> HIDE DEF y
  <2>3. SocketOK(y)
    BY <1>1, <2>1, <2>2 DEF SocketOK, StepsToClose, StepsAtPc, StepsOfHttp
  <2> QED BY <2>1, <2>3 DEF Descends
<1>6. CASE ReadOther(c) \/ HandshakeRefused(c) \/ HandshakeEnds(c)
  BY <1>6, ReturnDescends DEF ReadOther, HandshakeRefused, HandshakeEnds
<1>7. CASE Leaf(c)
  <2>1. CASE conn' = [conn EXCEPT ![c].pc = "handshake"]
    <3> DEFINE y == [x EXCEPT !.pc = "handshake"]
    <3>1. x.pc = "leaf" /\ conn' = [conn EXCEPT ![c] = y]
      BY <1>7, <2>1 DEF Leaf
    <3>2. y.pc = "handshake" /\ y.open = x.open /\ y.http = x.http
      BY <1>1 DEF Connection
    <3> HIDE DEF y
    <3>3. SocketOK(y) /\ StepsToClose(y) < StepsToClose(x)
      BY <1>1, <3>1, <3>2 DEF SocketOK, StepsToClose, StepsAtPc, StepsOfHttp
    <3> QED BY <3>1, <3>3 DEF Descends
  <2>2. CASE Return(c)
    BY <1>7, <2>2, ReturnDescends DEF Leaf
  <2> QED BY <1>7, <2>1, <2>2 DEF Leaf
<1>8. CASE Handshake(c)
  <2> DEFINE y == [x EXCEPT !.pc = "serve", !.http = "idle"]
  <2>1. x.pc = "handshake" /\ client[c] /\ conn' = [conn EXCEPT ![c] = y]
    BY <1>8 DEF Handshake
  <2>2. y.pc = "serve" /\ y.open = x.open /\ y.http = "idle"
    BY <1>1 DEF Connection
  <2> HIDE DEF y
  <2>3. SocketOK(y)
    BY <1>1, <2>1, <2>2 DEF SocketOK, StepsToClose, StepsAtPc, StepsOfHttp
  <2> QED BY <2>1, <2>3 DEF Descends
<1>9. ASSUME NEW t \in Bearers, Request(c, t) PROVE Goal
  <2>1. CASE Accepted(t)
    <3> DEFINE y == [x EXCEPT !.http = "busy"]
    <3>1. x.http = "idle" /\ client[c] /\ conn' = [conn EXCEPT ![c] = y]
      BY <1>9, <2>1 DEF Request
    <3>2. y.pc = x.pc /\ y.open = x.open /\ y.http = "busy"
      BY <1>1 DEF Connection
    <3> HIDE DEF y
    <3>3. SocketOK(y)
      BY <1>1, <3>1, <3>2 DEF SocketOK, StepsToClose, StepsAtPc, StepsOfHttp
    <3> QED BY <3>1, <3>3 DEF Descends
  <2>2. CASE ~Accepted(t)
    BY <1>2, <1>9, <2>2 DEF Request
  <2> QED BY <2>1, <2>2
<1>10. CASE Answer(c)
  <2> DEFINE y == [x EXCEPT !.http = "idle"]
  <2>1. x.http = "busy" /\ conn' = [conn EXCEPT ![c] = y]
    BY <1>10 DEF Answer
  <2>2. y.pc = x.pc /\ y.open = x.open /\ y.http = "idle"
    BY <1>1 DEF Connection
  <2> HIDE DEF y
  <2>3. SocketOK(y) /\ StepsToClose(y) < StepsToClose(x)
    BY <1>1, <2>1, <2>2 DEF SocketOK, StepsToClose, StepsAtPc, StepsOfHttp
  <2> QED BY <2>1, <2>3 DEF Descends
<1>11. CASE HttpEnds(c)
  <2> DEFINE y == [x EXCEPT !.http = "ended", !.open = FALSE]
  <2>1. x.http = "idle" /\ conn' = [conn EXCEPT ![c] = y]
    BY <1>11 DEF HttpEnds
  <2>2. y.pc = x.pc /\ ~y.open /\ y.http = "ended"
    BY <1>1 DEF Connection
  <2> HIDE DEF y
  <2>3. SocketOK(y) /\ StepsToClose(y) < StepsToClose(x)
    BY <1>1, <2>1, <2>2 DEF SocketOK, StepsToClose, StepsAtPc, StepsOfHttp
  <2> QED BY <2>1, <2>3 DEF Descends
<1> QED
  BY <1>3, <1>4, <1>5, <1>6, <1>7, <1>8, <1>9, <1>10, <1>11 DEF OnConn

LEMMA CrashDescends ==
  ASSUME TypeOK, SocketsOK, Crash
  PROVE  SocketsOK' /\ RunsDown
<1>1. \A c \in Conns : conn'[c] = Fresh
  BY DEF Crash
<1>2. SocketsOK'
  BY <1>1, FreshSocket DEF SocketsOK
<1>3. StepsToClose(Fresh) = 0
  BY DEF Fresh, StepsToClose, StepsAtPc, StepsOfHttp
<1>4. ASSUME NEW c \in Conns, conn[c].open
      PROVE  0 < StepsToClose(conn[c])
  <2>1. StepsToClose(conn[c]) # 0
    BY <1>4 DEF SocketsOK, SocketOK
  <2>2. conn[c] \in Connection
    BY DEF TypeOK
  <2>3. StepsToClose(conn[c]) \in Nat
    BY <2>2, StepsAt DEF StepsToClose
  <2> QED BY <2>1, <2>3
<1> QED BY <1>1, <1>2, <1>3, <1>4 DEF RunsDown

LEMMA SocketsStep == TypeOK /\ SocketsOK /\ [Next]_vars => SocketsOK' /\ RunsDown
<1> SUFFICES ASSUME TypeOK, SocketsOK, [Next]_vars PROVE SocketsOK' /\ RunsDown
  OBVIOUS
<1>1. ASSUME UNCHANGED conn PROVE SocketsOK' /\ RunsDown
  BY <1>1 DEF SocketsOK, RunsDown
<1>2. ASSUME NEW c \in Conns, OnConn(c) PROVE SocketsOK' /\ RunsDown
  <2>1. PICK y : conn' = [conn EXCEPT ![c] = y] /\ Descends(conn[c], ~client[c], y)
    BY <1>2, OnConnDescends
  <2>2. conn'[c] = y /\ \A d \in Conns \ {c} : conn'[d] = conn[d]
    BY <2>1 DEF TypeOK
  <2> QED BY <2>1, <2>2 DEF Descends, SocketsOK, RunsDown
<1>3. CASE Crash
  BY <1>3, CrashDescends
<1>4. CASE OnBoot
  BY <1>1, <1>4, BootQuiet
<1>5. CASE TokenStep \/ UNCHANGED vars
  BY <1>1, <1>5 DEF TokenStep, vars
<1> QED BY <1>2, <1>3, <1>4, <1>5, NextSteps

\* A connection is open exactly while its handler has a step to take that does
\* not need the client, and once the client has left every step that changes
\* the connection brings it nearer to its Close, which is never more than two
\* such steps away: no path through handleConn, CONNECT, leaf, handshake or
\* Serve leaves the socket open behind a handler that has nothing to do.  With
\* the fairness of FairSpec this is why SocketsClosed holds.
THEOREM SocketsRunDown == Spec => [](SocketsOK /\ CloseIsNear) /\ [][RunsDown]_vars
<1>1. Init => SocketsOK
  BY FreshSocket DEF Init, SocketsOK
<1>2. TypeOK /\ SocketsOK /\ [Next]_vars => SocketsOK'
  BY SocketsStep
<1>3. TypeOK /\ SocketsOK /\ [Next]_vars => [RunsDown]_vars
  BY SocketsStep
<1>4. TypeOK /\ SocketsOK => CloseIsNear
  <2> SUFFICES ASSUME TypeOK, SocketsOK, NEW c \in Conns
               PROVE  StepsToClose(conn[c]) \in 0..2
    BY DEF CloseIsNear
  <2>1. conn[c] \in Connection /\ (conn[c].http # "none" => conn[c].pc = "serve")
    BY DEF TypeOK, SocketsOK, SocketOK
  <2> QED BY <2>1, StepsAt
<1> QED BY <1>1, <1>2, <1>3, <1>4, TypeCorrect, PTL DEF Spec
=============================================================================
