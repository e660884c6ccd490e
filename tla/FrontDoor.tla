----------------------------- MODULE FrontDoor -----------------------------
(***************************************************************************)
(* What stands between a socket and a handler: the start of the process    *)
(* with its CA (cmd/fakegenesys/main.go, handlers/tls_mitm.go), the        *)
(* CONNECT proxy that intercepts TLS connections, and the bearer check     *)
(* (handlers/handlers.go) with the token store.  The process may crash at  *)
(* any step; the two CA files survive.                                     *)
(*                                                                         *)
(* One process uses the CA directory at a time.                            *)
(***************************************************************************)
EXTENDS Tokens

CONSTANTS
  CAs,       \* CAs that generateCA() may make
  Hosts,     \* hosts of CONNECT requests
  Conns,     \* connections
  MaxFaults, \* bound: file operations that fail
  None       \* no file, or no CA

ASSUME NoneAssumption == None \notin CAs
ASSUME FaultsAssumption == MaxFaults \in Nat

\* A file that WriteFile has truncated and not yet written.
Broken == "broken"
ASSUME BrokenAssumption == Broken \notin CAs \cup {None}

File == CAs \cup {None, Broken}

VARIABLES
  certFile, keyFile,  \* ca-cert.pem and ca-key.pem: whose they are
  generated,          \* CAs that have been made
  proc,               \* the process: where its start has got to, and its CA
  leafCache,          \* hosts with a leaf
  conn,               \* the connections
  client,             \* Conns -> whether the client is still there
  faults,             \* file operations that have failed
  saved,              \* history: the CA of the first pair written whole
  spoiled             \* history: a whole pair could not be read

vars == <<certFile, keyFile, generated, proc, leafCache, conn, client, faults,
          saved, spoiled, clock, used, expiry, granted>>

Booting == {"load", "generate", "cert", "certBytes", "key", "keyBytes"}

\* The pc of a connection is where its handleConn has got to.  In "serve" that
\* is http.Server.Serve; http is then the state of the goroutine that Serve
\* has started for the one connection.
Fresh == [pc |-> "none", host |-> None, early |-> FALSE, http |-> "none", open |-> FALSE]

Connection ==
  [pc: {"none", "request", "leaf", "handshake", "serve", "returned"},
   host: Hosts \cup {None}, early: BOOLEAN,
   http: {"none", "idle", "busy", "ended"}, open: BOOLEAN]

TypeOK ==
  /\ TokensTypeOK
  /\ certFile \in File /\ keyFile \in File
  /\ generated \subseteq CAs
  /\ proc \in [pc: {"down", "up"} \cup Booting, cert: CAs \cup {None}, key: CAs \cup {None}]
  /\ leafCache \subseteq Hosts
  /\ conn \in [Conns -> Connection]
  /\ client \in [Conns -> BOOLEAN]
  /\ faults \in 0..MaxFaults
  /\ saved \in CAs \cup {None}
  /\ spoiled \in BOOLEAN

Init ==
  /\ TokensInit
  /\ certFile = None /\ keyFile = None
  /\ generated = {}
  /\ proc = [pc |-> "down", cert |-> None, key |-> None]
  /\ leafCache = {}
  /\ conn = [c \in Conns |-> Fresh]
  /\ client = [c \in Conns |-> FALSE]
  /\ faults = 0
  /\ saved = None
  /\ spoiled = FALSE

\* Operators whose comment begins with Mutant are never used by the
\* specification: each is one bug in the definition below it.

(***************************************************************************)
(* Start: newTLSMITMWithCADir.                                             *)
(***************************************************************************)
Boot(pc) == proc' = [proc EXCEPT !.pc = pc]

Start ==
  /\ proc.pc = "down"
  /\ Boot("load")
  /\ UNCHANGED <<certFile, keyFile, generated, leafCache, conn, client, faults,
                 saved, spoiled, tokenVars>>

\* Mutant: files that do not parse are taken for a pair.
LoadUnparsed ==
  /\ proc.pc = "load"
  /\ None \notin {certFile, keyFile}
  /\ proc' = [pc |-> "up", cert |-> certFile, key |-> keyFile]
  /\ UNCHANGED <<certFile, keyFile, generated, leafCache, conn, client, faults,
                 saved, spoiled, tokenVars>>

\* loadCAFromDir finds two files that parse.  Whether they belong together it
\* does not ask.
Load ==
  /\ proc.pc = "load"
  /\ {certFile, keyFile} \subseteq CAs
  /\ proc' = [pc |-> "up", cert |-> certFile, key |-> keyFile]
  /\ UNCHANGED <<certFile, keyFile, generated, leafCache, conn, client, faults,
                 saved, spoiled, tokenVars>>

LoadNothing ==
  /\ proc.pc = "load"
  /\ ~({certFile, keyFile} \subseteq CAs)
  /\ Boot("generate")
  /\ UNCHANGED <<certFile, keyFile, generated, leafCache, conn, client, faults,
                 saved, spoiled, tokenVars>>

Fault == faults < MaxFaults /\ faults' = faults + 1

\* A pair that is there cannot be read; any error of the load is taken for a
\* missing pair.
LoadFails ==
  /\ proc.pc = "load"
  /\ {certFile, keyFile} \subseteq CAs
  /\ Fault
  /\ spoiled' = TRUE
  /\ Boot("generate")
  /\ UNCHANGED <<certFile, keyFile, generated, leafCache, conn, client, saved, tokenVars>>

Generate(a) ==
  /\ proc.pc = "generate"
  /\ a \notin generated
  /\ generated' = generated \cup {a}
  /\ proc' = [pc |-> "cert", cert |-> a, key |-> a]
  /\ UNCHANGED <<certFile, keyFile, leafCache, conn, client, faults, saved, spoiled,
                 tokenVars>>

\* saveCAToDir: each WriteFile truncates, then writes.
SaveCert ==
  /\ proc.pc = "cert"
  /\ certFile' = Broken
  /\ Boot("certBytes")
  /\ UNCHANGED <<keyFile, generated, leafCache, conn, client, faults, saved, spoiled,
                 tokenVars>>

SaveCertBytes ==
  /\ proc.pc = "certBytes"
  /\ certFile' = proc.cert
  /\ Boot("key")
  /\ UNCHANGED <<keyFile, generated, leafCache, conn, client, faults, saved, spoiled,
                 tokenVars>>

\* Mutant: a key file that exists is left as it is.
SaveKeyIfAbsent ==
  /\ proc.pc = "key"
  /\ keyFile' = IF keyFile = None THEN Broken ELSE keyFile
  /\ Boot(IF keyFile = None THEN "keyBytes" ELSE "up")
  /\ saved' = IF keyFile # None /\ saved = None THEN proc.cert ELSE saved
  /\ UNCHANGED <<certFile, generated, leafCache, conn, client, faults, spoiled,
                 tokenVars>>

SaveKey ==
  /\ proc.pc = "key"
  /\ keyFile' = Broken
  /\ Boot("keyBytes")
  /\ UNCHANGED <<certFile, generated, leafCache, conn, client, faults, saved, spoiled,
                 tokenVars>>

SaveKeyBytes ==
  /\ proc.pc = "keyBytes"
  /\ keyFile' = proc.key
  /\ saved' = IF saved = None THEN proc.key ELSE saved
  /\ Boot("up")
  /\ UNCHANGED <<certFile, generated, leafCache, conn, client, faults, spoiled,
                 tokenVars>>

\* A write fails: the error is logged, the process goes on with the CA it has
\* in memory, and the next start finds what is on disk.
SaveFails ==
  /\ proc.pc \in {"cert", "certBytes", "key", "keyBytes"}
  /\ Fault
  /\ Boot("up")
  /\ UNCHANGED <<certFile, keyFile, generated, leafCache, conn, client, saved, spoiled,
                 tokenVars>>

\* The process ends at any step: everything but the files is lost.
Crash ==
  /\ proc.pc # "down"
  /\ proc' = [pc |-> "down", cert |-> None, key |-> None]
  /\ leafCache' = {}
  /\ conn' = [c \in Conns |-> Fresh]
  /\ client' = [c \in Conns |-> FALSE]
  /\ ResetTokens
  /\ UNCHANGED <<certFile, keyFile, generated, faults, saved, spoiled>>

(***************************************************************************)
(* Connections: listenAndServe and handleConn.                             *)
(***************************************************************************)
Others == <<certFile, keyFile, generated, proc, faults, saved, spoiled>>

Accept(c) ==
  /\ proc.pc = "up"
  /\ conn[c].pc = "none"
  /\ conn' = [conn EXCEPT ![c] = [Fresh EXCEPT !.pc = "request", !.open = TRUE]]
  /\ client' = [client EXCEPT ![c] = TRUE]
  /\ UNCHANGED <<leafCache, Others, tokenVars>>

ClientLeaves(c) ==
  /\ client[c]
  /\ client' = [client EXCEPT ![c] = FALSE]
  /\ UNCHANGED <<conn, leafCache, Others, tokenVars>>

\* Mutant: handleConn defers no Close.
ReturnKeepingOpen(c) == conn' = [conn EXCEPT ![c].pc = "returned"]

\* handleConn returns; its deferred Close runs.
Return(c) == conn' = [conn EXCEPT ![c] = [@ EXCEPT !.pc = "returned", !.open = FALSE]]

\* CONNECT host, answered 200.  early: what the client sent behind it, before
\* the answer, is in the buffered reader, which nothing reads again.
ReadConnect(c, h, early) ==
  /\ conn[c].pc = "request"
  /\ client[c]
  /\ conn' = [conn EXCEPT ![c] = [@ EXCEPT !.pc = "leaf", !.host = h, !.early = early]]
  /\ UNCHANGED <<client, leafCache, Others, tokenVars>>

\* Another method (405), no host (400), no HTTP, or the client has left.
ReadOther(c) ==
  /\ conn[c].pc = "request"
  /\ Return(c)
  /\ UNCHANGED <<client, leafCache, Others, tokenVars>>

\* generateLeaf: x509.CreateCertificate refuses a key that is not the CA's.
CanSign == proc.cert = proc.key

\* Mutant: a CA that does not fit its key signs all the same.
LeafByAnyKey(c) ==
  /\ conn[c].pc = "leaf"
  /\ leafCache' = leafCache \cup {conn[c].host}
  /\ conn' = [conn EXCEPT ![c].pc = "handshake"]
  /\ UNCHANGED <<client, Others, tokenVars>>

\* leafFor, under leafMu: the leaf in the cache or a new one.
Leaf(c) ==
  /\ conn[c].pc = "leaf"
  /\ IF conn[c].host \in leafCache \/ CanSign
       THEN /\ leafCache' = leafCache \cup {conn[c].host}
            /\ conn' = [conn EXCEPT ![c].pc = "handshake"]
       ELSE Return(c) /\ UNCHANGED leafCache
  /\ UNCHANGED <<client, Others, tokenVars>>

\* A ClientHello that was sent early never arrives.
Handshake(c) ==
  /\ conn[c].pc = "handshake"
  /\ client[c]
  /\ ~conn[c].early
  /\ conn' = [conn EXCEPT ![c] = [@ EXCEPT !.pc = "serve", !.http = "idle"]]
  /\ UNCHANGED <<client, leafCache, Others, tokenVars>>

\* The client refuses the leaf: it does not trust the CA.
HandshakeRefused(c) ==
  /\ conn[c].pc = "handshake"
  /\ client[c]
  /\ ~conn[c].early
  /\ Return(c)
  /\ UNCHANGED <<client, leafCache, Others, tokenVars>>

\* The client has left.
HandshakeEnds(c) ==
  /\ conn[c].pc = "handshake"
  /\ ~client[c]
  /\ Return(c)
  /\ UNCHANGED <<client, leafCache, Others, tokenVars>>

(***************************************************************************)
(* Requests on a connection.  Each is checked anew by bearerAuth; a token  *)
(* it refuses is answered 401 and the connection stays.                    *)
(***************************************************************************)
Request(c, t) ==
  /\ conn[c].http = "idle"
  /\ client[c]
  /\ Lookup(t)
  /\ conn' = IF Accepted(t) THEN [conn EXCEPT ![c].http = "busy"] ELSE conn
  /\ UNCHANGED <<client, leafCache, Others>>

Answer(c) ==
  /\ conn[c].http = "busy"
  /\ conn' = [conn EXCEPT ![c].http = "idle"]
  /\ UNCHANGED <<client, leafCache, Others, tokenVars>>

\* The goroutine of net/http closes the connection: the stream has ended, the
\* first header did not come in time, the client asked for it, or what it sent
\* is no HTTP.  Serve stays in its second Accept: nothing closes the listener.
HttpEnds(c) ==
  /\ conn[c].http = "idle"
  /\ conn' = [conn EXCEPT ![c] = [@ EXCEPT !.http = "ended", !.open = FALSE]]
  /\ UNCHANGED <<client, leafCache, Others, tokenVars>>

\* Tokens: the clock, and on the plain port POST /oauth/token, a request with a
\* bearer token and the cache part of /mock/reset.
TokenStep ==
  /\ \/ Tick
     \/ proc.pc = "up" /\ (ResetTokens \/ \E t \in Bearers : Issue(t) \/ Lookup(t))
  /\ UNCHANGED <<conn, client, leafCache, Others>>

\* The next step of the server for a connection whose client has left.
Finish(c) ==
  \/ ReadOther(c) \/ Leaf(c) \/ HandshakeEnds(c) \/ Answer(c) \/ HttpEnds(c)

Next ==
  \/ Start \/ Load \/ LoadNothing \/ LoadFails
  \/ \E a \in CAs : Generate(a)
  \/ SaveCert \/ SaveCertBytes \/ SaveKey \/ SaveKeyBytes \/ SaveFails
  \/ Crash
  \/ \E c \in Conns :
       \/ Accept(c) \/ ClientLeaves(c)
       \/ \E h \in Hosts, early \in BOOLEAN : ReadConnect(c, h, early)
       \/ ReadOther(c) \/ Leaf(c)
       \/ Handshake(c) \/ HandshakeRefused(c) \/ HandshakeEnds(c)
       \/ \E t \in Bearers : Request(c, t)
       \/ Answer(c) \/ HttpEnds(c)
  \/ TokenStep

Spec == Init /\ [][Next]_vars

\* Goroutines that can run do run.  Nothing is assumed of clients, of starts or
\* of crashes; a read from a connection whose client has left returns.
FairSpec == Spec /\ \A c \in Conns : WF_vars(~client[c] /\ Finish(c))

(***************************************************************************)
(* Safety.                                                                 *)
(***************************************************************************)

\* A CA that was once written whole is the CA of every later start, whatever
\* crashes and failing writes come between ("the existing CA is reused so the
\* user's keychain trust survives across fakegenesys restarts"), and two files
\* that parse belong together.  A pair that could not be read although it was
\* there is the one exception.
CASurvivesRestarts ==
  ~spoiled =>
    /\ {certFile, keyFile} \subseteq CAs => certFile = keyFile
    /\ saved # None => certFile = saved /\ keyFile = saved
    /\ saved # None /\ proc.pc = "up" => proc.cert = saved /\ proc.key = saved

\* A connection gets as far as the handshake only with a leaf that verifies
\* against the certificate GET /mock/ca-cert serves, even when the files on
\* disk did not belong together.
LeavesVerify ==
  \A c \in Conns : conn[c].pc \in {"handshake", "serve"} =>
    proc.cert \in CAs /\ proc.key = proc.cert /\ conn[c].host \in leafCache

(***************************************************************************)
(* Liveness.                                                               *)
(***************************************************************************)

\* Every connection whose client has left is closed in the end, wherever its
\* handler was: before CONNECT, in the handshake, in a request, with bytes that
\* never arrived.
SocketsClosed == \A c \in Conns : ~client[c] ~> ~conn[c].open

\* "Serve returns when the underlying connection closes", tls_mitm.go:253: the
\* goroutine of a connection that is closed ends.
HandlersReturn ==
  \A c \in Conns : conn[c].http = "ended" ~> conn[c].pc \in {"returned", "none"}
=============================================================================
