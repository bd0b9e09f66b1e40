---------------------------- MODULE ServerIdentity ----------------------------
(***************************************************************************)
(* Who the client talks to.  A server has a certificate and a key of its   *)
(* own in two files (tls/certificateStore.ts), made at its first start or  *)
(* by `atlas-server --regen-cert` (certRegen.ts), which is a process of    *)
(* its own; a client pins the certificate it sees first at an address and  *)
(* refuses another one (fingerprintStore.ts, tlsClientTransport.ts).       *)
(*                                                                         *)
(* A pair of files is a number, the same for the certificate and its key;  *)
(* NoPem is one that is not there, TornPem one that is being written.  The   *)
(* processes that read and write a server's files are its start and the    *)
(* rotation.                                                               *)
(***************************************************************************)
EXTENDS Naturals, FiniteSets

CONSTANTS
  Addresses,  \* host and port of the servers: 1, 2, ...
  MaxPairs,   \* pairs that are generated
  MaxDials    \* connections that are tried

VARIABLES
  certFile, keyFile,  \* per address
  doing,      \* what a process does to the files of its address
  read,       \* the certificate and the key a start has read
  making,     \* the pair a process writes
  pairs,      \* pairs generated so far
  serving,    \* the pair a server runs with; 0: it does not run
  presented,  \* the certificates a server has run with, its first one included
  broken,     \* addresses where a read or a write failed or met another process
  rotated,    \* addresses whose rotation was confirmed
  configured, \* the client's address
  pins,       \* its serverFingerprints; 0: none
  socket,     \* its connection: where it dialled, what it saw, how far it is
  dials,
  misled      \* addresses another server's certificate was compared with the pin of

serverVars == <<certFile, keyFile, doing, read, making, pairs, serving, presented, broken,
                rotated>>
clientVars == <<configured, pins, socket, dials, misled>>
identityVars == <<serverVars, clientVars>>

NoPem == 0
TornPem == 99
Writers == {"start", "regen"}

(* The pairs there may be are numbers of their own.                        *)
ASSUME IdentityAssumption ==
  /\ Addresses \subseteq 1..(TornPem - 1)
  /\ IsFiniteSet(Addresses) /\ MaxPairs \in 1..(TornPem - 1) /\ Cardinality(Addresses) < TornPem
Idle == "idle"
NoSocket == [to |-> 0, cert |-> 0, is |-> "none", queued |-> FALSE]

IdentityInit ==
  /\ certFile \in {[a \in Addresses |-> IF a \in there THEN a ELSE NoPem] :
                   there \in SUBSET Addresses}
  /\ keyFile = certFile
  /\ doing = [a \in Addresses |-> [w \in Writers |-> Idle]]
  /\ read = [a \in Addresses |-> <<0, 0>>]
  /\ making = [a \in Addresses |-> [w \in Writers |-> 0]]
  /\ pairs = Cardinality(Addresses)
  /\ serving = [a \in Addresses |-> 0]
  /\ presented = [a \in Addresses |-> {certFile[a]} \ {NoPem}]
  /\ broken = {} /\ rotated = {}
  /\ configured \in Addresses
  /\ pins = [a \in Addresses |-> 0]
  /\ socket = NoSocket /\ dials = 0 /\ misled = {}

Does(a, w, what) == doing' = [doing EXCEPT ![a][w] = what]

-----------------------------------------------------------------------------
(* tryReadExisting reads both files side by side.                          *)
StartServer(a) ==
  /\ serving[a] = 0 /\ doing[a]["start"] = Idle
  /\ Does(a, "start", "reading")
  /\ UNCHANGED <<certFile, keyFile, read, making, pairs, serving, presented, broken, rotated,
                 clientVars>>

ReadCert(a) ==
  /\ doing[a]["start"] \in {"reading", "readKey"}
  /\ Does(a, "start", IF doing[a]["start"] = "reading" THEN "readCert" ELSE "readBoth")
  /\ read' = [read EXCEPT ![a][1] = certFile[a]]
  /\ UNCHANGED <<certFile, keyFile, making, pairs, serving, presented, broken, rotated, clientVars>>

ReadKey(a) ==
  /\ doing[a]["start"] \in {"reading", "readCert"}
  /\ Does(a, "start", IF doing[a]["start"] = "reading" THEN "readKey" ELSE "readBoth")
  /\ read' = [read EXCEPT ![a][2] = keyFile[a]]
  /\ UNCHANGED <<certFile, keyFile, making, pairs, serving, presented, broken, rotated, clientVars>>

(* A file that is there cannot be read: the start takes it for missing.    *)
ReadFails(a) ==
  /\ doing[a]["start"] \in {"reading", "readCert", "readKey"}
  /\ Does(a, "start", "readBoth")
  /\ read' = [read EXCEPT ![a] = <<NoPem, NoPem>>]
  /\ broken' = broken \cup {a}
  /\ UNCHANGED <<certFile, keyFile, making, pairs, serving, presented, rotated, clientVars>>

(* Mutant: a pair that is there is made anew. *)
Never(pair) == FALSE

(* What was read is used when there is a key and the certificate parses.   *)
Existing(pair) == pair[1] \notin {NoPem, TornPem} /\ pair[2] # NoPem

NewPair(a, w) ==
  /\ pairs < MaxPairs /\ pairs' = pairs + 1
  /\ making' = [making EXCEPT ![a][w] = pairs + 1]
  /\ Does(a, w, "making")

(* The server listens with what it read if the key fits the certificate,   *)
(* and ends if not.  Without a pair it makes one, whatever the reason the  *)
(* files could not be read.                                                *)
UsePair(a) ==
  /\ doing[a]["start"] = "readBoth"
  /\ \/ /\ Existing(read[a])
        /\ Does(a, "start", Idle)
        /\ IF read[a][1] = read[a][2]
           THEN /\ serving' = [serving EXCEPT ![a] = read[a][1]]
                /\ presented' = [presented EXCEPT ![a] = @ \cup {read[a][1]}]
           ELSE UNCHANGED <<serving, presented>>
        /\ UNCHANGED <<pairs, making>>
     \/ ~Existing(read[a]) /\ NewPair(a, "start") /\ UNCHANGED <<serving, presented>>
  /\ read' = [read EXCEPT ![a] = <<0, 0>>]
  /\ UNCHANGED <<certFile, keyFile, broken, rotated, clientVars>>

(* runCertRegen: nothing happens without a yes.                            *)
Rotate(a) ==
  /\ doing[a]["regen"] = Idle
  /\ NewPair(a, "regen")
  /\ rotated' = rotated \cup {a}
  /\ UNCHANGED <<certFile, keyFile, read, serving, presented, broken, clientVars>>

(* Two processes that write, or one that reads while the other writes, are *)
(* in each other's way.                                                    *)
Clash(a) == \A w \in Writers : doing[a][w] # Idle

(* generateAndPersist: the certificate, then the key; each file is emptied *)
(* before it is filled.                                                    *)
WriteStep(a, w) ==
  /\ doing[a][w] \in {"making", "emptiedCert", "wroteCert", "emptiedKey"}
  /\ broken' = IF Clash(a) THEN broken \cup {a} ELSE broken
  /\ certFile' = [certFile EXCEPT ![a] = CASE doing[a][w] = "making" -> TornPem
                                           [] doing[a][w] = "emptiedCert" -> making[a][w]
                                           [] OTHER -> @]
  /\ keyFile' = [keyFile EXCEPT ![a] = CASE doing[a][w] = "wroteCert" -> TornPem
                                         [] doing[a][w] = "emptiedKey" -> making[a][w]
                                         [] OTHER -> @]
  /\ Does(a, w, CASE doing[a][w] = "making" -> "emptiedCert"
                  [] doing[a][w] = "emptiedCert" -> "wroteCert"
                  [] doing[a][w] = "wroteCert" -> "emptiedKey"
                  [] OTHER -> "made")
  /\ UNCHANGED <<read, making, pairs, serving, presented, rotated, clientVars>>

(* The start goes on with the pair it has made; the rotation ends.  A      *)
(* server that runs keeps the pair it has.                                 *)
Made(a, w) ==
  /\ doing[a][w] = "made"
  /\ Does(a, w, Idle)
  /\ making' = [making EXCEPT ![a][w] = 0]
  /\ IF w = "start"
     THEN /\ serving' = [serving EXCEPT ![a] = making[a][w]]
          /\ presented' = [presented EXCEPT ![a] = @ \cup {making[a][w]}]
     ELSE UNCHANGED <<serving, presented>>
  /\ UNCHANGED <<certFile, keyFile, read, pairs, broken, rotated, clientVars>>

(* The process ends, at any point of what it does.                         *)
Die(a, w) ==
  /\ doing[a][w] # Idle
  /\ Does(a, w, Idle)
  /\ making' = [making EXCEPT ![a][w] = 0]
  /\ read' = IF w = "start" THEN [read EXCEPT ![a] = <<0, 0>>] ELSE read
  /\ broken' = IF doing[a][w] \in {"emptiedCert", "wroteCert", "emptiedKey"} THEN broken \cup {a}
               ELSE broken
  /\ UNCHANGED <<certFile, keyFile, pairs, serving, presented, rotated, clientVars>>

StopServer(a) ==
  /\ serving[a] # 0
  /\ serving' = [serving EXCEPT ![a] = 0]
  /\ socket' = IF socket.to = a THEN NoSocket ELSE socket
  /\ UNCHANGED <<certFile, keyFile, doing, read, making, pairs, presented, broken, rotated,
                 configured, pins, dials, misled>>

-----------------------------------------------------------------------------
(* connect(): the socket goes to the address configured now.               *)
Dial ==
  /\ socket = NoSocket /\ serving[configured] # 0 /\ dials < MaxDials
  /\ socket' = [NoSocket EXCEPT !.to = configured, !.is = "handshake"]
  /\ dials' = dials + 1
  /\ UNCHANGED <<serverVars, configured, pins, misled>>

(* The transport waits for "connect": its listener is queued until the     *)
(* certificate is approved, and called at once if it is.                   *)
Listen ==
  /\ ~socket.queued
  /\ \/ socket.is = "handshake" /\ socket' = [socket EXCEPT !.queued = TRUE]
     \/ socket.is = "verified" /\ socket' = [socket EXCEPT !.queued = TRUE, !.is = "open"]
  /\ UNCHANGED <<serverVars, configured, pins, dials, misled>>

(* Mutant: the pin follows the certificate. *)
Repinned(a, cert) == cert

(* checkAndPinFingerprint: the first certificate of an address is pinned.  *)
PinAfter(a, cert) == IF pins[a] = 0 THEN cert ELSE pins[a]

(* "secureConnect": the certificate is compared with the pin of the        *)
(* address configured now, the queued listener called, or the socket       *)
(* destroyed.                                                              *)
Certificate ==
  /\ socket.is = "handshake"
  /\ misled' = IF socket.to # configured THEN misled \cup {configured} ELSE misled
  /\ LET cert == serving[socket.to]
         pin == PinAfter(configured, cert)
     IN  /\ pins' = [pins EXCEPT ![configured] = pin]
         /\ socket' = IF pin = cert
                      THEN [socket EXCEPT !.is = IF socket.queued THEN "open" ELSE "verified",
                                          !.cert = cert]
                      ELSE NoSocket
  /\ UNCHANGED <<serverVars, configured, dials>>

Disconnect ==
  /\ socket # NoSocket
  /\ socket' = NoSocket
  /\ UNCHANGED <<serverVars, configured, pins, dials, misled>>

(* reload(): another address; an open connection is closed, a handshake    *)
(* goes on (a verified socket opens before anything else can happen).      *)
Reconfigure(a) ==
  /\ a # configured
  /\ configured' = a
  /\ socket' = IF socket.is \in {"verified", "open"} THEN NoSocket ELSE socket
  /\ UNCHANGED <<serverVars, pins, dials, misled>>

(* `atlas --trust-fingerprint`: the pin of the configured address.         *)
ClearPin ==
  /\ pins[configured] # 0
  /\ pins' = [pins EXCEPT ![configured] = 0]
  /\ UNCHANGED <<serverVars, configured, socket, dials, misled>>

IdentityNext ==
  \/ \E a \in Addresses :
       \/ StartServer(a) \/ ReadCert(a) \/ ReadKey(a) \/ ReadFails(a) \/ UsePair(a)
       \/ Rotate(a) \/ StopServer(a) \/ Reconfigure(a)
       \/ \E w \in Writers : WriteStep(a, w) \/ Made(a, w) \/ Die(a, w)
  \/ Dial \/ Listen \/ Certificate \/ Disconnect \/ ClearPin

-----------------------------------------------------------------------------
(* While no write was cut off and none met another process, the two files  *)
(* of a server that nobody writes belong together: it starts again.        *)
FilesFit ==
  \A a \in Addresses \ broken :
    (\A w \in Writers : doing[a][w] \in {Idle, "reading", "readCert", "readKey", "readBoth"}) =>
      certFile[a] = keyFile[a]

(* Without a rotation a server keeps the certificate it was first seen     *)
(* with, over every restart ("the fingerprint clients pinned stays valid   *)
(* across server restarts", certificateStore.ts).                          *)
SameIdentity ==
  \A a \in Addresses \ (broken \cup rotated) : Cardinality(presented[a]) <= 1

(* A pin is a certificate the server of that address has run with, and an  *)
(* open connection is one to the configured server with a certificate that *)
(* was pinned, unless the address was changed during a handshake: the      *)
(* certificate is compared with the pin of the new one (connection.ts).    *)
PinsArePresented ==
  \A a \in Addresses \ misled : pins[a] # 0 => pins[a] \in presented[a]
OpenIsTrusted ==
  socket.is = "open" =>
    /\ pins[configured] \in {0, socket.cert}
    /\ configured \notin misled => socket.to = configured

(* A client that has seen one certificate accepts no other until its pin is *)
(* cleared by hand, whatever the server or the address does meanwhile      *)
(* (checkAndPinFingerprint is also called for sockets nobody waits for).   *)
PinsAreKept ==
  [][\A a \in Addresses : pins[a] # 0 /\ pins'[a] # pins[a] => pins'[a] = 0]_pins

IdentityInv == FilesFit /\ SameIdentity /\ PinsArePresented /\ OpenIsTrusted
=============================================================================
