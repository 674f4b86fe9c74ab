-------------------------- MODULE KeyChannelProofs --------------------------
(***************************************************************************)
(* Proofs about KeyChannel, for every set of clients and of requests, every *)
(* backlog and any number of restarts: when clients wait for the daemon's  *)
(* main loop and the kernel has memory, the two keys agree between         *)
(* messages, and an approved request has all its tickets and labels.       *)
(*                                                                         *)
(* One thread at a time sends messages: the main thread until protect_socket *)
(* returns, the socket thread from then on.  Once the kernel module has    *)
(* taken the response of this daemon, the keys follow the stages of the    *)
(* message of that thread (InStep).  If it has not, no token names this    *)
(* daemon (TokenInv), and no client believes an approval.                  *)
(***************************************************************************)
EXTENDS KeyChannel, SequenceTheorems, TLAPS

Kinds == {"ticket", "xattr"}
Token == [key : Key, pid : 0..MaxStarts]
Conn == [client : Clients, request : Seq(Kinds), ptoken : Token, open : BOOLEAN]
Busy == {"work", "invalid", "error"}

Lsm == [registered : BOOLEAN, challenge : 0..MaxRandom, key : Key,
        ptoken_key : Key, pid : 0..MaxStarts]
Enclave == [key : Key, ptoken_key : Key]
Main == [pc : {"off", "challenge", "answer", "respond", "protect", "run"},
         challenge : 0..MaxRandom]
Server == [pc : {"down", "idle"} \union Busy, conn : Conn \union {NONE},
           left : Seq(Kinds), missing : SUBSET Kinds]
Exchange == [pc : {"idle", "encrypt", "deliver", "ratchet", "store", "done"},
             kind : Kinds \union {NONE}, key : Key, nonce : 0..MaxRandom,
             accepted : BOOLEAN, copy : Key]
Client == [own_pid : BOOLEAN, ptoken : Token \union {NONE}, init : BOOLEAN \union {NONE},
           waiting : BOOLEAN, declaring : BOOLEAN,
           result : {"approved", "failed", "invalid", "error", NONE},
           missing : SUBSET Kinds]

\* The types, in full.
Types ==
  /\ rand \in 0..MaxRandom
  /\ lsm \in Lsm
  /\ enclave \in Enclave
  /\ starts \in 0..MaxStarts
  /\ main \in Main
  /\ server \in Server
  /\ exchange \in [Threads -> Exchange]
  /\ queue \in Seq(Conn) /\ Len(queue) <= Backlog
  /\ client \in [Clients -> Client]

\* Who runs when: requests only from the main loop on, and one message at a time.
PhaseInv ==
  /\ main.pc # "off" => starts > 0
  /\ lsm.pid <= starts
  /\ main.pc \in {"challenge", "answer", "respond"} => lsm.pid < starts
  /\ lsm.pid > 0 => lsm.registered
  /\ main.pc = "respond" => enclave.key = enclave.ptoken_key
  /\ main.pc # "protect" => exchange["main"].pc = "idle"
  /\ main.pc # "run" => queue = <<>> /\ server.pc \in {"down", "idle"}
  /\ main.pc = "off" => server.pc = "down"
  /\ server.pc \in Busy => server.conn \in Conn
  /\ exchange["server"].pc # "idle" => server.pc = "work" /\ server.left # <<>>
  /\ \A t \in Threads :
       /\ exchange[t].pc # "idle" => exchange[t].kind \in Kinds
       /\ exchange[t].pc \in {"deliver", "ratchet", "store"} => exchange[t].nonce > 0

\* The kernel module has taken the response of this daemon.
Joined == main.pc \in {"protect", "run"} /\ lsm.pid = starts

\* The keys at each stage of the message of thread t.
InStep(t) ==
  LET x == exchange[t]
  IN  /\ x.pc \in {"idle", "encrypt", "done"} => lsm.key = enclave.key
      /\ x.pc = "deliver" => lsm.key = enclave.key /\ x.key = enclave.key
      /\ x.pc = "ratchet" => lsm.key = IF x.accepted THEN Xor(enclave.key, {x.nonce})
                                                     ELSE enclave.key
      /\ x.pc = "store" => lsm.key = Xor(enclave.key, {x.nonce}) /\ x.copy = enclave.key
      /\ x.pc \in {"ratchet", "store", "done"} /\ x.kind = "ticket" => x.accepted

\* The thread that sends messages now.
Sender == IF main.pc = "protect" THEN "main" ELSE "server"

KeyInv == Joined => lsm.ptoken_key = enclave.ptoken_key /\ InStep(Sender)

\* Only a kernel module that has taken the response of this daemon gives out
\* tokens that name it.
Names(token) == token.pid <= starts /\ (token.pid = starts => lsm.pid = starts)

TokenInv ==
  /\ \A c \in Clients : client[c].ptoken # NONE => Names(client[c].ptoken)
  /\ \A i \in DOMAIN queue : Names(queue[i].ptoken)
  /\ server.pc \in Busy => Names(server.conn.ptoken)

\* What a request can lack, and that an approved one lacks nothing.
MissingInv ==
  /\ server.missing \subseteq {"ticket"}
  /\ server.missing # {} => server.pc \in Busy /\ lsm.pid # starts
  /\ \A c \in Clients : client[c].result = "approved" => client[c].missing = {}

\* Clients wait for the main loop, and the kernel has memory.
Calm == ~Early /\ "memory" \notin Faults

IInv == Types /\ PhaseInv /\ KeyInv /\ TokenInv /\ MissingInv

-----------------------------------------------------------------------------
(* Data.                                                                   *)

LEMMA NoExchangeData ==
  NoExchange \in Exchange /\ NoExchange.pc = "idle"
BY ChannelAssumption DEF NoExchange, Exchange, Key

LEMMA NoServerData ==
  /\ NoServer \in Server /\ NoServer.pc = "down" /\ NoServer.missing = {}
  /\ [NoServer EXCEPT !.pc = "idle"] \in Server
  /\ [NoServer EXCEPT !.pc = "idle"].pc = "idle"
  /\ [NoServer EXCEPT !.pc = "idle"].missing = {}
<1>1. <<>> \in Seq(Kinds)
  OBVIOUS
<1> QED BY <1>1, Zenon DEF NoServer, Server, Busy

LEMMA NoMainData == NoMain \in Main /\ NoMain.pc = "off"
BY ChannelAssumption DEF NoMain, Main

LEMMA BlankEnclaveData == BlankEnclave \in Enclave
BY DEF BlankEnclave, Enclave, Key

LEMMA XorData ==
  ASSUME NEW a \in Key, NEW n \in 1..MaxRandom
  PROVE  Xor(a, {n}) \in Key
BY DEF Xor, Key

\* The end of a transaction.
LEMMA AnsweredData ==
  ASSUME NEW r \in Client, NEW result \in {"approved", "failed", "invalid", "error"}
  PROVE  /\ Answered(r, result) \in Client
         /\ Answered(r, result).ptoken = r.ptoken
         /\ Answered(r, result).missing = r.missing
         /\ Answered(r, result).result = result
<1>1. (result = "approved") \in BOOLEAN
  BY Zenon
<1>2. (IF r.declaring THEN result = "approved" ELSE r.init) \in BOOLEAN \union {NONE}
  BY <1>1 DEF Client
<1> QED BY <1>2, Zenon DEF Answered, Client

-----------------------------------------------------------------------------
(* The main thread.                                                        *)

LEMMA InitInv == Init => IInv
<1> SUFFICES ASSUME Init PROVE IInv
  OBVIOUS
<1> USE ChannelAssumption DEF Init
<1>1. Types
  <2>1. queue \in Seq(Conn) /\ Len(queue) <= Backlog
    OBVIOUS
  <2>2. \A c \in Clients : client[c] \in Client
    BY Zenon DEF Client
  <2>3. exchange \in [Threads -> Exchange]
    BY NoExchangeData
  <2>4. client \in [Clients -> Client]
    BY <2>2, Zenon
  <2>5. lsm \in Lsm
    BY DEF Lsm, Key
  <2>6. rand \in 0..MaxRandom /\ starts \in 0..MaxStarts
    OBVIOUS
  <2> QED BY <2>1, <2>3, <2>4, <2>5, <2>6, NoServerData, NoMainData, BlankEnclaveData, Zenon
          DEF Types
<1>2. PhaseInv
  BY NoExchangeData, NoServerData, NoMainData DEF PhaseInv, Threads, Busy
<1>3. KeyInv
  BY NoMainData DEF KeyInv, Joined
<1>4. TokenInv
  BY NoServerData DEF TokenInv, Busy
<1>5. MissingInv
  <2>1. \A c \in Clients : client[c].missing = {}
    BY Zenon
  <2> QED BY <2>1, NoServerData DEF MissingInv
<1> QED BY <1>1, <1>2, <1>3, <1>4, <1>5 DEF IInv

LEMMA StartInv == IInv /\ start => IInv'
<1> SUFFICES ASSUME IInv, start PROVE IInv'
  OBVIOUS
<1> USE ChannelAssumption DEF IInv, start
<1>1. Types'
  BY NoServerData, BlankEnclaveData DEF Types, Main
<1>2. PhaseInv'
  BY NoServerData DEF PhaseInv, Types, Main, Lsm, Busy
<1>3. KeyInv'
  BY DEF KeyInv, Joined, Types, Main
<1>4. TokenInv'
  <2>1. \A token : Names(token) /\ token \in Token => Names(token)'
    BY DEF Names, Types, Token
  <2>2. \A c \in Clients : client[c].ptoken # NONE => client[c].ptoken \in Token
    BY DEF Types, Client
  <2>3. queue = <<>>
    BY DEF PhaseInv
  <2> QED BY <2>1, <2>2, <2>3, NoServerData DEF TokenInv, Busy
<1>5. MissingInv'
  BY NoServerData DEF MissingInv
<1> QED BY <1>1, <1>2, <1>3, <1>4, <1>5

LEMMA ChallengeInv == IInv /\ (read_challenge \/ other_challenge_read) => IInv'
<1> SUFFICES ASSUME IInv, read_challenge \/ other_challenge_read PROVE IInv'
  OBVIOUS
<1> USE ChannelAssumption DEF IInv, read_challenge, other_challenge_read, Draw
<1>1. Types'
  BY SMTT(30) DEF Types, Lsm, Main
<1>2. /\ lsm'.pid = lsm.pid /\ (lsm.registered => lsm'.registered)
      /\ lsm'.key = lsm.key /\ lsm'.ptoken_key = lsm.ptoken_key
      /\ (main'.pc = main.pc \/ (main.pc = "challenge" /\ main'.pc = "answer"))
  <2>1. lsm' = [lsm EXCEPT !.challenge = rand']
    OBVIOUS
  <2>2. main' = main \/ (main.pc = "challenge" /\ main'.pc = "answer")
    OBVIOUS
  <2> QED BY <2>1, <2>2 DEF Types, Lsm
<1>3. PhaseInv'
  BY <1>2 DEF PhaseInv
<1>4. KeyInv'
  BY <1>2, Zenon DEF KeyInv, Joined, InStep, Sender
<1>5. TokenInv'
  BY <1>2 DEF TokenInv, Names
<1>6. MissingInv'
  BY <1>2 DEF MissingInv
<1> QED BY <1>1, <1>3, <1>4, <1>5, <1>6

LEMMA AnswerInv == IInv /\ handle_kernel_challenge => IInv'
<1> SUFFICES ASSUME IInv, handle_kernel_challenge PROVE IInv'
  OBVIOUS
<1> USE ChannelAssumption DEF IInv, handle_kernel_challenge, Draw
<1>1. Types'
  BY DEF Types, Enclave, Main, Key
<1>2. PhaseInv'
  BY DEF PhaseInv, Types, Main
<1>3. KeyInv'
  BY DEF KeyInv, Joined, Types, Main
<1>4. TokenInv'
  BY DEF TokenInv, Names
<1>5. MissingInv'
  BY DEF MissingInv
<1> QED BY <1>1, <1>2, <1>3, <1>4, <1>5

LEMMA BeginData ==
  ASSUME Types, NEW t \in Threads, NEW kind \in Kinds, begin_exchange(t, kind)
  PROVE  /\ exchange' \in [Threads -> Exchange]
         /\ exchange'[t].pc = "encrypt" /\ exchange'[t].kind = kind
         /\ \A u \in Threads \ {t} : exchange'[u] = exchange[u]
<1>1. [NoExchange EXCEPT !.pc = "encrypt", !.kind = kind] \in Exchange
  BY NoExchangeData, Zenon DEF Exchange
<1> QED BY <1>1, NoExchangeData DEF Types, begin_exchange, Exchange

LEMMA RespondInv == IInv /\ process_challenge_response => IInv'
<1> SUFFICES ASSUME IInv, process_challenge_response PROVE IInv'
  OBVIOUS
<1> USE ChannelAssumption DEF IInv, process_challenge_response
<1>1. /\ exchange' \in [Threads -> Exchange]
      /\ exchange'["main"].pc = "encrypt" /\ exchange'["main"].kind = "xattr"
      /\ exchange'["server"] = exchange["server"]
  BY BeginData DEF Threads, Kinds
<1>2. Types'
  BY <1>1, Zenon DEF Types, Lsm, Enclave, Main
<1>3. /\ lsm'.pid \in {lsm.pid, starts}
      /\ lsm'.pid = starts => /\ lsm'.registered
                              /\ lsm'.key = enclave.ptoken_key
                              /\ lsm'.ptoken_key = enclave.ptoken_key
      /\ lsm'.pid # starts => lsm' = lsm
  BY DEF Types, Lsm, PhaseInv
<1>4. main'.pc = "protect"
  BY DEF Types, Main
<1>5. PhaseInv'
  <2>1. starts > 0 /\ lsm'.pid <= starts /\ (lsm'.pid > 0 => lsm'.registered)
    BY <1>3 DEF PhaseInv, Types, Lsm
  <2>2. \A t \in Threads : /\ exchange'[t].pc # "idle" => exchange'[t].kind \in Kinds
                           /\ exchange'[t].pc \in {"deliver", "ratchet", "store"}
                                => exchange'[t].nonce > 0
    BY <1>1 DEF PhaseInv, Threads, Kinds
  <2> QED BY <1>1, <1>4, <2>1, <2>2 DEF PhaseInv
<1>6. KeyInv'
  BY <1>1, <1>3, <1>4 DEF KeyInv, Joined, InStep, Sender, PhaseInv
<1>7. TokenInv'
  BY <1>3 DEF TokenInv, Names
<1>8. MissingInv'
  <2>1. server.missing = {}
    BY DEF MissingInv, PhaseInv, Busy
  <2> QED BY <2>1 DEF MissingInv
<1> QED BY <1>2, <1>5, <1>6, <1>7, <1>8

LEMMA ProtectInv == IInv /\ protect_socket => IInv'
<1> SUFFICES ASSUME IInv, protect_socket PROVE IInv'
  OBVIOUS
<1> USE ChannelAssumption DEF IInv, protect_socket
<1>1. /\ exchange' \in [Threads -> Exchange]
      /\ exchange'["main"].pc = "idle" /\ exchange'["server"] = exchange["server"]
  BY NoExchangeData DEF Types, Threads
<1>2. main' \in Main /\ main'.pc = "run"
  BY DEF Types, Main
<1>3. Types'
  BY <1>1, <1>2 DEF Types
<1>4. PhaseInv'
  BY <1>1, <1>2 DEF PhaseInv, Threads
<1>5. KeyInv'
  <2>1. exchange["server"].pc = "idle"
    BY DEF PhaseInv, Busy
  <2>2. lsm.pid = starts => lsm.key = enclave.key
    BY DEF KeyInv, Joined, InStep, Sender
  <2> QED BY <1>1, <1>2, <2>1, <2>2 DEF KeyInv, Joined, InStep, Sender
<1>6. TokenInv'
  BY DEF TokenInv, Names
<1>7. MissingInv'
  BY DEF MissingInv
<1> QED BY <1>3, <1>4, <1>5, <1>6, <1>7

LEMMA StopInv == IInv /\ stop => IInv'
<1> SUFFICES ASSUME IInv, stop PROVE IInv'
  OBVIOUS
<1> USE ChannelAssumption DEF IInv, stop
<1>1. \A c \in Clients : /\ client'[c] \in Client
                         /\ client'[c].ptoken = client[c].ptoken
                         /\ client'[c].result = "approved" =>
                              /\ client[c].result = "approved"
                              /\ client'[c].missing = client[c].missing
  BY AnsweredData DEF Types
<1>2. client' \in [Clients -> Client]
  BY <1>1
<1>3. <<>> \in Seq(Conn) /\ Len(<<>>) = 0
  OBVIOUS
<1>4. exchange' \in [Threads -> Exchange]
  BY NoExchangeData
<1>5. Types'
  BY <1>2, <1>3, <1>4, NoServerData, NoMainData, BlankEnclaveData DEF Types
<1>6. PhaseInv'
  BY NoExchangeData, NoServerData, NoMainData DEF PhaseInv, Threads, Busy
<1>7. KeyInv'
  BY NoMainData DEF KeyInv, Joined
<1>8. TokenInv'
  BY <1>1, NoServerData DEF TokenInv, Names, Busy
<1>9. MissingInv'
  BY <1>1, NoServerData DEF MissingInv
<1> QED BY <1>5, <1>6, <1>7, <1>8, <1>9

-----------------------------------------------------------------------------
(* Messages.                                                               *)

\* A thread that has a message is the one that may send now.
LEMMA SenderSends ==
  ASSUME IInv, NEW t \in Threads, exchange[t].pc # "idle"
  PROVE  /\ t = Sender /\ main.pc \in {"protect", "run"}
         /\ Joined => lsm.registered
BY DEF IInv, Types, Lsm, PhaseInv, Threads, Sender, Joined, Busy

\* What a stage of a message has to respect.
LEMMA StageInv ==
  ASSUME IInv, NEW t \in Threads, exchange[t].pc # "idle",
         exchange' \in [Threads -> Exchange],
         \A u \in Threads \ {t} : exchange'[u] = exchange[u],
         exchange'[t].pc # "idle", exchange'[t].kind = exchange[t].kind,
         exchange'[t].pc \in {"deliver", "ratchet", "store"} => exchange'[t].nonce > 0,
         rand' \in 0..MaxRandom,
         lsm' \in Lsm, lsm'.pid = lsm.pid, lsm.registered => lsm'.registered,
         lsm'.ptoken_key = lsm.ptoken_key,
         enclave' \in Enclave, enclave'.ptoken_key = enclave.ptoken_key,
         UNCHANGED <<starts, main, server, queue, client>>,
         Joined /\ InStep(t) => InStep(t)'
  PROVE  IInv'
<1> USE DEF IInv
<1>1. t = Sender /\ main.pc \in {"protect", "run"}
  BY SenderSends
<1>2. Types'
  BY DEF Types
<1>3. PhaseInv'
  BY <1>1 DEF PhaseInv, Threads, Sender
<1>4. KeyInv'
  <2>1. Joined' => Joined /\ Sender' = t
    BY <1>1 DEF Joined, Sender
  <2> QED BY <1>1, <2>1 DEF KeyInv
<1>5. TokenInv'
  BY DEF TokenInv, Names
<1>6. MissingInv'
  BY DEF MissingInv
<1> QED BY <1>2, <1>3, <1>4, <1>5, <1>6

LEMMA EncryptInv ==
  ASSUME IInv, NEW t \in Threads, encrypt(t)
  PROVE  IInv'
<1>0. rand' \in 0..MaxRandom /\ rand' > 0
  BY ChannelAssumption DEF IInv, Types, encrypt, Draw
<1>1. /\ exchange' \in [Threads -> Exchange]
      /\ exchange'[t] = [exchange[t] EXCEPT !.pc = "deliver", !.key = enclave.key,
                                            !.nonce = rand']
      /\ \A u \in Threads \ {t} : exchange'[u] = exchange[u]
  <2> DEFINE e == [exchange[t] EXCEPT !.pc = "deliver", !.key = enclave.key,
                                      !.nonce = rand']
  <2>1. /\ exchange \in [Threads -> Exchange]
        /\ exchange[t] \in Exchange /\ enclave.key \in Key
    BY DEF IInv, Types, Enclave
  <2>2. e \in Exchange
    BY <1>0, <2>1, Zenon DEF Exchange
  <2>3. exchange' = [exchange EXCEPT ![t] = e]
    BY Zenon DEF encrypt
  <2> HIDE DEF e
  <2>4. exchange'[t] = e /\ exchange' \in [Threads -> Exchange]
    BY <2>1, <2>2, <2>3
  <2>5. \A u \in Threads \ {t} : exchange'[u] = exchange[u]
    BY <2>1, <2>3
  <2> QED BY <2>4, <2>5 DEF e
<1>2. /\ exchange'[t].pc = "deliver" /\ exchange'[t].kind = exchange[t].kind
      /\ exchange'[t].nonce > 0 /\ exchange'[t].key = enclave.key
  BY <1>0, <1>1 DEF IInv, Types, Exchange
<1>3. InStep(t) => InStep(t)'
  BY <1>2 DEF InStep, encrypt
<1> QED BY <1>0, <1>1, <1>2, <1>3, StageInv DEF IInv, Types, encrypt

\* The kernel module takes a message and changes its key ...
LEMMA TakenInv ==
  ASSUME IInv, NEW t \in Threads, exchange[t].pc = "deliver",
         update_lsm_key(t),
         exchange' = [exchange EXCEPT ![t].pc = "ratchet", ![t].accepted = TRUE],
         UNCHANGED <<rand, enclave, starts, main, server, queue, client>>
  PROVE  IInv'
<1>1. exchange[t].nonce \in 1..MaxRandom
  BY ChannelAssumption DEF IInv, PhaseInv, Types, Exchange
<1>2. /\ lsm' \in Lsm /\ lsm'.pid = lsm.pid /\ (lsm.registered => lsm'.registered)
      /\ lsm'.ptoken_key = lsm.ptoken_key
      /\ lsm'.key = Xor(lsm.key, {exchange[t].nonce})
  BY <1>1, XorData DEF update_lsm_key, IInv, Types, Lsm
<1>3. /\ exchange' \in [Threads -> Exchange]
      /\ \A u \in Threads \ {t} : exchange'[u] = exchange[u]
      /\ exchange'[t] = [exchange[t] EXCEPT !.pc = "ratchet", !.accepted = TRUE]
  BY ZenonT(30) DEF IInv, Types, Exchange
<1>4. /\ exchange'[t].pc = "ratchet" /\ exchange'[t].accepted
      /\ exchange'[t].kind = exchange[t].kind /\ exchange'[t].nonce = exchange[t].nonce
  BY <1>3 DEF IInv, Types, Exchange
<1>5. InStep(t) => InStep(t)'
  BY <1>2, <1>4, Zenon DEF InStep
<1> QED BY <1>1, <1>2, <1>3, <1>4, <1>5, StageInv DEF IInv, Types

\* ... or refuses it and keeps its key, which it does with no ticket that it
\* could read.
LEMMA RefusedInv ==
  ASSUME IInv, NEW t \in Threads, exchange[t].pc = "deliver",
         Readable(t) => exchange[t].kind = "xattr",
         exchange' = [exchange EXCEPT ![t].pc = "ratchet", ![t].accepted = FALSE],
         UNCHANGED <<rand, lsm, enclave, starts, main, server, queue, client>>
  PROVE  IInv'
<1>1. exchange[t].nonce > 0
  BY DEF IInv, PhaseInv
<1>2. /\ exchange' \in [Threads -> Exchange]
      /\ \A u \in Threads \ {t} : exchange'[u] = exchange[u]
      /\ exchange'[t] = [exchange[t] EXCEPT !.pc = "ratchet", !.accepted = FALSE]
  BY ZenonT(30) DEF IInv, Types, Exchange
<1>3. /\ exchange'[t].pc = "ratchet" /\ ~exchange'[t].accepted
      /\ exchange'[t].kind = exchange[t].kind /\ exchange'[t].nonce = exchange[t].nonce
  BY <1>2 DEF IInv, Types, Exchange
<1>4. Joined /\ InStep(t) => Readable(t)
  BY SenderSends DEF InStep, Readable
<1>5. Joined /\ InStep(t) => InStep(t)'
  BY <1>3, <1>4 DEF InStep
<1> QED BY <1>1, <1>2, <1>3, <1>5, StageInv DEF IInv, Types

LEMMA UpdateInv ==
  ASSUME Calm, IInv, NEW t \in Threads, NEW ok \in BOOLEAN, NEW stored \in BOOLEAN,
         process_received_update(t, ok, stored)
  PROVE  IInv'
<1>1. ok = TRUE /\ stored = TRUE
  BY DEF Calm, process_received_update
<1>2. CASE Readable(t)
  BY <1>1, <1>2, TakenInv, Zenon DEF process_received_update
<1>3. CASE ~Readable(t)
  BY <1>1, <1>3, RefusedInv, Zenon DEF process_received_update
<1> QED BY <1>2, <1>3

LEMMA InstallationInv ==
  ASSUME IInv, NEW t \in Threads, NEW done \in BOOLEAN,
         xattr_enclave_installation(t, done)
  PROVE  IInv'
<1>1. CASE Readable(t) /\ done
  BY <1>1, TakenInv, Zenon DEF xattr_enclave_installation
<1>2. CASE ~(Readable(t) /\ done)
  BY <1>2, RefusedInv, Zenon DEF xattr_enclave_installation
<1> QED BY <1>1, <1>2

LEMMA LoadInv ==
  ASSUME IInv, NEW t \in Threads, load_key(t)
  PROVE  IInv'
<1>1. /\ exchange' \in [Threads -> Exchange]
      /\ \A u \in Threads \ {t} : exchange'[u] = exchange[u]
      /\ exchange'[t] = [exchange[t] EXCEPT !.pc = "store", !.copy = enclave.key]
  BY ZenonT(30) DEF load_key, IInv, Types, Exchange, Enclave
<1>2. /\ exchange'[t].pc = "store" /\ (exchange[t].accepted => exchange'[t].accepted)
      /\ exchange'[t].kind = exchange[t].kind /\ exchange'[t].nonce = exchange[t].nonce
      /\ exchange'[t].copy = enclave.key
  BY <1>1 DEF IInv, Types, Exchange
<1>3. exchange[t].nonce > 0
  BY DEF load_key, IInv, PhaseInv
<1>4. InStep(t) => exchange[t].accepted
  BY DEF InStep, load_key, Installed
<1>5. InStep(t) => InStep(t)'
  BY <1>2, <1>4, Zenon DEF InStep, load_key
<1> QED BY <1>1, <1>2, <1>3, <1>5, StageInv DEF IInv, Types, load_key

LEMMA StoreInv ==
  ASSUME IInv, NEW t \in Threads, store_key(t)
  PROVE  IInv'
<1>1. /\ exchange' \in [Threads -> Exchange]
      /\ \A u \in Threads \ {t} : exchange'[u] = exchange[u]
      /\ exchange'[t] = [exchange[t] EXCEPT !.pc = "done"]
  BY ZenonT(30) DEF store_key, IInv, Types, Exchange
<1>2. /\ exchange'[t].pc = "done" /\ (exchange[t].accepted => exchange'[t].accepted)
      /\ exchange'[t].kind = exchange[t].kind
  BY <1>1 DEF IInv, Types, Exchange
<1>3. exchange[t].nonce \in 1..MaxRandom /\ exchange[t].copy \in Key
  BY ChannelAssumption DEF store_key, IInv, PhaseInv, Types, Exchange
<1>4. /\ enclave' \in Enclave /\ enclave'.ptoken_key = enclave.ptoken_key
      /\ enclave'.key = Xor(exchange[t].copy, {exchange[t].nonce})
  BY <1>3, XorData DEF store_key, IInv, Types, Enclave
<1>5. InStep(t) => InStep(t)'
  BY <1>2, <1>4 DEF InStep, store_key
<1> QED BY <1>1, <1>2, <1>4, <1>5, StageInv, Zenon DEF IInv, Types, store_key

LEMMA KeepInv ==
  ASSUME IInv, NEW t \in Threads, keep_key(t)
  PROVE  IInv'
<1>1. /\ exchange' \in [Threads -> Exchange]
      /\ \A u \in Threads \ {t} : exchange'[u] = exchange[u]
      /\ exchange'[t] = [exchange[t] EXCEPT !.pc = "done"]
  BY ZenonT(30) DEF keep_key, IInv, Types, Exchange
<1>2. exchange'[t].pc = "done" /\ exchange'[t].kind = exchange[t].kind
  BY <1>1 DEF IInv, Types, Exchange
<1>3. InStep(t) => InStep(t)'
  BY <1>2 DEF InStep, keep_key, Installed
<1> QED BY <1>1, <1>2, <1>3, StageInv DEF IInv, Types, keep_key

-----------------------------------------------------------------------------
(* The socket thread.                                                      *)

LEMMA RequestInv == IInv /\ handle_request => IInv'
<1> SUFFICES ASSUME IInv, handle_request PROVE IInv'
  OBVIOUS
<1> USE DEF IInv
<1>1. /\ server.pc = "idle" /\ queue # <<>> /\ main.pc = "run"
      /\ exchange["server"].pc = "idle"
  BY DEF handle_request, PhaseInv
<1>2. /\ queue[1] \in Conn /\ Names(queue[1].ptoken) /\ Head(queue) = queue[1]
      /\ queue' \in Seq(Conn) /\ Len(queue') = Len(queue) - 1
      /\ \A i \in DOMAIN queue' : i + 1 \in DOMAIN queue /\ queue'[i] = queue[i + 1]
  BY <1>1 DEF handle_request, Types, TokenInv
<1>3. /\ server' \in Server /\ server'.pc \in Busy /\ server'.conn = queue[1]
      /\ server'.missing = {}
  <2>1. queue[1].request \in Seq(Kinds) /\ <<>> \in Seq(Kinds)
    BY <1>2 DEF Conn
  <2> QED BY <1>2, <2>1 DEF handle_request, Accepted, Server, Busy
<1>4. Types'
  BY <1>2, <1>3, ChannelAssumption DEF handle_request, Types
<1>5. PhaseInv'
  BY <1>1, <1>2, <1>3 DEF handle_request, PhaseInv, Busy
<1>6. KeyInv'
  BY DEF handle_request, KeyInv, Joined, InStep, Sender
<1>7. TokenInv'
  BY <1>2, <1>3 DEF handle_request, TokenInv, Names
<1>8. MissingInv'
  BY <1>3 DEF handle_request, MissingInv
<1> QED BY <1>4, <1>5, <1>6, <1>7, <1>8

LEMMA NextMessageInv == IInv /\ core_handle_request => IInv'
<1> SUFFICES ASSUME IInv, core_handle_request PROVE IInv'
  OBVIOUS
<1> USE DEF IInv
<1>1. Head(server.left) \in Kinds
  BY DEF core_handle_request, Types, Server
<1>2. /\ exchange' \in [Threads -> Exchange]
      /\ exchange'["server"].pc = "encrypt" /\ exchange'["server"].kind \in Kinds
      /\ exchange'["main"] = exchange["main"]
  BY <1>1, BeginData DEF core_handle_request, Threads
<1>3. Types'
  BY <1>2 DEF core_handle_request, Types
<1>4. PhaseInv'
  BY <1>2 DEF core_handle_request, PhaseInv, Threads
<1>5. KeyInv'
  BY <1>2, Zenon DEF core_handle_request, KeyInv, Joined, InStep, Sender
<1>6. TokenInv'
  BY DEF core_handle_request, TokenInv, Names
<1>7. MissingInv'
  BY DEF core_handle_request, MissingInv
<1> QED BY <1>3, <1>4, <1>5, <1>6, <1>7

LEMMA FinishInv == IInv /\ finish_exchange => IInv'
<1> SUFFICES ASSUME IInv, finish_exchange PROVE IInv'
  OBVIOUS
<1> USE DEF IInv
<1>1. /\ server.pc = "work" /\ server.left # <<>> /\ main.pc = "run"
      /\ exchange["server"].pc = "done" /\ exchange["server"].kind \in Kinds
  BY DEF finish_exchange, PhaseInv, Threads
<1>2. /\ exchange' \in [Threads -> Exchange]
      /\ exchange'["server"].pc = "idle" /\ exchange'["main"] = exchange["main"]
  BY NoExchangeData DEF finish_exchange, Types, Threads
<1>3. lsm.pid = starts /\ exchange["server"].kind = "ticket"
        => exchange["server"].accepted
  BY <1>1 DEF KeyInv, Joined, Sender, InStep
<1>4. /\ server' \in Server /\ server'.pc \in {"work", "error"}
      /\ server'.conn = server.conn
      /\ server'.missing = server.missing
           \/ /\ server'.missing = server.missing \union {"ticket"}
              /\ ~exchange["server"].accepted /\ exchange["server"].kind = "ticket"
  <2>1. Tail(server.left) \in Seq(Kinds) /\ <<>> \in Seq(Kinds)
    BY <1>1 DEF Types, Server
  <2>2. CASE Installed("server") /\ exchange["server"].accepted
    <3>1. server' = [server EXCEPT !.left = Tail(@), !.missing = @ \union {}]
      BY <2>2 DEF finish_exchange
    <3> QED BY <1>1, <2>1, <3>1, Zenon DEF Types, Server
  <2>3. CASE Installed("server") /\ ~exchange["server"].accepted
    <3>1. exchange["server"].kind = "ticket"
      BY <2>3 DEF Installed
    <3>2. server' = [server EXCEPT !.left = Tail(@), !.missing = @ \union {"ticket"}]
      BY <2>3, <3>1 DEF finish_exchange
    <3> QED BY <1>1, <2>1, <2>3, <3>1, <3>2, Zenon DEF Types, Server, Kinds
  <2>4. CASE ~Installed("server")
    <3>1. server' = [server EXCEPT !.left = <<>>, !.pc = "error"]
      BY <2>4 DEF finish_exchange
    <3> QED BY <2>1, <3>1, Zenon DEF Types, Server, Busy
  <2> QED BY <2>2, <2>3, <2>4
<1>5. Types'
  BY <1>2, <1>4 DEF finish_exchange, Types
<1>6. PhaseInv'
  BY <1>1, <1>2, <1>4 DEF finish_exchange, PhaseInv, Threads, Busy
<1>7. KeyInv'
  BY <1>1, <1>2 DEF finish_exchange, KeyInv, Joined, InStep, Sender
<1>8. TokenInv'
  BY <1>1, <1>4 DEF finish_exchange, TokenInv, Names, Busy
<1>9. MissingInv'
  <2>1. server'.missing \subseteq {"ticket"}
    BY <1>4 DEF MissingInv
  <2>2. server'.missing # {} => server'.pc \in Busy /\ lsm.pid # starts
    BY <1>3, <1>4 DEF MissingInv, Busy
  <2> QED BY <2>1, <2>2 DEF finish_exchange, MissingInv
<1> QED BY <1>5, <1>6, <1>7, <1>8, <1>9

LEMMA ResponseInv == IInv /\ send_response => IInv'
<1> SUFFICES ASSUME IInv, send_response PROVE IInv'
  OBVIOUS
<1> USE DEF IInv
<1>1. /\ server.pc \in Busy /\ server.conn \in Conn /\ main.pc = "run"
      /\ exchange["server"].pc = "idle" /\ Names(server.conn.ptoken)
  BY DEF send_response, PhaseInv, Busy, TokenInv
<1>2. /\ client' = [c \in Clients |-> client'[c]]
      /\ \A c \in Clients :
           /\ client'[c] \in Client /\ client'[c].ptoken = client[c].ptoken
           /\ client'[c].result = "approved" => client'[c].missing = {}
  <2>1. CASE ~server.conn.open
    BY <2>1 DEF send_response, Types, MissingInv
  <2>2. CASE server.conn.open
    <3> DEFINE done == IF server.pc = "work" THEN "approved" ELSE server.pc
               status == IF server.conn.ptoken.pid = starts THEN done ELSE "failed"
               d == server.conn.client
    <3>1. status \in {"approved", "failed", "invalid", "error"}
      BY <1>1 DEF Busy
    <3>2. status = "approved" => server.missing = {}
      BY <1>1 DEF Names, MissingInv, Busy
    <3>3. d \in Clients
      BY <1>1 DEF Conn
    <3>4. client' = [client EXCEPT ![d] =
                       [Answered(@, status) EXCEPT !.missing = server.missing]]
      BY <2>2 DEF send_response
    <3> HIDE DEF status
    <3>5. /\ Answered(client[d], status) \in Client
          /\ Answered(client[d], status).ptoken = client[d].ptoken
          /\ Answered(client[d], status).result = status
      BY <3>1, <3>3, AnsweredData DEF Types
    <3>6. server.missing \in SUBSET Kinds
      BY DEF Types, Server
    <3>7. /\ client'[d] \in Client /\ client'[d].ptoken = client[d].ptoken
          /\ client'[d].result = status /\ client'[d].missing = server.missing
      BY <3>3, <3>4, <3>5, <3>6 DEF Types, Client
    <3>8. \A c \in Clients \ {d} : client'[c] = client[c]
      BY <3>4 DEF Types
    <3>9. client' = [c \in Clients |-> client'[c]]
      BY <3>4, Zenon DEF Types
    <3> QED BY <3>2, <3>3, <3>7, <3>8, <3>9 DEF Types, MissingInv
  <2> QED BY <2>1, <2>2
<1>3. client' \in [Clients -> Client]
  BY <1>2
<1>4. Types'
  BY <1>3, NoServerData DEF send_response, Types
<1>5. PhaseInv'
  BY <1>1, NoServerData DEF send_response, PhaseInv, Busy
<1>6. KeyInv'
  BY SMTT(30) DEF send_response, KeyInv, Joined, InStep, Sender
<1>7. TokenInv'
  BY <1>2, NoServerData, ZenonT(30) DEF send_response, TokenInv, Names, Busy
<1>8. MissingInv'
  BY <1>2, NoServerData DEF send_response, MissingInv
<1> QED BY <1>4, <1>5, <1>6, <1>7, <1>8

-----------------------------------------------------------------------------
(* libcitadel.                                                             *)

\* What a step of a client has to respect: it may queue one connection with the
\* token that the client then has, and close connections.
LEMMA ClientInv ==
  ASSUME IInv, NEW c \in Clients, NEW r \in Client,
         client' = [client EXCEPT ![c] = r],
         r.ptoken # NONE => Names(r.ptoken),
         r.result = "approved" => r.missing = {},
         queue' \in Seq(Conn), Len(queue') <= Backlog,
         main.pc # "run" => queue' = <<>>,
         \A i \in DOMAIN queue' : Names(queue'[i].ptoken),
         server' \in Server, server'.pc = server.pc, server'.left = server.left,
         server'.missing = server.missing,
         server.pc \in Busy => /\ server'.conn \in Conn
                               /\ server'.conn.ptoken = server.conn.ptoken,
         UNCHANGED <<rand, lsm, enclave, starts, main, exchange>>
  PROVE  IInv'
<1> USE DEF IInv
<1>1. client'[c] = r /\ \A d \in Clients \ {c} : client'[d] = client[d]
  BY DEF Types
<1>2. Types'
  BY DEF Types
<1>3. PhaseInv'
  BY DEF PhaseInv
<1>4. KeyInv'
  BY DEF KeyInv, Joined, InStep, Sender
<1>5. TokenInv'
  BY <1>1 DEF TokenInv, Names
<1>6. MissingInv'
  BY <1>1, SMTT(30) DEF MissingInv
<1> QED BY <1>2, <1>3, <1>4, <1>5, <1>6

\* The facts of IInv about client c and the queue.
LEMMA ClientFacts ==
  ASSUME IInv, NEW c \in Clients
  PROVE  /\ client[c] \in Client
         /\ client[c].ptoken # NONE => client[c].ptoken \in Token /\ Names(client[c].ptoken)
         /\ client[c].result = "approved" => client[c].missing = {}
         /\ queue \in Seq(Conn) /\ Len(queue) <= Backlog
         /\ main.pc # "run" => queue = <<>>
         /\ \A i \in DOMAIN queue : Names(queue[i].ptoken)
         /\ server \in Server /\ (server.pc \in Busy => server.conn \in Conn)
BY DEF IInv, Types, Client, TokenInv, MissingInv, PhaseInv

\* A connection is queued only while the main loop runs.
LEMMA QueueData ==
  ASSUME Calm, IInv, NEW c \in Clients, NEW request \in Seq(Kinds), NEW token \in Token,
         Names(token), MayCall, Connects,
         queue' = Append(queue, Connection(c, request, token))
  PROVE  /\ queue' \in Seq(Conn) /\ Len(queue') <= Backlog /\ main.pc = "run"
         /\ \A i \in DOMAIN queue' : Names(queue'[i].ptoken)
<1>1. main.pc = "run"
  BY DEF Calm, MayCall, Connects, IInv, PhaseInv
<1>2. Connection(c, request, token) \in Conn
  BY DEF Connection, Conn
<1>3. Connection(c, request, token).ptoken = token
  BY DEF Connection
<1>4. queue \in Seq(Conn) /\ \A i \in DOMAIN queue : Names(queue[i].ptoken)
  BY ClientFacts
<1>5. queue' \in Seq(Conn) /\ Len(queue') = Len(queue) + 1
  BY <1>2, <1>4
<1>6. \A i \in DOMAIN queue' : Names(queue'[i].ptoken)
  <2> SUFFICES ASSUME NEW i \in DOMAIN queue' PROVE Names(queue'[i].ptoken)
    OBVIOUS
  <2>1. CASE i \in DOMAIN queue
    <3>1. queue'[i] = queue[i]
      BY <1>2, <1>4, <2>1
    <3> QED BY <1>4, <2>1, <3>1
  <2>2. CASE i \notin DOMAIN queue
    <3>1. i = Len(queue) + 1
      BY <1>4, <1>5, <2>2
    <3>2. queue'[i] = Connection(c, request, token)
      BY <1>2, <1>4, <3>1
    <3> QED BY <1>3, <3>2
  <2> QED BY <2>1, <2>2
<1> QED BY <1>1, <1>4, <1>5, <1>6, ChannelAssumption DEF Connects

LEMMA InitAgainInv ==
  ASSUME IInv, NEW c \in Clients, citadel_init_again(c)
  PROVE  IInv'
<1> DEFINE r == [client[c] EXCEPT !.init = TRUE]
<1>1. r \in Client /\ r.ptoken = client[c].ptoken
      /\ r.result = client[c].result /\ r.missing = client[c].missing
  BY ClientFacts, Zenon DEF Client
<1>2. client' = [client EXCEPT ![c] = r]
  BY DEF citadel_init_again
<1> HIDE DEF r
<1>3. UNCHANGED <<rand, lsm, enclave, starts, main, server, exchange, queue>>
  BY DEF citadel_init_again
<1>4. /\ r.ptoken # NONE => Names(r.ptoken)
      /\ r.result = "approved" => r.missing = {}
  BY <1>1, ClientFacts
<1> QED BY <1>1, <1>2, <1>3, <1>4, ClientFacts, ClientInv

LEMMA CitadelInitInv ==
  ASSUME Calm, IInv, NEW c \in Clients, citadel_init(c)
  PROVE  IInv'
<1> DEFINE token == generate_ptoken
           sent == token # NONE /\ Connects
           r == [client[c] EXCEPT !.own_pid = TRUE, !.ptoken = token, !.waiting = sent,
                                  !.declaring = sent, !.init = IF sent THEN @ ELSE FALSE]
<1>1. token # NONE => token \in Token /\ Names(token)
  BY DEF generate_ptoken, Token, Names, IInv, Types, Lsm, PhaseInv
<1>2. sent \in BOOLEAN
  BY Zenon
<1>3. client' = [client EXCEPT ![c] = r]
  BY Zenon DEF citadel_init
<1>4. queue' = IF sent THEN Append(queue, Connection(c, <<>>, token)) ELSE queue
  BY DEF citadel_init
<1>5. sent => Connects /\ token # NONE
  OBVIOUS
<1> HIDE DEF sent, token
<1>6. /\ r \in Client /\ r.ptoken = token
      /\ r.result = client[c].result /\ r.missing = client[c].missing
  BY <1>1, <1>2, ClientFacts, Zenon DEF Client
<1> HIDE DEF r
<1>7. /\ queue' \in Seq(Conn) /\ Len(queue') <= Backlog
      /\ main.pc # "run" => queue' = <<>>
      /\ \A i \in DOMAIN queue' : Names(queue'[i].ptoken)
  <2>1. CASE sent
    <3>1. <<>> \in Seq(Kinds)
      OBVIOUS
    <3> QED BY <1>1, <1>4, <1>5, <2>1, <3>1, QueueData, Zenon DEF citadel_init
  <2>2. CASE ~sent
    BY <1>4, <2>2, ClientFacts
  <2> QED BY <2>1, <2>2
<1> QED BY <1>1, <1>3, <1>6, <1>7, ClientFacts, ClientInv, Zenon DEF citadel_init

LEMMA TransactionInv ==
  ASSUME Calm, IInv, NEW c \in Clients, NEW request \in Requests,
         ipc_transaction(c, request)
  PROVE  IInv'
<1>1. request \in Seq(Kinds)
  BY ChannelAssumption DEF Kinds
<1>2. CASE Connects
  <2> DEFINE r == [client[c] EXCEPT !.waiting = TRUE, !.result = NONE]
  <2>1. client' = [client EXCEPT ![c] = r]
    BY <1>2, Zenon DEF ipc_transaction
  <2>2. r \in Client /\ r.ptoken = client[c].ptoken /\ r.missing = client[c].missing
        /\ r.result = NONE
    BY ClientFacts, Zenon DEF Client
  <2> HIDE DEF r
  <2>3. /\ queue' \in Seq(Conn) /\ Len(queue') <= Backlog /\ main.pc = "run"
        /\ \A i \in DOMAIN queue' : Names(queue'[i].ptoken)
    BY <1>1, <1>2, ClientFacts, QueueData DEF ipc_transaction
  <2> QED BY <2>1, <2>2, <2>3, NoResultAssumption, ClientFacts, ClientInv, Zenon
          DEF ipc_transaction
<1>3. CASE ~Connects
  <2> DEFINE r == [client[c] EXCEPT !.result = "failed"]
  <2>1. client' = [client EXCEPT ![c] = r]
    BY <1>3 DEF ipc_transaction
  <2>2. r \in Client /\ r.ptoken = client[c].ptoken /\ r.result = "failed"
    BY ClientFacts DEF Client
  <2> HIDE DEF r
  <2> QED BY <1>3, <2>1, <2>2, ClientFacts, ClientInv, Zenon DEF ipc_transaction
<1> QED BY <1>2, <1>3

LEMMA ClosedData ==
  ASSUME NEW conn \in Conn, NEW c
  PROVE  Closed(conn, c) \in Conn /\ Closed(conn, c).ptoken = conn.ptoken
BY Zenon DEF Closed, Conn

LEMMA TimeoutInv ==
  ASSUME IInv, NEW c \in Clients, ipc_recv_timeout(c)
  PROVE  IInv'
<1> DEFINE r == Answered(client[c], "failed")
<1>1. r \in Client /\ r.ptoken = client[c].ptoken /\ r.result = "failed"
  BY ClientFacts, AnsweredData
<1>2. client' = [client EXCEPT ![c] = r]
  BY DEF ipc_recv_timeout
<1> HIDE DEF r
<1>3. /\ queue' \in Seq(Conn) /\ Len(queue') = Len(queue)
      /\ \A i \in DOMAIN queue' : i \in DOMAIN queue /\ queue'[i].ptoken = queue[i].ptoken
  <2>1. queue \in Seq(Conn)
    BY ClientFacts
  <2>2. \A i \in DOMAIN queue : queue[i] \in Conn
    BY <2>1
  <2>3. queue' = [i \in 1..Len(queue) |-> Closed(queue[i], c)]
    BY <2>1 DEF ipc_recv_timeout
  <2>4. \A i \in 1..Len(queue) : /\ Closed(queue[i], c) \in Conn
                                 /\ Closed(queue[i], c).ptoken = queue[i].ptoken
    BY <2>1, <2>2, ClosedData
  <2>5. queue' \in Seq(Conn) /\ Len(queue') = Len(queue)
    BY <2>1, <2>3, <2>4
  <2> QED BY <2>1, <2>3, <2>4, <2>5
<1>4. main.pc # "run" => queue' = <<>>
  BY <1>3, ClientFacts
<1>5. /\ server' \in Server /\ server'.pc = server.pc /\ server'.left = server.left
      /\ server'.missing = server.missing /\ server'.conn = Closed(server.conn, c)
  <2>1. Closed(server.conn, c) \in Conn \union {NONE}
    BY ClientFacts, ClosedData, Zenon DEF Server, Closed
  <2> QED BY <2>1, ClientFacts, Zenon DEF ipc_recv_timeout, Server
<1>6. server.pc \in Busy => /\ server'.conn \in Conn
                            /\ server'.conn.ptoken = server.conn.ptoken
  BY <1>5, ClientFacts, ClosedData
<1>7. UNCHANGED <<rand, lsm, enclave, starts, main, exchange>>
  BY DEF ipc_recv_timeout
<1>8. Len(queue') <= Backlog /\ \A i \in DOMAIN queue' : Names(queue'[i].ptoken)
  BY <1>3, ClientFacts
<1>9. /\ r.ptoken # NONE => Names(r.ptoken)
      /\ r.result = "approved" => r.missing = {}
  BY <1>1, ClientFacts
<1> QED BY <1>1, <1>2, <1>3, <1>4, <1>5, <1>6, <1>7, <1>8, <1>9, ClientInv, Zenon

-----------------------------------------------------------------------------
(* The theorems.                                                           *)

LEMMA Step == Calm /\ IInv /\ [Next]_vars => IInv'
<1> SUFFICES ASSUME Calm, IInv, [Next]_vars PROVE IInv'
  OBVIOUS
<1>1. CASE start \/ read_challenge \/ handle_kernel_challenge \/ other_challenge_read
           \/ process_challenge_response \/ protect_socket \/ stop
  BY <1>1, StartInv, ChallengeInv, AnswerInv, RespondInv, ProtectInv, StopInv
<1>2. CASE handle_request \/ core_handle_request \/ finish_exchange \/ send_response
  BY <1>2, RequestInv, NextMessageInv, FinishInv, ResponseInv
<1>3. ASSUME NEW t \in Threads,
             \/ encrypt(t) \/ load_key(t) \/ store_key(t) \/ keep_key(t)
             \/ \E ok, stored \in BOOLEAN : process_received_update(t, ok, stored)
             \/ \E done \in BOOLEAN : xattr_enclave_installation(t, done)
      PROVE  IInv'
  BY <1>3, EncryptInv, LoadInv, StoreInv, KeepInv, UpdateInv, InstallationInv
<1>4. ASSUME NEW c \in Clients,
             citadel_init(c) \/ citadel_init_again(c) \/ ipc_recv_timeout(c)
      PROVE  IInv'
  BY <1>4, CitadelInitInv, InitAgainInv, TimeoutInv
<1>5. ASSUME NEW c \in Clients, NEW r \in Requests, ipc_transaction(c, r)
      PROVE  IInv'
  BY <1>5, TransactionInv, SMTT(30)
<1>6. CASE UNCHANGED vars
  BY <1>6 DEF vars, IInv, Types, PhaseInv, KeyInv, Joined, InStep, Sender, TokenInv,
              Names, MissingInv
<1> QED BY <1>1, <1>2, <1>3, <1>4, <1>5, <1>6 DEF Next

\* When clients wait for the daemon's main loop and the kernel has memory, IInv
\* holds in every reachable state.
LEMMA Inductive == Calm /\ Spec => []IInv
<1>1. Init => IInv
  BY InitInv
<1>2. Calm /\ IInv /\ [Next]_vars => IInv'
  BY Step
<1>3. CASE Calm
  <2>1. IInv /\ [Next]_vars => IInv'
    BY <1>2, <1>3
  <2> QED BY <1>1, <2>1, PTL DEF Spec
<1>4. CASE ~Calm
  BY <1>4, PTL
<1> QED BY <1>3, <1>4

\* Once a daemon whose response the kernel module took has its main loop
\* running, both sides of the channel have the same key between two messages
\* (update_aes_key in the enclave and in payload_io.c) and its tokens are valid.
THEOREM ChannelInStep == Calm /\ Spec => []KeysAgree
<1>1. IInv => KeysAgree
  BY DEF IInv, Types, Lsm, PhaseInv, KeyInv, Joined, InStep, Sender, KeysAgree
<1>2. Calm /\ Spec => []IInv
  BY Inductive
<1> QED BY <1>1, <1>2, PTL

\* A client that is told its request is approved (send_response) has all the
\* tickets of the request in the kernel module.
THEOREM PromisesAreKept == Calm /\ Spec => []PromiseKept
<1>1. IInv => PromiseKept
  BY DEF IInv, MissingInv, PromiseKept
<1>2. Calm /\ Spec => []IInv
  BY Inductive
<1> QED BY <1>1, <1>2, PTL

\* A client that is told a claim or a declassification is approved has had the
\* label of its file changed (install_xattr).
THEOREM LabelsAreInstalled == Calm /\ Spec => []LabelKept
<1>1. IInv => LabelKept
  BY DEF IInv, MissingInv, LabelKept
<1>2. Calm /\ Spec => []IInv
  BY Inductive
<1> QED BY <1>1, <1>2, PTL
-----------------------------------------------------------------------------
(* The types, also when clients do not wait and the kernel runs out of      *)
(* memory.                                                                 *)

\* What a thread finds in its message and in its connection.
StageTypes ==
  /\ main.pc = "off" => server.pc = "down"
  /\ server.pc \in Busy => server.conn \in Conn
  /\ exchange["server"].pc # "idle" => server.pc = "work" /\ server.left # <<>>
  /\ \A t \in Threads :
       /\ exchange[t].pc # "idle" => exchange[t].kind \in Kinds
       /\ exchange[t].pc \in {"deliver", "ratchet", "store"} => exchange[t].nonce > 0

TInv == Types /\ StageTypes

LEMMA MainTypes ==
  ASSUME TInv,
         \/ start \/ read_challenge \/ handle_kernel_challenge
         \/ other_challenge_read \/ process_challenge_response \/ protect_socket \/ stop
  PROVE  TInv'
<1> USE ChannelAssumption DEF TInv
<1>1. CASE start
  <2>1. Types'
    BY <1>1, NoServerData, BlankEnclaveData DEF start, Types, Main
  <2>2. main'.pc = "challenge" /\ server'.pc = "idle" /\ exchange' = exchange
    BY <1>1, NoServerData DEF start, Types, Main
  <2> QED BY <1>1, <2>1, <2>2 DEF start, StageTypes, Busy
<1>2. CASE read_challenge \/ other_challenge_read
  <2>1. Types'
    BY <1>2, SMTT(30) DEF read_challenge, other_challenge_read, Draw, Types, Lsm, Main
  <2>2. (main'.pc = "off" => main.pc = "off") /\ UNCHANGED <<server, exchange>>
    BY <1>2 DEF read_challenge, other_challenge_read
  <2> QED BY <2>1, <2>2 DEF StageTypes
<1>3. CASE handle_kernel_challenge
  <2>1. Types'
    BY <1>3 DEF handle_kernel_challenge, Draw, Types, Enclave, Main, Key
  <2>2. main'.pc # "off" /\ UNCHANGED <<server, exchange>>
    BY <1>3 DEF handle_kernel_challenge, Types, Main
  <2> QED BY <2>1, <2>2 DEF StageTypes
<1>4. CASE process_challenge_response
  <2>1. /\ exchange' \in [Threads -> Exchange]
        /\ exchange'["main"].pc = "encrypt" /\ exchange'["main"].kind = "xattr"
        /\ exchange'["server"] = exchange["server"]
    BY <1>4, BeginData DEF process_challenge_response, Threads, Kinds
  <2>2. Types'
    BY <1>4, <2>1, Zenon DEF process_challenge_response, Types, Lsm, Enclave, Main
  <2>3. main'.pc = "protect" /\ UNCHANGED server
    BY <1>4 DEF process_challenge_response, Types, Main
  <2> QED BY <2>1, <2>2, <2>3 DEF StageTypes, Threads, Kinds
<1>5. CASE protect_socket
  <2>1. /\ exchange' \in [Threads -> Exchange]
        /\ exchange'["main"].pc = "idle" /\ exchange'["server"] = exchange["server"]
    BY <1>5, NoExchangeData DEF protect_socket, Types, Threads
  <2>2. main' \in Main /\ main'.pc = "run" /\ UNCHANGED server
    BY <1>5 DEF protect_socket, Types, Main
  <2>3. Types'
    BY <1>5, <2>1, <2>2 DEF protect_socket, Types
  <2> QED BY <2>1, <2>2, <2>3 DEF StageTypes, Threads
<1>6. CASE stop
  <2>1. \A c \in Clients : client'[c] \in Client
    BY <1>6, AnsweredData DEF stop, Types
  <2>2. client' \in [Clients -> Client]
    BY <1>6, <2>1 DEF stop
  <2>3. <<>> \in Seq(Conn) /\ Len(<<>>) = 0
    OBVIOUS
  <2>4. exchange' \in [Threads -> Exchange]
    BY <1>6, NoExchangeData DEF stop
  <2>5. Types'
    BY <1>6, <2>2, <2>3, <2>4, NoServerData, NoMainData, BlankEnclaveData DEF stop, Types
  <2> QED BY <1>6, <2>5, NoExchangeData, NoServerData, NoMainData
          DEF stop, StageTypes, Threads, Busy
<1> QED BY <1>1, <1>2, <1>3, <1>4, <1>5, <1>6

\* A stage of a message, from record exchange[t] to e.
LEMMA StageTyped ==
  ASSUME TInv, NEW t \in Threads, exchange[t].pc # "idle", NEW e \in Exchange,
         exchange' = [exchange EXCEPT ![t] = e],
         e.pc # "idle", e.kind = exchange[t].kind,
         e.pc \in {"deliver", "ratchet", "store"} => e.nonce > 0,
         rand' \in 0..MaxRandom, lsm' \in Lsm, enclave' \in Enclave,
         UNCHANGED <<starts, main, server, queue, client>>
  PROVE  TInv'
<1> USE DEF TInv
<1>1. /\ exchange' \in [Threads -> Exchange] /\ exchange'[t] = e
      /\ \A u \in Threads \ {t} : exchange'[u] = exchange[u]
  BY DEF Types
<1>2. Types'
  BY <1>1 DEF Types
<1> QED BY <1>1, <1>2 DEF StageTypes, Threads

LEMMA MessageTypes ==
  ASSUME TInv, NEW t \in Threads,
         \/ encrypt(t) \/ load_key(t) \/ store_key(t) \/ keep_key(t)
         \/ \E ok, stored \in BOOLEAN : process_received_update(t, ok, stored)
         \/ \E done \in BOOLEAN : xattr_enclave_installation(t, done)
  PROVE  TInv'
<1>1. /\ exchange \in [Threads -> Exchange] /\ exchange[t] \in Exchange
      /\ rand \in 0..MaxRandom /\ lsm \in Lsm /\ enclave \in Enclave
      /\ enclave.key \in Key /\ exchange[t].copy \in Key
  BY DEF TInv, Types, Enclave, Exchange
<1>2. exchange[t].pc \in {"deliver", "ratchet", "store"} =>
        exchange[t].nonce > 0 /\ exchange[t].nonce \in 1..MaxRandom
  BY <1>1, ChannelAssumption DEF TInv, StageTypes, Exchange
<1>3. CASE encrypt(t)
  <2>1. rand' \in 0..MaxRandom /\ rand' > 0
    BY <1>1, <1>3, ChannelAssumption DEF encrypt, Draw
  <2> DEFINE e == [exchange[t] EXCEPT !.pc = "deliver", !.key = enclave.key, !.nonce = rand']
  <2>2. e \in Exchange /\ e.pc = "deliver" /\ e.kind = exchange[t].kind /\ e.nonce = rand'
    BY <1>1, <2>1, Zenon DEF Exchange
  <2>3. exchange' = [exchange EXCEPT ![t] = e]
    BY <1>3, Zenon DEF encrypt
  <2> HIDE DEF e
  <2> QED BY <1>1, <1>3, <2>1, <2>2, <2>3, StageTyped DEF encrypt
<1>4. ASSUME NEW b \in BOOLEAN, exchange[t].pc = "deliver",
             exchange' = [exchange EXCEPT ![t].pc = "ratchet", ![t].accepted = b],
             update_lsm_key(t) \/ UNCHANGED lsm,
             UNCHANGED <<rand, enclave, starts, main, server, queue, client>>
      PROVE  TInv'
  <2> DEFINE e == [exchange[t] EXCEPT !.pc = "ratchet", !.accepted = b]
  <2>1. /\ e \in Exchange /\ e.pc = "ratchet" /\ e.kind = exchange[t].kind
        /\ e.nonce = exchange[t].nonce
    BY <1>1, Zenon DEF Exchange
  <2>2. exchange' = [exchange EXCEPT ![t] = e]
    BY <1>4, Zenon
  <2> HIDE DEF e
  <2>3. lsm' \in Lsm
    <3>1. CASE update_lsm_key(t)
      BY <1>1, <1>2, <1>4, <3>1, XorData DEF update_lsm_key, Lsm
    <3> QED BY <1>1, <1>4, <3>1
  <2> QED BY <1>1, <1>2, <1>4, <2>1, <2>2, <2>3, StageTyped
<1>5. ASSUME NEW ok \in BOOLEAN, NEW stored \in BOOLEAN, process_received_update(t, ok, stored)
      PROVE  TInv'
  <2>1. (ok /\ Readable(t) /\ stored) \in BOOLEAN
    BY Zenon
  <2>2. exchange' = [exchange EXCEPT ![t].pc = "ratchet",
                                     ![t].accepted = (ok /\ Readable(t) /\ stored)]
    BY <1>5, Zenon DEF process_received_update
  <2>3. update_lsm_key(t) \/ UNCHANGED lsm
    BY <1>5 DEF process_received_update
  <2> QED BY <1>4, <1>5, <2>1, <2>2, <2>3 DEF process_received_update
<1>6. ASSUME NEW done \in BOOLEAN, xattr_enclave_installation(t, done)
      PROVE  TInv'
  <2>1. (Readable(t) /\ done) \in BOOLEAN
    BY Zenon
  <2>2. exchange' = [exchange EXCEPT ![t].pc = "ratchet", ![t].accepted = (Readable(t) /\ done)]
    BY <1>6, Zenon DEF xattr_enclave_installation
  <2>3. update_lsm_key(t) \/ UNCHANGED lsm
    BY <1>6 DEF xattr_enclave_installation
  <2> QED BY <1>4, <1>6, <2>1, <2>2, <2>3 DEF xattr_enclave_installation
<1>7. CASE load_key(t)
  <2> DEFINE e == [exchange[t] EXCEPT !.pc = "store", !.copy = enclave.key]
  <2>1. /\ e \in Exchange /\ e.pc = "store" /\ e.kind = exchange[t].kind
        /\ e.nonce = exchange[t].nonce
    BY <1>1, Zenon DEF Exchange
  <2>2. exchange' = [exchange EXCEPT ![t] = e]
    BY <1>7, Zenon DEF load_key
  <2> HIDE DEF e
  <2> QED BY <1>1, <1>2, <1>7, <2>1, <2>2, StageTyped DEF load_key
<1>8. CASE store_key(t) \/ keep_key(t)
  <2> DEFINE e == [exchange[t] EXCEPT !.pc = "done"]
  <2>1. e \in Exchange /\ e.pc = "done" /\ e.kind = exchange[t].kind
    BY <1>1, Zenon DEF Exchange
  <2>2. exchange' = [exchange EXCEPT ![t] = e]
    BY <1>8, Zenon DEF store_key, keep_key
  <2> HIDE DEF e
  <2>3. enclave' \in Enclave
    BY <1>1, <1>2, <1>8, XorData DEF store_key, keep_key, Enclave
  <2> QED BY <1>1, <1>8, <2>1, <2>2, <2>3, StageTyped, ZenonT(30) DEF store_key, keep_key
<1> QED BY <1>3, <1>5, <1>6, <1>7, <1>8
LEMMA ServerTypes ==
  ASSUME TInv,
         handle_request \/ core_handle_request \/ finish_exchange \/ send_response
  PROVE  TInv'
<1> USE DEF TInv
<1>1. CASE handle_request
  <2>1. server.pc = "idle" /\ exchange["server"].pc = "idle" /\ main.pc # "off"
    <3>1. server.pc = "idle"
      BY <1>1, Zenon DEF handle_request
    <3>2. /\ main.pc = "off" => server.pc = "down"
          /\ exchange["server"].pc # "idle" => server.pc = "work"
      BY Zenon DEF StageTypes
    <3> QED BY <3>1, <3>2
  <2>2. /\ queue[1] \in Conn /\ Head(queue) = queue[1]
        /\ queue' \in Seq(Conn) /\ Len(queue') = Len(queue) - 1
    BY <1>1, SMTT(30) DEF handle_request, Types
  <2>3. server' \in Server /\ server'.pc \in Busy /\ server'.conn = queue[1]
    <3>1. queue[1].request \in Seq(Kinds) /\ <<>> \in Seq(Kinds)
      BY <2>2 DEF Conn
    <3> QED BY <1>1, <2>2, <3>1 DEF handle_request, Accepted, Server, Busy
  <2>4. Types'
    BY <1>1, <2>2, <2>3, ChannelAssumption, SMTT(30) DEF handle_request, Types
  <2> QED BY <1>1, <2>1, <2>2, <2>3, <2>4, SMTT(30) DEF handle_request, StageTypes
<1>2. CASE core_handle_request
  <2>1. Head(server.left) \in Kinds
    BY <1>2 DEF core_handle_request, Types, Server
  <2>2. /\ exchange' \in [Threads -> Exchange]
        /\ exchange'["server"].pc = "encrypt" /\ exchange'["server"].kind \in Kinds
        /\ exchange'["main"] = exchange["main"]
    BY <1>2, <2>1, BeginData DEF core_handle_request, Threads
  <2>3. Types'
    BY <1>2, <2>2 DEF core_handle_request, Types
  <2> QED BY <1>2, <2>2, <2>3 DEF core_handle_request, StageTypes, Threads
<1>3. CASE finish_exchange
  <2>1. /\ server \in Server /\ server.pc = "work" /\ server.left # <<>>
        /\ exchange["server"].kind \in Kinds
    BY <1>3 DEF finish_exchange, Types, StageTypes, Threads
  <2>2. /\ exchange' \in [Threads -> Exchange]
        /\ exchange'["server"].pc = "idle" /\ exchange'["main"] = exchange["main"]
    BY <1>3, NoExchangeData DEF finish_exchange, Types, Threads
  <2>3. Tail(server.left) \in Seq(Kinds) /\ <<>> \in Seq(Kinds)
    BY <2>1 DEF Server
  <2>4. /\ server' \in Server /\ server'.pc \in {"work", "error"}
        /\ server'.conn = server.conn
    <3>1. CASE Installed("server")
      <4> PICK lack \in SUBSET Kinds :
            server' = [server EXCEPT !.left = Tail(@), !.missing = @ \union lack]
        BY <1>3, <2>1, <3>1 DEF finish_exchange
      <4> QED BY <2>1, <2>3, ZenonT(30) DEF Server
    <3>2. CASE ~Installed("server")
      <4>1. server' = [server EXCEPT !.left = <<>>, !.pc = "error"]
        BY <1>3, <3>2 DEF finish_exchange
      <4> QED BY <2>1, <2>3, <4>1, Zenon DEF Server, Busy
    <3> QED BY <3>1, <3>2
  <2>5. Types'
    BY <1>3, <2>2, <2>4 DEF finish_exchange, Types
  <2> QED BY <1>3, <2>1, <2>2, <2>4, <2>5 DEF finish_exchange, StageTypes, Threads, Busy
<1>4. CASE send_response
  <2>1. /\ server.pc \in Busy /\ server.conn \in Conn /\ main.pc # "off"
        /\ exchange["server"].pc = "idle"
    BY <1>4 DEF send_response, StageTypes, Busy
  <2>2. client' \in [Clients -> Client]
    <3>1. CASE ~server.conn.open
      BY <1>4, <3>1 DEF send_response, Types
    <3>2. CASE server.conn.open
      <4> DEFINE done == IF server.pc = "work" THEN "approved" ELSE server.pc
                 status == IF server.conn.ptoken.pid = starts THEN done ELSE "failed"
                 d == server.conn.client
      <4>1. status \in {"approved", "failed", "invalid", "error"} /\ d \in Clients
        BY <2>1 DEF Busy, Conn
      <4>2. client' = [client EXCEPT ![d] =
                         [Answered(client[d], status) EXCEPT !.missing = server.missing]]
        BY <1>4, <3>2 DEF send_response
      <4> HIDE DEF status, d
      <4>3. Answered(client[d], status) \in Client
        BY <4>1, AnsweredData DEF Types
      <4>4. server.missing \in SUBSET Kinds
        BY DEF Types, Server
      <4>5. [Answered(client[d], status) EXCEPT !.missing = server.missing] \in Client
        BY <4>3, <4>4, Zenon DEF Client
      <4> QED BY <4>1, <4>2, <4>5 DEF Types
    <3> QED BY <3>1, <3>2
  <2>3. Types'
    BY <1>4, <2>2, NoServerData DEF send_response, Types
  <2> QED BY <1>4, <2>1, <2>3, NoServerData DEF send_response, StageTypes, Busy
<1> QED BY <1>1, <1>2, <1>3, <1>4

\* A step of client c, which leaves the threads of the daemon where they are.
LEMMA ClientTyped ==
  ASSUME TInv, NEW c \in Clients, NEW r \in Client,
         client' = [client EXCEPT ![c] = r],
         queue' \in Seq(Conn), Len(queue') <= Backlog,
         server' \in Server, server'.pc = server.pc, server'.left = server.left,
         server.pc \in Busy => server'.conn \in Conn,
         UNCHANGED <<rand, lsm, enclave, starts, main, exchange>>
  PROVE  TInv'
<1>1. Types'
  BY DEF TInv, Types
<1> QED BY <1>1 DEF TInv, StageTypes

LEMMA ClientTypes ==
  ASSUME TInv, NEW c \in Clients,
         \/ citadel_init(c) \/ citadel_init_again(c) \/ ipc_recv_timeout(c)
         \/ \E request \in Requests : ipc_transaction(c, request)
  PROVE  TInv'
<1>1. /\ client[c] \in Client /\ queue \in Seq(Conn) /\ Len(queue) <= Backlog
      /\ client[c].ptoken # NONE => client[c].ptoken \in Token
      /\ server \in Server /\ (server.pc \in Busy => server.conn \in Conn)
  BY DEF TInv, Types, StageTypes, Client
<1>2. ASSUME NEW request \in Seq(Kinds), NEW token \in Token, Connects,
             queue' = Append(queue, Connection(c, request, token))
      PROVE  queue' \in Seq(Conn) /\ Len(queue') <= Backlog
  <2>1. Connection(c, request, token) \in Conn
    BY DEF Connection, Conn
  <2> QED BY <1>1, <1>2, <2>1, ChannelAssumption DEF Connects
<1>3. CASE citadel_init(c)
  <2> DEFINE token == generate_ptoken
             sent == token # NONE /\ Connects
             r == [client[c] EXCEPT !.own_pid = TRUE, !.ptoken = token, !.waiting = sent,
                                    !.declaring = sent, !.init = IF sent THEN @ ELSE FALSE]
  <2>1. token # NONE => token \in Token
    BY DEF generate_ptoken, Token, TInv, Types, Lsm
  <2>2. sent \in BOOLEAN
    BY Zenon
  <2>3. client' = [client EXCEPT ![c] = r]
    BY <1>3, Zenon DEF citadel_init
  <2>4. queue' = IF sent THEN Append(queue, Connection(c, <<>>, token)) ELSE queue
    BY <1>3 DEF citadel_init
  <2>5. sent => Connects /\ token # NONE
    OBVIOUS
  <2> HIDE DEF sent, token
  <2>6. r \in Client
    BY <1>1, <2>1, <2>2, Zenon DEF Client
  <2> HIDE DEF r
  <2>7. queue' \in Seq(Conn) /\ Len(queue') <= Backlog
    <3>1. <<>> \in Seq(Kinds)
      OBVIOUS
    <3> QED BY <1>1, <1>2, <2>1, <2>4, <2>5, <3>1
  <2> QED BY <1>1, <1>3, <2>3, <2>6, <2>7, ClientTyped DEF citadel_init
<1>4. CASE citadel_init_again(c)
  <2> DEFINE r == [client[c] EXCEPT !.init = TRUE]
  <2>1. r \in Client
    BY <1>1, Zenon DEF Client
  <2>2. client' = [client EXCEPT ![c] = r]
    BY <1>4 DEF citadel_init_again
  <2> HIDE DEF r
  <2> QED BY <1>1, <1>4, <2>1, <2>2, ClientTyped DEF citadel_init_again
<1>5. ASSUME NEW request \in Requests, ipc_transaction(c, request) PROVE TInv'
  <2>1. request \in Seq(Kinds)
    BY ChannelAssumption DEF Kinds
  <2>2. CASE Connects
    <3> DEFINE r == [client[c] EXCEPT !.waiting = TRUE, !.result = NONE]
    <3>1. client' = [client EXCEPT ![c] = r]
      BY <1>5, <2>2, Zenon DEF ipc_transaction
    <3>2. r \in Client
      BY <1>1, Zenon DEF Client
    <3> HIDE DEF r
    <3>3. queue' \in Seq(Conn) /\ Len(queue') <= Backlog
      BY <1>1, <1>2, <1>5, <2>1, <2>2 DEF ipc_transaction
    <3> QED BY <1>1, <1>5, <3>1, <3>2, <3>3, ClientTyped DEF ipc_transaction
  <2>3. CASE ~Connects
    <3> DEFINE r == [client[c] EXCEPT !.result = "failed"]
    <3>1. client' = [client EXCEPT ![c] = r] /\ UNCHANGED queue
      BY <1>5, <2>3 DEF ipc_transaction
    <3>2. r \in Client
      BY <1>1, Zenon DEF Client
    <3> HIDE DEF r
    <3> QED BY <1>1, <1>5, <3>1, <3>2, ClientTyped DEF ipc_transaction
  <2> QED BY <2>2, <2>3
<1>6. CASE ipc_recv_timeout(c)
  <2> DEFINE r == Answered(client[c], "failed")
  <2>1. r \in Client
    BY <1>1, AnsweredData
  <2>2. client' = [client EXCEPT ![c] = r]
    BY <1>6 DEF ipc_recv_timeout
  <2> HIDE DEF r
  <2>3. queue' \in Seq(Conn) /\ Len(queue') = Len(queue)
    <3>1. queue' = [i \in 1..Len(queue) |-> Closed(queue[i], c)]
      BY <1>1, <1>6 DEF ipc_recv_timeout
    <3>2. \A i \in 1..Len(queue) : Closed(queue[i], c) \in Conn
      BY <1>1, ClosedData
    <3> QED BY <1>1, <3>1, <3>2
  <2>4. /\ server' \in Server /\ server'.pc = server.pc /\ server'.left = server.left
        /\ server'.conn = Closed(server.conn, c)
    <3>1. Closed(server.conn, c) \in Conn \union {NONE}
      BY <1>1, ClosedData, Zenon DEF Server, Closed
    <3> QED BY <1>1, <1>6, <3>1, Zenon DEF ipc_recv_timeout, Server
  <2>5. server.pc \in Busy => server'.conn \in Conn
    BY <1>1, <2>4, ClosedData
  <2> QED BY <1>1, <1>6, <2>1, <2>2, <2>3, <2>4, <2>5, ClientTyped DEF ipc_recv_timeout
<1> QED BY <1>3, <1>4, <1>5, <1>6

\* The channel keeps its type, whenever clients call and whatever fails: a key
\* only ever mixes random numbers that were drawn, and the listening socket
\* never holds more connections than its backlog.
THEOREM TypeCorrect == Spec => []TypeOK
<1>1. Init => TInv
  BY InitInv DEF IInv, PhaseInv, TInv, StageTypes
<1>2. TInv /\ [Next]_vars => TInv'
  <2> SUFFICES ASSUME TInv, [Next]_vars PROVE TInv'
    OBVIOUS
  <2>1. CASE UNCHANGED vars
    BY <2>1 DEF vars, TInv, Types, StageTypes
  <2>2. CASE Next
    BY <2>2, MainTypes, ServerTypes, MessageTypes, ClientTypes DEF Next
  <2> QED BY <2>1, <2>2
<1>3. TInv => TypeOK
  <2> SUFFICES ASSUME Types PROVE TypeOK
    BY DEF TInv
  <2>1. main.pc \in {"off", "challenge", "answer", "respond", "protect", "run"}
    BY DEF Types, Main
  <2>2. server.pc \in {"down", "idle", "work", "invalid", "error"}
    BY DEF Types, Server, Busy
  <2>3. \A t \in Threads : exchange[t].pc \in
          {"idle", "encrypt", "deliver", "ratchet", "store", "done"}
    BY DEF Types, Exchange
  <2>4. \A c \in Clients : client[c].waiting \in BOOLEAN
    BY Zenon DEF Types, Client
  <2> QED BY <2>1, <2>2, <2>3, <2>4 DEF Types, TypeOK, Lsm, Enclave
<1> QED BY <1>1, <1>2, <1>3, PTL DEF Spec
=============================================================================
