----------------------------- MODULE KeyChannel -----------------------------
(***************************************************************************)
(* The channel between the enclave and the kernel module, from the start   *)
(* of the daemon: registration by challenge and response, the AES key both *)
(* sides change with every message, the two threads of the daemon that use *)
(* it, process tokens, and the answers that client processes get.          *)
(*                                                                         *)
(* A key is the set of random numbers that were XORed into it: {} is the   *)
(* zeroed key, and a message is decrypted only with the key it was         *)
(* encrypted with.                                                         *)
(***************************************************************************)
EXTENDS Naturals, Sequences

CONSTANTS
  Clients,      \* processes that use libcitadel
  Requests,     \* the exchanges that operations need: see core_handle_request
  Early,        \* whether clients send requests before the daemon's main loop
  Faults,       \* "memory": the kernel can run out of it on a write to update;
                \* "challenge": other processes read the challenge file
  Backlog,      \* connections the listening socket holds
  MaxRandom,    \* bound on the random numbers drawn
  MaxStarts,    \* bound on the starts of the daemon
  NONE

ASSUME ChannelAssumption ==
  /\ Requests \subseteq Seq({"ticket", "xattr"})
  /\ Early \in BOOLEAN /\ Faults \subseteq {"memory", "challenge"}
  /\ Backlog \in Nat /\ MaxRandom \in Nat /\ MaxStarts \in Nat

ASSUME NoResultAssumption == NONE # "approved"

VARIABLES
  rand,         \* how many random numbers have been drawn
  lsm,          \* static variables of payload_io.c
  enclave,      \* static variables of the enclave
  starts,       \* how often the daemon was started; its PID
  main,         \* the daemon's main thread
  server,       \* the daemon's socket thread
  exchange,     \* the message each of the two threads is sending
  queue,        \* connections waiting at the socket
  client        \* the state of libcitadel in each client

vars == <<rand, lsm, enclave, starts, main, server, exchange, queue, client>>

Key == SUBSET (1..MaxRandom)
Threads == {"main", "server"}
Xor(a, b) == (a \ b) \union (b \ a)

NoExchange == [pc |-> "idle", kind |-> NONE, key |-> {}, nonce |-> 0,
               accepted |-> FALSE, copy |-> {}]
NoServer == [pc |-> "down", conn |-> NONE, left |-> <<>>, missing |-> {}]
NoMain == [pc |-> "off", challenge |-> 0]
BlankEnclave == [key |-> {}, ptoken_key |-> {}]

Init ==
  /\ rand = 0
  /\ lsm = [registered |-> FALSE, challenge |-> 0, key |-> {},
            ptoken_key |-> {}, pid |-> 0]
  /\ enclave = BlankEnclave
  /\ starts = 0
  /\ main = NoMain
  /\ server = NoServer
  /\ exchange = [t \in Threads |-> NoExchange]
  /\ queue = <<>>
  /\ client = [c \in Clients |-> [own_pid |-> FALSE, ptoken |-> NONE, init |-> NONE,
                                  waiting |-> FALSE, declaring |-> FALSE,
                                  result |-> NONE, missing |-> {}]]

\* get_random_bytes and sgx_read_rand.
Draw == rand < MaxRandom /\ rand' = rand + 1

-----------------------------------------------------------------------------
(* One message to the kernel module, by thread t.                          *)

begin_exchange(t, kind) ==
  exchange' = [exchange EXCEPT ![t] = [NoExchange EXCEPT !.pc = "encrypt", !.kind = kind]]

\* generate_ticket and _generate_xattr_ticket up to the OCALL.
encrypt(t) ==
  /\ exchange[t].pc = "encrypt"
  /\ Draw
  /\ exchange' = [exchange EXCEPT ![t].pc = "deliver", ![t].key = enclave.key,
                                  ![t].nonce = rand']
  /\ UNCHANGED <<lsm, enclave, starts, main, server, queue, client>>

\* The kernel module can decrypt the message of thread t.
Readable(t) == lsm.registered /\ exchange[t].key = lsm.key

\* update_aes_key in the kernel module.
update_lsm_key(t) == lsm' = [lsm EXCEPT !.key = Xor(@, {exchange[t].nonce})]

\* process_received_update.  A message that is not readable decrypts to
\* zeroes: no record and no change of the key.  ok is FALSE when update_receive
\* has no memory for the message, and stored is FALSE when insert_ticket has
\* none for the ticket.
process_received_update(t, ok, stored) ==
  /\ exchange[t].pc = "deliver" /\ exchange[t].kind = "ticket"
  /\ (ok /\ stored) \/ "memory" \in Faults
  /\ LET read == ok /\ Readable(t)
     IN /\ IF read THEN update_lsm_key(t) ELSE UNCHANGED lsm
        /\ exchange' = [exchange EXCEPT ![t].pc = "ratchet",
                                        ![t].accepted = read /\ stored]
  /\ UNCHANGED <<rand, enclave, starts, main, server, queue, client>>

\* Mutant: the key is not changed for a message that sets an attribute.
xattr_installation_same_key(t, done) ==
  /\ exchange[t].pc = "deliver" /\ exchange[t].kind = "xattr"
  /\ exchange' = [exchange EXCEPT ![t].pc = "ratchet", ![t].accepted = Readable(t) /\ done]
  /\ UNCHANGED <<rand, lsm, enclave, starts, main, server, queue, client>>

\* xattr_enclave_installation.  done is FALSE when the file is missing or an
\* attribute could not be written or removed.
xattr_enclave_installation(t, done) ==
  /\ exchange[t].pc = "deliver" /\ exchange[t].kind = "xattr"
  /\ LET accepted == Readable(t) /\ done
     IN /\ IF accepted THEN update_lsm_key(t) ELSE UNCHANGED lsm
        /\ exchange' = [exchange EXCEPT ![t].pc = "ratchet", ![t].accepted = accepted]
  /\ UNCHANGED <<rand, enclave, starts, main, server, queue, client>>

\* Mutant: install_xattr does not return what the kernel module did.
InstalledUnchecked(t) == exchange[t].pc # "idle"

\* What install_ticket and install_xattr return to the enclave: fwrite to a
\* buffered stream succeeds whatever the kernel module does with the message.
Installed(t) == exchange[t].kind = "ticket" \/ exchange[t].accepted

\* update_aes_key in the enclave loads the key, which two threads can do at
\* the same time ...
load_key(t) ==
  /\ exchange[t].pc = "ratchet" /\ Installed(t)
  /\ exchange' = [exchange EXCEPT ![t].pc = "store", ![t].copy = enclave.key]
  /\ UNCHANGED <<rand, lsm, enclave, starts, main, server, queue, client>>

\* ... and stores it.
store_key(t) ==
  /\ exchange[t].pc = "store"
  /\ enclave' = [enclave EXCEPT !.key = Xor(exchange[t].copy, {exchange[t].nonce})]
  /\ exchange' = [exchange EXCEPT ![t].pc = "done"]
  /\ UNCHANGED <<rand, lsm, starts, main, server, queue, client>>

\* A message that was not installed leaves the enclave's key alone.
keep_key(t) ==
  /\ exchange[t].pc = "ratchet" /\ ~Installed(t)
  /\ exchange' = [exchange EXCEPT ![t].pc = "done"]
  /\ UNCHANGED <<rand, lsm, enclave, starts, main, server, queue, client>>

-----------------------------------------------------------------------------
(* ipc_transaction in a client, and the end of citadel_init if the          *)
(* transaction was its registration.                                       *)

\* The transaction of client record r ends.
Answered(r, result) ==
  [r EXCEPT !.waiting = FALSE, !.result = result, !.declaring = FALSE,
            !.init = IF r.declaring THEN result = "approved" ELSE @]

\* Mutant: the backlog is not bounded.
ConnectsAlways == server.pc # "down"

\* The socket has room, so that connect succeeds.
Connects == server.pc # "down" /\ Len(queue) < Backlog

Connection(c, request, ptoken) ==
  [client |-> c, request |-> request, ptoken |-> ptoken, open |-> TRUE]

\* Clients that start with the daemon, or wait for its main loop.
MayCall == Early \/ main.pc \in {"off", "run"}

-----------------------------------------------------------------------------
(* The daemon's main thread.                                               *)

\* main up to fetch_sealed_keys: a new enclave, and the socket thread runs.
start ==
  /\ main.pc = "off" /\ starts < MaxStarts
  /\ starts' = starts + 1
  /\ enclave' = BlankEnclave
  /\ main' = [main EXCEPT !.pc = "challenge"]
  /\ server' = [NoServer EXCEPT !.pc = "idle"]
  /\ UNCHANGED <<rand, lsm, exchange, queue, client>>

\* perform_registration reads the challenge file: generate_challenge.
read_challenge ==
  /\ main.pc = "challenge"
  /\ Draw
  /\ lsm' = [lsm EXCEPT !.challenge = rand']
  /\ main' = [pc |-> "answer", challenge |-> rand']
  /\ UNCHANGED <<enclave, starts, server, exchange, queue, client>>

\* Reading the challenge file replaces the challenge, whoever reads it.
other_challenge_read ==
  /\ "challenge" \in Faults
  /\ Draw
  /\ lsm' = [lsm EXCEPT !.challenge = rand']
  /\ UNCHANGED <<enclave, starts, main, server, exchange, queue, client>>

handle_kernel_challenge ==
  /\ main.pc = "answer"
  /\ Draw
  /\ enclave' = [key |-> {rand'}, ptoken_key |-> {rand'}]
  /\ main' = [main EXCEPT !.pc = "respond"]
  /\ UNCHANGED <<lsm, starts, server, exchange, queue, client>>

\* send_registration: process_challenge_response.  perform_registration
\* succeeds whether the kernel module takes the response or not.  The response
\* was encrypted with the key that nothing has changed since.
process_challenge_response ==
  /\ main.pc = "respond"
  /\ lsm' = IF main.challenge = lsm.challenge
              THEN [lsm EXCEPT !.registered = TRUE, !.key = enclave.ptoken_key,
                               !.ptoken_key = enclave.ptoken_key, !.pid = starts]
              ELSE lsm
  /\ main' = [main EXCEPT !.pc = "protect"]
  /\ begin_exchange("main", "xattr")
  /\ UNCHANGED <<rand, enclave, starts, server, queue, client>>

\* protect_socket returns, and the main loop starts.
protect_socket ==
  /\ main.pc = "protect" /\ exchange["main"].pc = "done"
  /\ main' = [main EXCEPT !.pc = "run"]
  /\ exchange' = [exchange EXCEPT !["main"] = NoExchange]
  /\ UNCHANGED <<rand, lsm, enclave, starts, server, queue, client>>

\* The daemon ends, or dies, at any point; connections are closed and the
\* kernel module keeps its state.
stop ==
  /\ main.pc # "off"
  /\ main' = NoMain
  /\ server' = NoServer
  /\ exchange' = [t \in Threads |-> NoExchange]
  /\ enclave' = BlankEnclave
  /\ queue' = <<>>
  /\ client' = [c \in Clients |->
       IF client[c].waiting THEN Answered(client[c], "failed") ELSE client[c]]
  /\ UNCHANGED <<rand, lsm, starts>>

-----------------------------------------------------------------------------
(* The daemon's socket thread.                                             *)

\* run_server accepts the oldest connection and handle_client_socket reads its
\* request.
Accepted == Head(queue)

\* send_response up to handle_request, which checks the token.
handle_request ==
  /\ server.pc = "idle" /\ queue # <<>>
  /\ LET conn == Accepted
         valid == conn.ptoken.key = enclave.ptoken_key
     IN server' = [pc |-> IF valid THEN "work" ELSE "invalid", conn |-> conn,
                   left |-> IF valid THEN conn.request ELSE <<>>, missing |-> {}]
  /\ queue' = Tail(queue)
  /\ UNCHANGED <<rand, lsm, enclave, starts, main, exchange, client>>

\* core_handle_request sends the next message of the request.
core_handle_request ==
  /\ server.pc = "work" /\ server.left # <<>> /\ exchange["server"].pc = "idle"
  /\ begin_exchange("server", Head(server.left))
  /\ UNCHANGED <<rand, lsm, enclave, starts, main, server, queue, client>>

\* A message that was not installed ends the request with CITADEL_OP_ERROR.
finish_exchange ==
  /\ exchange["server"].pc = "done"
  /\ LET x == exchange["server"]
     IN server' = IF Installed("server")
                    THEN [server EXCEPT !.left = Tail(@),
                            !.missing = @ \union (IF x.accepted THEN {} ELSE {x.kind})]
                    ELSE [server EXCEPT !.left = <<>>, !.pc = "error"]
  /\ exchange' = [exchange EXCEPT !["server"] = NoExchange]
  /\ UNCHANGED <<rand, lsm, enclave, starts, main, queue, client>>

\* The rest of send_response; the client may have given up, and it takes the
\* answer only from the daemon that its token names.
send_response ==
  /\ server.pc \in {"work", "invalid", "error"} /\ server.left = <<>>
  /\ exchange["server"].pc = "idle"
  /\ LET conn == server.conn
         done == IF server.pc = "work" THEN "approved" ELSE server.pc
         status == IF conn.ptoken.pid = starts THEN done ELSE "failed"
     IN client' = IF conn.open
                    THEN [client EXCEPT ![conn.client] =
                            [Answered(@, status) EXCEPT !.missing = server.missing]]
                    ELSE client
  /\ server' = [NoServer EXCEPT !.pc = "idle"]
  /\ UNCHANGED <<rand, lsm, enclave, starts, main, exchange, queue>>

-----------------------------------------------------------------------------
(* libcitadel in client c.                                                 *)

\* citadel_init in a process that has called it before.
citadel_init_again(c) ==
  /\ client[c].own_pid /\ ~client[c].waiting
  /\ client' = [client EXCEPT ![c].init = TRUE]
  /\ UNCHANGED <<rand, lsm, enclave, starts, main, server, exchange, queue>>

\* What a read of the ptoken file returns: generate_ptoken.
generate_ptoken == IF lsm.registered THEN [key |-> lsm.ptoken_key, pid |-> lsm.pid]
                                     ELSE NONE

\* citadel_init up to the answer: fetch_kernel_ptoken and ipc_declare_self.
citadel_init(c) ==
  /\ ~client[c].own_pid /\ MayCall
  /\ LET token == generate_ptoken
         sent == token # NONE /\ Connects
     IN /\ client' = [client EXCEPT ![c].own_pid = TRUE, ![c].ptoken = token,
             ![c].waiting = sent, ![c].declaring = sent,
             ![c].init = IF sent THEN @ ELSE FALSE]
        /\ queue' = IF sent THEN Append(queue, Connection(c, <<>>, token)) ELSE queue
  /\ UNCHANGED <<rand, lsm, enclave, starts, main, server, exchange>>

\* ipc_transaction up to the answer.
ipc_transaction(c, request) ==
  /\ client[c].ptoken # NONE /\ ~client[c].waiting /\ MayCall
  /\ IF Connects
       THEN /\ queue' = Append(queue, Connection(c, request, client[c].ptoken))
            /\ client' = [client EXCEPT ![c].waiting = TRUE, ![c].result = NONE]
       ELSE /\ client' = [client EXCEPT ![c].result = "failed"]
            /\ UNCHANGED queue
  /\ UNCHANGED <<rand, lsm, enclave, starts, main, server, exchange>>

\* ipc_recv times out and the client closes its connection.
Closed(conn, c) == IF conn # NONE /\ conn.client = c THEN [conn EXCEPT !.open = FALSE]
                                                     ELSE conn

ipc_recv_timeout(c) ==
  /\ client[c].waiting
  /\ client' = [client EXCEPT ![c] = Answered(@, "failed")]
  /\ queue' = [i \in DOMAIN queue |-> Closed(queue[i], c)]
  /\ server' = [server EXCEPT !.conn = Closed(@, c)]
  /\ UNCHANGED <<rand, lsm, enclave, starts, main, exchange>>

-----------------------------------------------------------------------------
Next ==
  \/ start \/ read_challenge \/ handle_kernel_challenge
  \/ other_challenge_read \/ process_challenge_response \/ protect_socket \/ stop
  \/ handle_request \/ core_handle_request \/ finish_exchange \/ send_response
  \/ \E t \in Threads :
       \/ encrypt(t) \/ load_key(t) \/ store_key(t) \/ keep_key(t)
       \/ \E ok, stored \in BOOLEAN : process_received_update(t, ok, stored)
       \/ \E done \in BOOLEAN : xattr_enclave_installation(t, done)
  \/ \E c \in Clients : 
       citadel_init(c) \/ citadel_init_again(c) \/ ipc_recv_timeout(c)
  \/ \E c \in Clients, r \in Requests : ipc_transaction(c, r)

Spec == Init /\ [][Next]_vars

-----------------------------------------------------------------------------
(* Properties.                                                             *)

TypeOK ==
  /\ rand \in 0..MaxRandom
  /\ lsm \in [registered : BOOLEAN, challenge : 0..MaxRandom, key : Key,
              ptoken_key : Key, pid : 0..MaxStarts]
  /\ enclave \in [key : Key, ptoken_key : Key]
  /\ starts \in 0..MaxStarts
  /\ main.pc \in {"off", "challenge", "answer", "respond", "protect", "run"}
  /\ server.pc \in {"down", "idle", "work", "invalid", "error"}
  /\ \A t \in Threads : exchange[t].pc \in
       {"idle", "encrypt", "deliver", "ratchet", "store", "done"}
  /\ Len(queue) <= Backlog
  /\ \A c \in Clients : client[c].waiting \in BOOLEAN

\* Once the main loop runs, if the kernel module has taken this daemon's
\* response (process_challenge_response), tokens it issues are valid, and between
\* two messages both sides have the same key (the two update_aes_key): through
\* restarts, rejected installations and requests whose client has given up.
KeysAgree ==
  main.pc = "run" /\ lsm.pid = starts =>
    /\ lsm.registered
    /\ lsm.ptoken_key = enclave.ptoken_key
    /\ exchange["server"].pc = "idle" => lsm.key = enclave.key

\* A client that is told its request is approved has all the tickets that the
\* request needs in the kernel module ("a userspace promise-of-access model
\* with asynchronous fulfillment", README).
PromiseKept ==
  \A c \in Clients : client[c].result = "approved" => "ticket" \notin client[c].missing

\* A client that is told a claim or a declassification is approved has had the
\* label of its file changed by the kernel module: install_xattr returns what
\* xattr_enclave_installation did.
LabelKept ==
  \A c \in Clients : client[c].result = "approved" => "xattr" \notin client[c].missing
=============================================================================
