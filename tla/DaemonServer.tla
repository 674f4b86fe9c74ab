---------------------------- MODULE DaemonServer ----------------------------
(***************************************************************************)
(* The daemon's socket thread, which serves one connection at a time, the  *)
(* clients that connect to it, and the main thread that stops it.  A       *)
(* client sends one request on a connection and waits for the reply; it    *)
(* can time out, and it can die at any time, before it has sent anything   *)
(* too.  The accepted descriptor blocks, as accept does not pass on the    *)
(* flags of the listening socket.                                          *)
(***************************************************************************)
EXTENDS IdentifierCache, Sequences

CONSTANTS
  Clients,
  Backlog,      \* connections that the listening socket holds
  MaxRequests   \* bound on the requests

ASSUME ServerAssumption == Backlog \in Nat \ {0} /\ MaxRequests \in Nat

VARIABLES
  backlog,  \* connections that are not accepted yet
  thread,   \* the socket thread: where it is, its connection, and the
            \* identifier that cache_passthrough put into the request
  running,  \* running of socket.cpp
  main,     \* where the main thread is
  missed,   \* history: the signal came when the thread was about to enter accept
  made      \* how many requests have been made

server_vars == <<backlog, thread, running, main, missed, made>>
vars == <<cache_vars, server_vars>>

Request == [op : {"claim", "open"}, path : Paths] \union [op : {"other"}]

\* A connection: whether the request has been written, and whether the client
\* still has its end open.
Connection == [client : Clients, request : Request, sent : BOOLEAN, open : BOOLEAN]

Idle(pc) == [pc |-> pc, conn |-> NONE, id |-> NONE]

Init ==
  /\ CacheInit
  /\ backlog = <<>>
  /\ thread = Idle("loop")
  /\ running = TRUE
  /\ main = "serving"
  /\ missed = FALSE
  /\ made = 0

-----------------------------------------------------------------------------
(* Clients.                                                                *)

Mine(conn, c) == conn # NONE /\ conn.client = c /\ conn.open

\* The connections after F is applied to the one that c has open.
OnMine(c, F(_)) ==
  /\ backlog' = [i \in DOMAIN backlog |-> IF Mine(backlog[i], c) THEN F(backlog[i])
                                                                 ELSE backlog[i]]
  /\ thread' = [thread EXCEPT !.conn = IF Mine(@, c) THEN F(@) ELSE @]

Connected(c) == Mine(thread.conn, c) \/ \E i \in DOMAIN backlog : Mine(backlog[i], c)

\* Mutant of init_socket: a connection is queued when the backlog is full.
init_socket_unbounded(c, r) ==
  /\ ~Connected(c) /\ made < MaxRequests
  /\ main # "closed"
  /\ backlog' = Append(backlog, [client |-> c, request |-> r, sent |-> FALSE, open |-> TRUE])
  /\ made' = made + 1
  /\ UNCHANGED <<cache_vars, thread, running, main, missed>>

\* connect() does not block, and fails when the backlog is full.
init_socket(c, r) ==
  /\ ~Connected(c) /\ made < MaxRequests
  /\ main # "closed" /\ Len(backlog) < Backlog
  /\ backlog' = Append(backlog, [client |-> c, request |-> r, sent |-> FALSE, open |-> TRUE])
  /\ made' = made + 1
  /\ UNCHANGED <<cache_vars, thread, running, main, missed>>

Unsent(c) ==
  \/ Mine(thread.conn, c) /\ ~thread.conn.sent
  \/ \E i \in DOMAIN backlog : Mine(backlog[i], c) /\ ~backlog[i].sent

\* A request fits into the buffer of the connection and is written at once.
ipc_send(c) ==
  /\ Unsent(c)
  /\ LET Send(conn) == [conn EXCEPT !.sent = TRUE] IN OnMine(c, Send)
  /\ UNCHANGED <<cache_vars, running, main, missed, made>>

\* The client gives up waiting, or dies.
client_close(c) ==
  /\ Connected(c)
  /\ LET Close(conn) == [conn EXCEPT !.open = FALSE] IN OnMine(c, Close)
  /\ UNCHANGED <<cache_vars, running, main, missed, made>>

-----------------------------------------------------------------------------
(* The socket thread.                                                      *)

Moves(from, t) ==
  /\ thread.pc = from
  /\ thread' = t
  /\ UNCHANGED <<running, main, missed, made>>

\* while (running)
run_server ==
  /\ Moves("loop", Idle(IF running THEN "enter" ELSE "done"))
  /\ UNCHANGED <<cache_vars, backlog>>

enter_accept == Moves("enter", Idle("accept")) /\ UNCHANGED <<cache_vars, backlog>>

accept ==
  /\ backlog # <<>>
  /\ Moves("accept", [pc |-> "read", conn |-> Head(backlog), id |-> NONE])
  /\ backlog' = Tail(backlog)
  /\ UNCHANGED cache_vars

\* read() returns the request.  While there is none it blocks if the client has
\* its end open; if not it returns 0, which the loop neither counts nor ends at.
handle_client_socket ==
  /\ thread.pc = "read" /\ thread.conn.sent
  /\ Moves("read", [thread EXCEPT !.pc = "pass"])
  /\ UNCHANGED <<cache_vars, backlog>>

\* send_response up to the enclave: the cache.
send_response ==
  /\ thread.pc = "pass"
  /\ \E r \in cache_passthrough(thread.conn.request) :
       /\ Moves("pass", [thread EXCEPT !.pc = "enclave", !.id = r.id])
       /\ cache' = r.cache
  /\ UNCHANGED <<now, names, label, had, backlog>>

\* The request needs a new identifier for the file at its path.
Labels ==
  /\ thread.conn.request.op \in {"claim", "open"}
  /\ thread.id = NONE

\* The enclave gives the file at the path an identifier, which it draws at
\* random: one that is new to everything.
handle_request_label ==
  /\ thread.pc = "enclave"
  /\ Labels
  /\ LET r == thread.conn.request
     IN  /\ names[r.path] # NONE
         /\ Unused # {}
         /\ FilesBecome(names, [label EXCEPT ![names[r.path]] = CHOOSE i \in Unused : TRUE],
                        IF r.op = "claim" THEN r.path ELSE NONE)
  /\ Moves("enclave", [thread EXCEPT !.pc = "reply"])
  /\ UNCHANGED <<now, cache, backlog>>

\* The enclave refuses, or has nothing to change but tickets.
handle_request ==
  /\ Moves("enclave", [thread EXCEPT !.pc = "reply"])
  /\ UNCHANGED <<cache_vars, backlog>>

\* Mutant of write_reply: attempts to write are not counted.
write_reply_retry ==
  /\ thread.pc = "reply" /\ thread.conn.open
  /\ Moves("reply", Idle("loop"))
  /\ UNCHANGED <<cache_vars, backlog>>

\* The reply is written, or the attempts to write it run out; close().
write_reply ==
  /\ Moves("reply", Idle("loop"))
  /\ UNCHANGED <<cache_vars, backlog>>

socket_thread ==
  \/ run_server \/ enter_accept \/ accept \/ handle_client_socket \/ send_response
  \/ handle_request_label \/ handle_request \/ write_reply

-----------------------------------------------------------------------------
(* The main thread.                                                        *)

\* running = false
close_socket ==
  /\ main = "serving"
  /\ main' = "stopping"
  /\ running' = FALSE
  /\ UNCHANGED <<cache_vars, backlog, thread, missed, made>>

\* The thread sleeps in accept or in read.
Blocked ==
  \/ thread.pc = "accept" /\ backlog = <<>>
  \/ thread.pc = "read" /\ ~thread.conn.sent /\ thread.conn.open

\* Mutant of interrupt: no signal is sent.
interrupt_none ==
  /\ main = "stopping"
  /\ main' = "joining"
  /\ UNCHANGED <<cache_vars, backlog, thread, running, missed, made>>

\* pthread_kill.  It ends a call the thread sleeps in, and nothing else: accept
\* returns to the loop, and after a failed read the attempts to answer fail too.
interrupt ==
  /\ main = "stopping"
  /\ main' = "joining"
  /\ thread' = IF Blocked THEN Idle("loop") ELSE thread
  /\ missed' = (thread.pc = "enter")
  /\ UNCHANGED <<cache_vars, backlog, running, made>>

\* pthread_join returns; closing the socket ends the connections it still holds.
join ==
  /\ main = "joining" /\ thread.pc = "done"
  /\ main' = "closed"
  /\ backlog' = <<>>
  /\ UNCHANGED <<cache_vars, thread, running, missed, made>>

-----------------------------------------------------------------------------
Next ==
  \/ socket_thread
  \/ \E c \in Clients : ipc_send(c) \/ client_close(c) \/ \E r \in Request : init_socket(c, r)
  \/ close_socket \/ interrupt \/ join
  \/ UNCHANGED server_vars /\ (Tick \/ \E p \in Paths, i \in Inodes \union {NONE} : rebind(p, i))

\* The threads of the daemon run, and a client that has connected writes its
\* request unless it dies.
Fairness ==
  /\ WF_vars(socket_thread)
  /\ WF_vars(interrupt) /\ WF_vars(join)
  /\ \A c \in Clients : WF_vars(ipc_send(c))

Spec == Init /\ [][Next]_vars /\ Fairness

-----------------------------------------------------------------------------
(* Properties.                                                             *)

\* The state has its type; no more connections wait than the backlog holds.
TypeOK ==
  /\ CacheTypeOK
  /\ backlog \in Seq(Connection) /\ Len(backlog) <= Backlog
  /\ thread \in [pc : {"loop", "enter", "accept", "read", "pass", "enclave", "reply", "done"},
                 conn : Connection \union {NONE}, id : Ids \union {NONE}]
  /\ running \in BOOLEAN /\ missed \in BOOLEAN
  /\ main \in {"serving", "stopping", "joining", "closed"}
  /\ made \in 0..MaxRequests

\* A claim is seen by every later request: the identifier that is cached for a
\* path, or has been put into a request, is one that the file at the path has
\* had since the path was last claimed ("clear entry on claim",
\* cache_passthrough), whatever the path names meanwhile and however long the
\* entry lasts.
TranslatedSinceClaim ==
  /\ \A p \in Paths : cache[p] # NoEntry => cache[p].id \in had[p]
  /\ thread.id # NONE => thread.id \in had[thread.conn.request.path]

\* A request that its client still waits for.
Waits(c) == \E i \in DOMAIN backlog : Mine(backlog[i], c) /\ backlog[i].sent

\* The thread reads from a client that went away before it sent a request.
Stuck == thread.pc = "read" /\ ~thread.conn.sent /\ ~thread.conn.open

\* A request is accepted in the end, unless its client gives up or the daemon
\* is stopped.  The one thing that can keep the thread from it is a client that
\* went away before it wrote (read returns 0, handle_client_socket).
RequestsAccepted ==
  \A c \in Clients : Waits(c) ~> (~Waits(c) \/ Stuck \/ main # "serving")

\* The daemon stops: close_socket returns, unless the signal came at the moment
\* between the test of running and the call of accept, or a client keeps the
\* thread in the loop that reads.
Stops == main = "joining" ~> (main = "closed" \/ missed \/ Stuck)
=============================================================================
