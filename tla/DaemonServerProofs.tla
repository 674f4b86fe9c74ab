------------------------- MODULE DaemonServerProofs -------------------------
(***************************************************************************)
(* Proofs about DaemonServer, for every set of clients, paths, files and   *)
(* identifiers, every expiry time and every backlog.                       *)
(*                                                                         *)
(* That a claim is seen by later requests rests on two facts besides the   *)
(* property itself: while the enclave handles a claim the cache has no     *)
(* entry for its path, and the history of a path has the identifier of the *)
(* file that it names now, which is what a lookup inserts.                 *)
(***************************************************************************)
EXTENDS DaemonServer, SequenceTheorems, TLAPS

USE CacheAssumption, ServerAssumption

Busy == {"read", "pass", "enclave", "reply"}

\* The thread has a connection while it serves one.
HasConnection == thread.pc \in Busy => thread.conn \in Connection

\* Only an open that is being served has an identifier.
IdentifierOfOpen ==
  thread.id # NONE => thread.pc \in Busy /\ thread.conn.request.op = "open"

\* The path of a claim has no entry while the enclave handles the claim.
ClaimCleared ==
  thread.pc = "enclave" /\ thread.conn.request.op = "claim"
    => cache[thread.conn.request.path] = NoEntry

\* The history of a path has the identifier of the file that it names.
HistoryCurrent ==
  \A p \in Paths : get_identifier_for_path(p) # NONE => get_identifier_for_path(p) \in had[p]

IInv ==
  /\ TypeOK
  /\ HasConnection /\ IdentifierOfOpen /\ ClaimCleared
  /\ HistoryCurrent
  /\ TranslatedSinceClaim

-----------------------------------------------------------------------------
(* Data.                                                                   *)

LEMMA RequestPath ==
  ASSUME NEW conn \in Connection, conn.request.op \in {"claim", "open"}
  PROVE  conn.request.path \in Paths
BY DEF Connection, Request

LEMMA EntryId ==
  ASSUME NEW e \in Entry
  PROVE  e.id \in Ids /\ e # NoEntry
BY DEF Entry, NoEntry

LEMMA IdleData ==
  ASSUME NEW pc
  PROVE  Idle(pc).pc = pc /\ Idle(pc).conn = NONE /\ Idle(pc).id = NONE
BY DEF Idle

\* The files change: the history follows.
LEMMA FilesKeep ==
  ASSUME CacheTypeOK, HistoryCurrent,
         NEW n \in [Paths -> Inodes \union {NONE}],
         NEW l \in [Inodes -> Ids \union {NONE}],
         NEW claimed,
         FilesBecome(n, l, claimed)
  PROVE  /\ names' \in [Paths -> Inodes \union {NONE}]
         /\ label' \in [Inodes -> Ids \union {NONE}]
         /\ had' \in [Paths -> SUBSET Ids]
         /\ HistoryCurrent'
         /\ \A p \in Paths : p # claimed => had[p] \subseteq had'[p]
<1>1. \A p \in Paths : IdAt(n, l, p) \in Ids \union {NONE}
  BY DEF IdAt
<1>2. names' = n /\ label' = l
  BY DEF FilesBecome
<1>3. \A p \in Paths : had'[p] = (IF p = claimed THEN {} ELSE had[p])
                                   \union ({IdAt(n, l, p)} \ {NONE})
  BY DEF FilesBecome
<1>4. had' \in [Paths -> SUBSET Ids]
  BY <1>1 DEF FilesBecome, CacheTypeOK
<1>5. HistoryCurrent'
  BY <1>2, <1>3 DEF HistoryCurrent, get_identifier_for_path
<1> QED BY <1>2, <1>3, <1>4, <1>5

-----------------------------------------------------------------------------
(* The cache.                                                              *)

\* What a lookup leaves in the cache, and what it finds, are in the history.
LEMMA LookupKeeps ==
  ASSUME CacheTypeOK, HistoryCurrent, NEW p \in Paths,
         \A q \in Paths : cache[q] # NoEntry => cache[q].id \in had[q],
         NEW r \in metadata_path_to_identifier(p)
  PROVE  /\ r.cache \in [Paths -> Entry \union {NoEntry}]
         /\ \A q \in Paths : r.cache[q] # NoEntry => r.cache[q].id \in had[q]
         /\ r.id \in Ids \union {NONE}
         /\ r.id # NONE => r.id \in had[p]
<1> DEFINE id == get_identifier_for_path(p)
           erased == [cache EXCEPT ![p] = NoEntry]
<1>1. id \in Ids \union {NONE} /\ (id # NONE => id \in had[p])
  BY DEF CacheTypeOK, HistoryCurrent, get_identifier_for_path, IdAt
<1>2. /\ erased \in [Paths -> Entry \union {NoEntry}]
      /\ \A q \in Paths : erased[q] # NoEntry => erased[q].id \in had[q]
  BY DEF CacheTypeOK
<1>3. CASE cache[p] # NoEntry /\ ~expired(cache[p])
  <2>1. r = [cache |-> cache, id |-> cache[p].id]
    BY <1>3 DEF metadata_path_to_identifier
  <2>2. cache[p] \in Entry /\ cache \in [Paths -> Entry \union {NoEntry}]
    BY <1>3 DEF CacheTypeOK
  <2> QED BY <1>3, <2>1, <2>2, EntryId
<1>4. CASE ~(cache[p] # NoEntry /\ ~expired(cache[p])) /\ id = NONE
  <2>1. r = [cache |-> erased, id |-> NONE]
    BY <1>4 DEF metadata_path_to_identifier
  <2> HIDE DEF erased
  <2> QED BY <2>1, <1>2
<1>5. CASE ~(cache[p] # NoEntry /\ ~expired(cache[p])) /\ id # NONE
  <2>1. PICK c \in Inserted(erased, p, id) : r = [cache |-> c, id |-> id]
    BY <1>5 DEF metadata_path_to_identifier
  <2> HIDE DEF erased, id
  <2>2. PICK copied \in SUBSET Paths :
          c = [q \in Paths |-> IF q = p THEN [id |-> id, time |-> now]
                ELSE IF q \in copied /\ erased[q] # NoEntry THEN [erased[q] EXCEPT !.time = now]
                ELSE erased[q]]
    BY DEF Inserted
  <2>3. now \in 0..MaxClock
    BY DEF CacheTypeOK
  <2>4. ASSUME NEW q \in Paths
        PROVE  c[q] \in Entry \union {NoEntry} /\ (c[q] # NoEntry => c[q].id \in had[q])
    <3>1. CASE q = p
      BY <3>1, <2>2, <2>3, <1>1, <1>5 DEF Entry
    <3>2. CASE q # p /\ q \in copied /\ erased[q] # NoEntry
      <4>1. c[q] = [erased[q] EXCEPT !.time = now] /\ erased[q] \in Entry
        BY <3>2, <2>2, <1>2
      <4>2. c[q] \in Entry /\ c[q].id = erased[q].id
        BY <4>1, <2>3 DEF Entry
      <4> QED BY <4>2, <3>2, <1>2
    <3>3. CASE q # p /\ ~(q \in copied /\ erased[q] # NoEntry)
      BY <3>3, <2>2, <1>2
    <3> QED BY <3>1, <3>2, <3>3
  <2>5. c \in [Paths -> Entry \union {NoEntry}]
    BY <2>2, <2>4
  <2> QED BY <2>1, <2>4, <2>5, <1>1
<1> QED BY <1>3, <1>4, <1>5

-----------------------------------------------------------------------------
(* Clients.                                                                *)

ThreadType ==
  [pc : {"loop", "enter", "accept", "read", "pass", "enclave", "reply", "done"},
   conn : Connection \union {NONE}, id : Ids \union {NONE}]

\* A change of connections that leaves the request being served alone.
LEMMA ConnectionsKeep ==
  ASSUME IInv, UNCHANGED <<cache_vars, running, main, missed>>,
         backlog' \in Seq(Connection), Len(backlog') <= Backlog,
         thread' \in ThreadType, thread'.pc = thread.pc, thread'.id = thread.id,
         thread.pc \in Busy => /\ thread'.conn \in Connection
                               /\ thread'.conn.request = thread.conn.request,
         made' \in 0..MaxRequests
  PROVE  IInv'
<1>1. TypeOK'
  BY DEF IInv, TypeOK, CacheTypeOK, cache_vars, ThreadType
<1>2. HasConnection' /\ IdentifierOfOpen'
  BY DEF IInv, HasConnection, IdentifierOfOpen
<1>3. ClaimCleared' /\ HistoryCurrent'
  BY DEF IInv, ClaimCleared, HistoryCurrent, get_identifier_for_path, cache_vars, Busy
<1>4. TranslatedSinceClaim'
  BY DEF IInv, TranslatedSinceClaim, IdentifierOfOpen, cache_vars
<1> QED BY <1>1, <1>2, <1>3, <1>4 DEF IInv

\* The connection of c gets another value of sent, or of open.
LEMMA OnMineKeeps ==
  ASSUME IInv, NEW c \in Clients, UNCHANGED <<cache_vars, running, main, missed, made>>,
         \/ backlog' = [i \in DOMAIN backlog |-> IF Mine(backlog[i], c)
                                                 THEN [backlog[i] EXCEPT !.sent = TRUE]
                                                 ELSE backlog[i]]
         \/ backlog' = [i \in DOMAIN backlog |-> IF Mine(backlog[i], c)
                                                 THEN [backlog[i] EXCEPT !.open = FALSE]
                                                 ELSE backlog[i]],
         \/ thread' = [thread EXCEPT !.conn = IF Mine(@, c) THEN [@ EXCEPT !.sent = TRUE] ELSE @]
         \/ thread' = [thread EXCEPT !.conn = IF Mine(@, c) THEN [@ EXCEPT !.open = FALSE] ELSE @]
  PROVE  IInv'
<1>1. backlog \in Seq(Connection) /\ Len(backlog) <= Backlog /\ thread \in ThreadType
  BY DEF IInv, TypeOK, ThreadType
<1> DEFINE S(x) == IF Mine(x, c) THEN [x EXCEPT !.sent = TRUE] ELSE x
           O(x) == IF Mine(x, c) THEN [x EXCEPT !.open = FALSE] ELSE x
<1>2. \A x \in Connection : /\ S(x) \in Connection /\ S(x).request = x.request
                            /\ O(x) \in Connection /\ O(x).request = x.request
  BY DEF Connection
<1>3. S(NONE) = NONE /\ O(NONE) = NONE
  BY DEF Mine
<1>4. \/ backlog' = [i \in DOMAIN backlog |-> S(backlog[i])]
      \/ backlog' = [i \in DOMAIN backlog |-> O(backlog[i])]
  OBVIOUS
<1>5. \/ thread' = [thread EXCEPT !.conn = S(@)]
      \/ thread' = [thread EXCEPT !.conn = O(@)]
  OBVIOUS
<1> HIDE DEF S, O
<1>6. backlog' \in Seq(Connection) /\ Len(backlog') = Len(backlog)
  BY <1>1, <1>2, <1>4, SMTT(30)
<1>7. /\ thread' \in ThreadType /\ thread'.pc = thread.pc /\ thread'.id = thread.id
      /\ thread.conn \in Connection => /\ thread'.conn \in Connection
                                       /\ thread'.conn.request = thread.conn.request
  BY <1>1, <1>2, <1>3, <1>5 DEF ThreadType
<1>8. made' \in 0..MaxRequests
  BY DEF IInv, TypeOK
<1> QED BY <1>1, <1>6, <1>7, <1>8, ConnectionsKeep DEF IInv, HasConnection

LEMMA ClientsKeep ==
  ASSUME IInv, NEW c \in Clients,
         ipc_send(c) \/ client_close(c) \/ \E r \in Request : init_socket(c, r)
  PROVE  IInv'
<1>1. CASE ipc_send(c)
  BY <1>1, OnMineKeeps DEF ipc_send, OnMine
<1>2. CASE client_close(c)
  BY <1>2, OnMineKeeps DEF client_close, OnMine
<1>3. ASSUME NEW r \in Request, init_socket(c, r)
      PROVE  IInv'
  <2>1. [client |-> c, request |-> r, sent |-> FALSE, open |-> TRUE] \in Connection
    BY DEF Connection
  <2>2. backlog \in Seq(Connection) /\ made \in 0..MaxRequests /\ made < MaxRequests
        /\ thread \in ThreadType
    BY <1>3 DEF init_socket, IInv, TypeOK, ThreadType
  <2>3. backlog' \in Seq(Connection) /\ Len(backlog') = Len(backlog) + 1
    BY <1>3, <2>1, <2>2 DEF init_socket
  <2>4. Len(backlog') <= Backlog /\ made' \in 0..MaxRequests
    BY <1>3, <2>2, <2>3 DEF init_socket
  <2> QED BY <1>3, <2>2, <2>3, <2>4, ConnectionsKeep DEF init_socket, IInv, HasConnection
<1> QED BY <1>1, <1>2, <1>3

-----------------------------------------------------------------------------
(* The socket thread.                                                      *)

\* The thread goes where it serves no connection.
LEMMA IdleKeeps ==
  ASSUME IInv, UNCHANGED <<cache_vars, made>>,
         NEW pc \in {"loop", "enter", "accept", "done"}, thread' = Idle(pc),
         backlog' \in Seq(Connection), Len(backlog') <= Backlog,
         running' \in BOOLEAN, missed' \in BOOLEAN,
         main' \in {"serving", "stopping", "joining", "closed"}
  PROVE  IInv'
<1>1. TypeOK'
  BY DEF IInv, TypeOK, CacheTypeOK, cache_vars, Idle
<1>2. HasConnection' /\ IdentifierOfOpen' /\ ClaimCleared'
  BY IdleData DEF HasConnection, IdentifierOfOpen, ClaimCleared, Busy
<1>3. HistoryCurrent' /\ TranslatedSinceClaim'
  BY IdleData DEF IInv, HistoryCurrent, get_identifier_for_path, TranslatedSinceClaim, cache_vars
<1> QED BY <1>1, <1>2, <1>3 DEF IInv

LEMMA AcceptKeeps ==
  ASSUME IInv, accept
  PROVE  IInv'
<1>1. backlog \in Seq(Connection) /\ backlog # <<>> /\ Len(backlog) <= Backlog
  BY DEF IInv, TypeOK, accept
<1>2. /\ Head(backlog) \in Connection
      /\ Tail(backlog) \in Seq(Connection) /\ Len(Tail(backlog)) <= Backlog
  BY <1>1
<1>3. thread' = [pc |-> "read", conn |-> Head(backlog), id |-> NONE]
  BY DEF accept, Moves
<1>4. TypeOK'
  <2>1. CacheTypeOK'
    BY DEF IInv, TypeOK, CacheTypeOK, cache_vars, accept
  <2>2. backlog' \in Seq(Connection) /\ Len(backlog') <= Backlog
    BY <1>2 DEF accept
  <2> QED BY <1>2, <1>3, <2>1, <2>2 DEF IInv, TypeOK, accept, Moves
<1>5. HasConnection' /\ IdentifierOfOpen' /\ ClaimCleared'
  BY <1>2, <1>3 DEF HasConnection, IdentifierOfOpen, ClaimCleared, Busy
<1>6. HistoryCurrent' /\ TranslatedSinceClaim'
  BY <1>3 DEF IInv, HistoryCurrent, get_identifier_for_path, TranslatedSinceClaim, cache_vars,
              accept
<1> QED BY <1>4, <1>5, <1>6 DEF IInv

\* The thread goes on with its request: to the cache, or past an enclave that
\* changes no file.
LEMMA GoesOnKeeps ==
  ASSUME IInv, handle_client_socket \/ handle_request
  PROVE  IInv'
<1>1. thread \in ThreadType /\ thread.pc \in Busy
  BY DEF IInv, TypeOK, ThreadType, handle_client_socket, handle_request, Moves, Busy
<1>2. PICK pc \in {"pass", "reply"} : thread' = [thread EXCEPT !.pc = pc]
  BY DEF handle_client_socket, handle_request, Moves
<1>3. /\ thread' \in ThreadType /\ thread'.pc \in {"pass", "reply"}
      /\ thread'.conn = thread.conn /\ thread'.id = thread.id
  BY <1>1, <1>2 DEF ThreadType
<1>4. UNCHANGED <<cache_vars, backlog, running, main, missed, made>>
  BY DEF handle_client_socket, handle_request, Moves
<1>5. TypeOK'
  BY <1>3, <1>4 DEF IInv, TypeOK, CacheTypeOK, cache_vars, ThreadType
<1>6. HasConnection' /\ IdentifierOfOpen' /\ ClaimCleared'
  BY <1>1, <1>3 DEF IInv, HasConnection, IdentifierOfOpen, ClaimCleared, Busy
<1>7. HistoryCurrent' /\ TranslatedSinceClaim'
  BY <1>3, <1>4 DEF IInv, HistoryCurrent, get_identifier_for_path, TranslatedSinceClaim,
                    cache_vars
<1> QED BY <1>5, <1>6, <1>7 DEF IInv

\* The cache answers an open, loses the entry of a claim, and ignores the rest.
LEMMA PassthroughKeeps ==
  ASSUME IInv, send_response
  PROVE  IInv'
<1> DEFINE req == thread.conn.request
<1>1. PICK r \in cache_passthrough(req) :
        thread' = [thread EXCEPT !.pc = "enclave", !.id = r.id] /\ cache' = r.cache
  BY DEF send_response, Moves
<1>2. /\ UNCHANGED <<now, names, label, had, backlog, running, main, missed, made>>
      /\ thread.pc = "pass"
  BY DEF send_response, Moves
<1>3. thread.conn \in Connection /\ thread \in ThreadType /\ CacheTypeOK /\ HistoryCurrent
  BY <1>2 DEF IInv, HasConnection, Busy, TypeOK, ThreadType
<1>4. \A q \in Paths : cache[q] # NoEntry => cache[q].id \in had[q]
  BY DEF IInv, TranslatedSinceClaim
<1>5. /\ r.cache \in [Paths -> Entry \union {NoEntry}]
      /\ \A q \in Paths : r.cache[q] # NoEntry => r.cache[q].id \in had[q]
      /\ r.id \in Ids \union {NONE}
      /\ r.id # NONE => req.op = "open" /\ r.id \in had[req.path]
      /\ req.op = "claim" => r.cache[req.path] = NoEntry
  <2>1. cache \in [Paths -> Entry \union {NoEntry}]
    BY <1>3 DEF CacheTypeOK
  <2>2. CASE req.op = "claim"
    <3>1. r = [cache |-> [cache EXCEPT ![req.path] = NoEntry], id |-> NONE]
      BY <2>2 DEF cache_passthrough, clear_entry_from_cache
    <3>2. req.path \in Paths
      BY <2>2, <1>3, RequestPath
    <3> QED BY <2>1, <2>2, <3>1, <3>2, <1>4
  <2>3. CASE req.op = "open"
    <3>1. r \in metadata_path_to_identifier(req.path)
      BY <2>3 DEF cache_passthrough
    <3>2. req.path \in Paths
      BY <2>3, <1>3, RequestPath
    <3> QED BY <2>3, <3>1, <3>2, <1>3, <1>4, LookupKeeps
  <2>4. CASE req.op \notin {"claim", "open"}
    <3>1. r = [cache |-> cache, id |-> NONE]
      BY <2>4 DEF cache_passthrough
    <3> QED BY <2>1, <2>4, <3>1, <1>4
  <2> QED BY <2>2, <2>3, <2>4
<1>6. /\ thread' \in ThreadType /\ thread'.pc = "enclave"
      /\ thread'.conn = thread.conn /\ thread'.id = r.id
  BY <1>1, <1>3, <1>5 DEF ThreadType
<1>7. TypeOK'
  BY <1>1, <1>2, <1>3, <1>5, <1>6 DEF IInv, TypeOK, CacheTypeOK, ThreadType
<1>8. HasConnection' /\ IdentifierOfOpen' /\ ClaimCleared'
  BY <1>1, <1>3, <1>5, <1>6 DEF HasConnection, IdentifierOfOpen, ClaimCleared, Busy
<1>9. HistoryCurrent' /\ TranslatedSinceClaim'
  BY <1>1, <1>2, <1>3, <1>5, <1>6 DEF HistoryCurrent, get_identifier_for_path,
                                      TranslatedSinceClaim
<1> QED BY <1>7, <1>8, <1>9, SMTT(30) DEF IInv

\* The enclave labels a file, for an open or for a claim.
LEMMA LabelKeeps ==
  ASSUME IInv, handle_request_label
  PROVE  IInv'
<1> DEFINE req == thread.conn.request
           new == CHOOSE i \in Unused : TRUE
           claimed == IF req.op = "claim" THEN req.path ELSE NONE
           l == [label EXCEPT ![names[req.path]] = new]
<1>1. /\ thread.pc = "enclave" /\ req.op \in {"claim", "open"} /\ thread.id = NONE
      /\ names[req.path] # NONE /\ Unused # {}
      /\ FilesBecome(names, l, claimed)
      /\ thread' = [thread EXCEPT !.pc = "reply"]
      /\ UNCHANGED <<now, cache, backlog, running, main, missed, made>>
  BY DEF handle_request_label, Labels, Moves
<1>2. /\ thread.conn \in Connection /\ thread \in ThreadType /\ CacheTypeOK /\ HistoryCurrent
  BY <1>1 DEF IInv, HasConnection, Busy, TypeOK, ThreadType
<1>3. req.path \in Paths
  BY <1>1, <1>2, RequestPath
<1>4. new \in Ids
  BY <1>1 DEF Unused
<1>5. /\ names \in [Paths -> Inodes \union {NONE}]
      /\ l \in [Inodes -> Ids \union {NONE}]
  <2> HIDE DEF new
  <2> QED BY <1>2, <1>4 DEF CacheTypeOK
<1>6. /\ names' \in [Paths -> Inodes \union {NONE}]
      /\ label' \in [Inodes -> Ids \union {NONE}]
      /\ had' \in [Paths -> SUBSET Ids]
      /\ HistoryCurrent'
      /\ \A p \in Paths : p # claimed => had[p] \subseteq had'[p]
  <2> HIDE DEF l, claimed
  <2> QED BY <1>1, <1>2, <1>5, FilesKeep
<1>7. /\ thread' \in ThreadType /\ thread'.pc = "reply"
      /\ thread'.conn = thread.conn /\ thread'.id = NONE
  BY <1>1, <1>2 DEF ThreadType
<1>8. TypeOK'
  BY <1>1, <1>2, <1>6, <1>7 DEF IInv, TypeOK, CacheTypeOK, ThreadType
<1>9. HasConnection' /\ IdentifierOfOpen' /\ ClaimCleared'
  BY <1>2, <1>7 DEF HasConnection, IdentifierOfOpen, ClaimCleared, Busy
<1>10. TranslatedSinceClaim'
  <2>1. ASSUME NEW p \in Paths, cache'[p] # NoEntry
        PROVE  cache'[p].id \in had'[p]
    <3>1. cache[p] # NoEntry /\ cache[p].id \in had[p] /\ cache' = cache
      BY <1>1, <2>1 DEF IInv, TranslatedSinceClaim
    <3>2. req.op = "claim" => p # req.path
      BY <1>1, <3>1 DEF IInv, ClaimCleared
    <3>3. p # claimed
      BY <3>2
    <3>4. had[p] \subseteq had'[p]
      BY <3>3, <1>6
    <3> QED BY <3>1, <3>4
  <2> QED BY <2>1, <1>7 DEF TranslatedSinceClaim
<1> QED BY <1>6, <1>8, <1>9, <1>10 DEF IInv

LEMMA SocketThreadKeeps ==
  ASSUME IInv, socket_thread
  PROVE  IInv'
<1>1. /\ backlog \in Seq(Connection) /\ Len(backlog) <= Backlog
      /\ running \in BOOLEAN /\ missed \in BOOLEAN
      /\ main \in {"serving", "stopping", "joining", "closed"}
  BY DEF IInv, TypeOK
<1>2. CASE run_server
  <2>1. PICK pc \in {"enter", "done"} : thread' = Idle(pc)
    BY <1>2 DEF run_server, Moves
  <2> QED BY <1>1, <1>2, <2>1, IdleKeeps DEF run_server, Moves
<1>3. CASE enter_accept
  BY <1>1, <1>3, IdleKeeps DEF enter_accept, Moves
<1>4. CASE write_reply
  BY <1>1, <1>4, IdleKeeps DEF write_reply, Moves
<1> QED BY <1>2, <1>3, <1>4, AcceptKeeps, GoesOnKeeps, PassthroughKeeps, LabelKeeps
        DEF socket_thread

-----------------------------------------------------------------------------
(* The main thread, and the files.                                         *)

\* The main thread moves and the connections stay, or are dropped at the end.
LEMMA MainKeeps ==
  ASSUME IInv, close_socket \/ interrupt \/ join
  PROVE  IInv'
<1>1. /\ backlog \in Seq(Connection) /\ Len(backlog) <= Backlog
      /\ running \in BOOLEAN /\ missed \in BOOLEAN
  BY DEF IInv, TypeOK
<1>2. /\ main' \in {"serving", "stopping", "joining", "closed"}
      /\ running' \in BOOLEAN /\ missed' \in BOOLEAN
      /\ backlog' \in Seq(Connection) /\ Len(backlog') <= Backlog
      /\ UNCHANGED <<cache_vars, made>>
      /\ thread' = thread \/ thread' = Idle("loop")
  <2>1. CASE close_socket
    BY <1>1, <2>1 DEF close_socket
  <2>2. CASE interrupt
    <3>1. missed' \in BOOLEAN
      BY <2>2, Zenon DEF interrupt
    <3> QED BY <1>1, <2>2, <3>1 DEF interrupt
  <2>3. CASE join
    <3>1. <<>> \in Seq(Connection) /\ Len(<<>>) <= Backlog
      OBVIOUS
    <3> QED BY <1>1, <2>3, <3>1 DEF join
  <2> QED BY <2>1, <2>2, <2>3
<1>3. CASE thread' = thread
  <2>1. TypeOK'
    BY <1>2, <1>3 DEF IInv, TypeOK, CacheTypeOK, cache_vars
  <2>2. /\ HasConnection' /\ IdentifierOfOpen' /\ ClaimCleared' /\ HistoryCurrent'
        /\ TranslatedSinceClaim'
    BY <1>2, <1>3 DEF IInv, HasConnection, IdentifierOfOpen, ClaimCleared, HistoryCurrent,
                      get_identifier_for_path, TranslatedSinceClaim, cache_vars
  <2> QED BY <2>1, <2>2 DEF IInv
<1>4. CASE thread' = Idle("loop")
  BY <1>2, <1>4, IdleKeeps
<1> QED BY <1>2, <1>3, <1>4

LEMMA FileStepsKeep ==
  ASSUME IInv, UNCHANGED server_vars,
         Tick \/ \E p \in Paths, i \in Inodes \union {NONE} : rebind(p, i)
  PROVE  IInv'
<1>1. CacheTypeOK /\ HistoryCurrent
  BY DEF IInv, TypeOK
<1> DEFINE Kept == /\ CacheTypeOK' /\ HistoryCurrent' /\ cache' = cache
                   /\ \A q \in Paths : had[q] \subseteq had'[q]
<1>2. Kept
  <2>1. CASE Tick
    <3>1. now' \in 0..MaxClock /\ UNCHANGED <<names, label, cache, had>>
      BY <1>1, <2>1 DEF Tick, CacheTypeOK
    <3> QED BY <1>1, <3>1 DEF CacheTypeOK, HistoryCurrent, get_identifier_for_path
  <2>2. ASSUME NEW p \in Paths, NEW i \in Inodes \union {NONE}, rebind(p, i)
        PROVE  Kept
    <3>1. [names EXCEPT ![p] = i] \in [Paths -> Inodes \union {NONE}]
          /\ label \in [Inodes -> Ids \union {NONE}]
      BY <1>1 DEF CacheTypeOK
    <3>2. FilesBecome([names EXCEPT ![p] = i], label, NONE) /\ UNCHANGED <<now, cache>>
      BY <2>2 DEF rebind
    <3>3. /\ names' \in [Paths -> Inodes \union {NONE}]
          /\ label' \in [Inodes -> Ids \union {NONE}]
          /\ had' \in [Paths -> SUBSET Ids]
          /\ HistoryCurrent'
          /\ \A q \in Paths : q # NONE => had[q] \subseteq had'[q]
      BY <1>1, <3>1, <3>2, FilesKeep
    <3>4. CacheTypeOK'
      BY <1>1, <3>2, <3>3 DEF CacheTypeOK
    <3>5. \A q \in Paths : q # NONE
      OBVIOUS
    <3> QED BY <3>2, <3>3, <3>4, <3>5
  <2> QED BY <2>1, <2>2
<1>3. TypeOK'
  BY <1>2 DEF IInv, TypeOK, server_vars
<1>4. HasConnection' /\ IdentifierOfOpen' /\ ClaimCleared'
  BY <1>2 DEF IInv, HasConnection, IdentifierOfOpen, ClaimCleared, server_vars
<1>5. TranslatedSinceClaim'
  <2>1. thread' = thread
    BY DEF server_vars
  <2>2. thread.id # NONE => thread.conn.request.path \in Paths
    BY RequestPath DEF IInv, IdentifierOfOpen, HasConnection
  <2> QED BY <1>2, <2>1, <2>2 DEF IInv, TranslatedSinceClaim
<1> QED BY <1>2, <1>3, <1>4, <1>5 DEF IInv

-----------------------------------------------------------------------------
(* The theorems.                                                           *)

LEMMA InvariantInit == Init => IInv
<1> SUFFICES ASSUME Init PROVE IInv
  OBVIOUS
<1>1. /\ now = 0 /\ names = Found.names /\ label = Found.label
      /\ cache = [p \in Paths |-> NoEntry]
      /\ had = [p \in Paths |-> {get_identifier_for_path(p)} \ {NONE}]
  BY DEF Init, CacheInit
<1>2. /\ names \in [Paths -> Inodes \union {NONE}]
      /\ label \in [Inodes -> Ids \union {NONE}]
  BY <1>1, FoundAssumption
<1>3. \A p \in Paths : get_identifier_for_path(p) \in Ids \union {NONE}
  BY <1>2 DEF get_identifier_for_path, IdAt
<1>4. CacheTypeOK /\ HistoryCurrent
  <2>1. now \in 0..MaxClock /\ cache \in [Paths -> Entry \union {NoEntry}]
    BY <1>1
  <2>2. had \in [Paths -> SUBSET Ids]
    BY <1>1, <1>3
  <2>3. HistoryCurrent
    <3> QED BY <1>1 DEF HistoryCurrent
  <2> QED BY <1>2, <2>1, <2>2, <2>3 DEF CacheTypeOK
<1>5. TypeOK
  <2>1. <<>> \in Seq(Connection) /\ Len(<<>>) <= Backlog
    OBVIOUS
  <2>2. thread = [pc |-> "loop", conn |-> NONE, id |-> NONE]
    BY DEF Init, Idle
  <2>3. running \in BOOLEAN /\ missed \in BOOLEAN
    BY Zenon DEF Init
  <2>4. made \in 0..MaxRequests /\ main = "serving" /\ backlog = <<>>
    BY DEF Init
  <2> QED BY <1>4, <2>1, <2>2, <2>3, <2>4 DEF TypeOK
<1>6. HasConnection /\ IdentifierOfOpen /\ ClaimCleared
  BY IdleData DEF HasConnection, IdentifierOfOpen, ClaimCleared, Busy, Init
<1>7. TranslatedSinceClaim
  BY <1>1, IdleData DEF TranslatedSinceClaim, Init
<1> QED BY <1>4, <1>5, <1>6, <1>7 DEF IInv

LEMMA InvariantNext == IInv /\ [Next]_vars => IInv'
<1> SUFFICES ASSUME IInv, [Next]_vars PROVE IInv'
  OBVIOUS
<1>1. CASE UNCHANGED vars
  BY <1>1 DEF IInv, TypeOK, CacheTypeOK, HasConnection, IdentifierOfOpen, ClaimCleared,
              HistoryCurrent, get_identifier_for_path, TranslatedSinceClaim,
              vars, cache_vars, server_vars
<1>2. CASE Next
  BY <1>2, SocketThreadKeeps, ClientsKeep, MainKeeps, FileStepsKeep DEF Next
<1> QED BY <1>1, <1>2

\* The state of the server and of the cache has its type, and no more
\* connections wait than the listening socket holds (initialise_socket,
\* init_socket).
THEOREM TypeCorrect == Spec => []TypeOK
<1>1. IInv => TypeOK
  BY DEF IInv
<1> QED BY <1>1, InvariantInit, InvariantNext, PTL DEF Spec

\* A claim is seen by every later request: no request gets from the cache an
\* identifier that the file at its path lost before the path was last claimed
\* (cache_passthrough, metadata_path_to_identifier).
THEOREM ClaimsAreSeen == Spec => []TranslatedSinceClaim
<1>1. IInv => TranslatedSinceClaim
  BY DEF IInv
<1> QED BY <1>1, InvariantInit, InvariantNext, PTL DEF Spec
=============================================================================
