---------------------------- MODULE ClientCache ----------------------------
(***************************************************************************)
(* The caches of the client library, the operations that fill and use      *)
(* them, and the wrappers of system calls (the shim).  One process is      *)
(* followed; a fork follows its child.  The caches answer for the daemon   *)
(* while an earlier approval lasts, so what matters is whether the kernel  *)
(* would agree with the answer.                                            *)
(*                                                                         *)
(* A session is the part of the state that a call of the library changes.  *)
(* An operation maps a session to the set of its outcomes, so that calls   *)
(* compose as they do in the code.  The group of shared memory segments is *)
(* not modelled.                                                           *)
(***************************************************************************)
EXTENDS Integers, Sequences, FiniteSetsExt

CONSTANTS
  Files,         \* paths
  Fds,           \* descriptors
  Labels,        \* identifiers of files
  SOCKET,        \* what a descriptor of a socket refers to
  ACCEPTED,      \* the same for a socket that was accepted in the realm
  NONE,          \* no identifier, no ticket, a descriptor that is closed
  Second,        \* clock ticks per second
  TicketExpiry,  \* _CITADEL_TICKET_EXPIRY, in seconds
  Latency,       \* bound on the ticks from a ticket's issue to the reply
  Boot,          \* the clock when the process starts, in ticks since boot
  MaxClock,      \* bound on the clock
  MaxForks,      \* bound on the forks and restarts
  MaxEntries     \* bound on the entries of a cache

\* A fork marks an entry as out of date by the time of boot, which it is only
\* when that is longer ago than a ticket lasts.
ASSUME ClockAssumption ==
  /\ Second \in Nat \ {0} /\ TicketExpiry \in Nat \ {0}
  /\ Latency \in 0..(TicketExpiry * Second - 1)
  /\ Boot \in Nat /\ Boot >= TicketExpiry * Second
  /\ MaxClock \in Nat /\ MaxClock >= Boot
  /\ MaxForks \in Nat

\* Nothing is both a path and a socket, or the identifier of a file and of a
\* process.
ASSUME NamesAssumption ==
  /\ {SOCKET, ACCEPTED, NONE} \intersect Files = {}
  /\ SOCKET # NONE /\ ACCEPTED # NONE /\ SOCKET # ACCEPTED
  /\ (Labels \union {NONE}) \intersect Nat = {}
  /\ NONE \notin Labels

VARIABLES
  now,          \* CLOCK_MONOTONIC_RAW and ktime_get(), in ticks
  pid,          \* own_pid: the number of processes before this one
  known_taint,  \* whether the library knows that the process is in the realm
  file_names,   \* cache_groups[LIBCITADEL_CACHE_FILE_NAMES]
  fd_cache,     \* cache_groups[LIBCITADEL_CACHE_FD]
  file,         \* kernel: existence, identifier and taint of a file
  sock,         \* kernel: the identifier of an open socket
  opened,       \* kernel: what a descriptor refers to
  in_realm,     \* kernel: whether the process is in the realm
  granted       \* kernel: the time of this process's last ticket to open an object

vars == <<now, pid, known_taint, file_names, fd_cache, file,
          sock, opened, in_realm, granted>>

TicketOps == {"open", "internal", "external"}

\* A socket has the identifier of the process that brought it into the realm, a
\* file the one of the process in the realm that created it.
Ids == Labels \union 0..MaxForks

NameEntry == [path : Files, ops : SUBSET {"claim", "open"}, time : 0..MaxClock,
              of : Ids]           \* ghost: the identifier the ticket is for

Inode == [exists : BOOLEAN, id : Ids \union {NONE}, realm : BOOLEAN]

NoFile == [exists |-> FALSE, id |-> NONE, realm |-> FALSE]
Plain == [exists |-> TRUE, id |-> NONE, realm |-> FALSE]

FdEntry == [fd : Fds, op : TicketOps \union {"nop", "parent"},
            time : 0..MaxClock, data : Ids,
            by : 0..MaxForks,     \* ghost: the process that made or refreshed it
            issued : (0..MaxClock) \union {NONE}]  \* ghost: a socket's ticket

Init ==
  /\ now = Boot
  /\ pid = 0
  /\ known_taint = FALSE
  /\ file_names = <<>>
  /\ fd_cache = <<>>
  /\ file \in [Files -> {NoFile, Plain}]
  /\ sock = [fd \in Fds |-> NONE]
  /\ opened = [fd \in Fds |-> NONE]
  /\ in_realm = FALSE
  /\ granted = [l \in Ids |-> NONE]

-----------------------------------------------------------------------------
(* Sessions.                                                               *)

Session == [clock |-> now, names |-> file_names, fds |-> fd_cache,
            file |-> file, sock |-> sock, granted |-> granted]

Becomes(s) ==
  /\ s.clock <= MaxClock
  /\ Len(s.names) <= MaxEntries /\ Len(s.fds) <= MaxEntries
  /\ now' = s.clock
  /\ file_names' = s.names
  /\ fd_cache' = s.fds
  /\ file' = s.file
  /\ sock' = s.sock
  /\ granted' = s.granted

\* What get_fd_identifier reads on fd.  A file keeps its identifier when it is
\* declassified.
get_fd_identifier(s, fd) ==
  IF opened[fd] \in Files THEN s.file[opened[fd]].id ELSE s.sock[fd]

\* The identifiers a new label can have.
Fresh(s) ==
  {l \in Labels : /\ \A f \in Files : s.file[f].id # l
                  /\ s.granted[l] = NONE
                  /\ \A i \in DOMAIN s.names : s.names[i].of # l
                  /\ \A i \in DOMAIN s.fds : s.fds[i].data # l}

WithTicket(s, l) == [s EXCEPT !.granted[l] = s.clock]

\* The kernel's ticket for l is still good.
Valid(s, l) ==
  s.granted[l] # NONE /\ s.clock - s.granted[l] < TicketExpiry * Second

\* The kernel lets the process open f.
Permits(s, f) ==
  /\ s.file[f].exists
  /\ s.file[f].realm \/ in_realm =>
       s.file[f].id # NONE /\ Valid(s, s.file[f].id)

\* Opening f brings the process into the realm.
Taints(s, f) == Permits(s, f) /\ s.file[f].realm

\* A process in the realm creates files in the realm, with its own identifier.
Created(s, f) ==
  [s EXCEPT !.file[f] = IF in_realm THEN [exists |-> TRUE, id |-> pid, realm |-> TRUE]
                                    ELSE Plain]

\* A transaction that turns s into done, by way of the sessions in partial.
\* The approval arrives after the ticket was issued; a refusal, an error or a
\* timeout can come at any stage.
ipc_transaction(s, partial, done) ==
  {[s |-> [done EXCEPT !.clock = @ + late], ok |-> TRUE] : late \in 0..Latency}
    \union {[s |-> t, ok |-> FALSE] : t \in partial \union {s, done}}

\* Outcomes with a function applied to the session of the approved ones.
IfApproved(outcomes, F(_)) ==
  {IF r.ok THEN [r EXCEPT !.s = F(@)] ELSE r : r \in outcomes}

-----------------------------------------------------------------------------
(* The cache of file names.                                                *)

Seconds(t) == t \div Second

\* cleanup_cache_group: everything before the first entry in date goes.
cleanup_cache_group(s) ==
  LET good == {i \in DOMAIN s.names :
                 Seconds(s.clock) - Seconds(s.names[i].time) < TicketExpiry}
  IN  [s EXCEPT !.names = IF good = {} THEN <<>> ELSE SubSeq(@, Min(good), Len(@))]

\* cache_hit, on a group that cache_group_head has cleaned.
cache_hit(s, f, op) ==
  \E i \in DOMAIN s.names : s.names[i].path = f /\ op \in s.names[i].ops

NewName(s, f, ops, l) ==
  [s EXCEPT !.names = Append(@, [path |-> f, ops |-> ops, time |-> s.clock, of |-> l])]

\* A ticket for l, after f was given the identifier l if it has another one.
\* A path without a file cannot be given one.
Approval(s, f, l, ops) ==
  LET named == IF s.file[f].id = l THEN s
               ELSE [s EXCEPT !.file[f] = [exists |-> TRUE, id |-> l, realm |-> TRUE]]
      AddName(t) == NewName(t, f, ops, l)
  IN  IF ~s.file[f].exists THEN {[s |-> s, ok |-> FALSE]}
      ELSE IfApproved(ipc_transaction(s, {named}, WithTicket(named, l)), AddName)

\* _citadel_file_claim, and citadel_file_claim with it: the length of an
\* identifier never is the size of the attribute's name, so that claiming a
\* file that has an identifier gives it another one.
_citadel_file_claim(s0, f) ==
  LET s == cleanup_cache_group(s0)
  IN  IF cache_hit(s, f, "claim") THEN {[s |-> s, ok |-> TRUE]}
      ELSE UNION {Approval(s, f, l, {"claim", "open"}) : l \in Fresh(s)}

\* citadel_file_open_ext: the enclave labels a file that has no identifier.
citadel_file_open_ext(s0, f) ==
  LET s == cleanup_cache_group(s0)
  IN  IF cache_hit(s, f, "open") THEN {[s |-> s, ok |-> TRUE]}
      ELSE UNION {Approval(s, f, l, {"open"}) :
                    l \in IF s.file[f].id = NONE THEN Fresh(s) ELSE {s.file[f].id}}

-----------------------------------------------------------------------------
(* The cache of descriptors.                                               *)

\* entry_in_date: a second early, to be on the safe side.
entry_in_date(s, e) == Seconds(s.clock) - Seconds(e.time) + 1 < TicketExpiry

NewFd(s, fd, op, l, issued) ==
  [s EXCEPT !.fds = Append(@, [fd |-> fd, op |-> op, time |-> s.clock, data |-> l,
                               by |-> pid, issued |-> issued])]

\* Mutant of citadel_declare_fd: a descriptor without identifier is recorded.
declare_untainted(s, fd, op, l) == NewFd(s, fd, op, l, NONE)

\* citadel_declare_fd on a descriptor with the identifier l.
citadel_declare_fd(s, fd, op, l) ==
  IF l = NONE THEN s ELSE NewFd(s, fd, op, l, NONE)

\* _citadel_file_open_fd and _citadel_socket: ask for op on l.  The kernel never
\* looks for the ticket of a socket, so only its time is kept, with the entry.
Ask(s, l, op) == ipc_transaction(s, {}, IF op = "open" THEN WithTicket(s, l) ELSE s)

\* The time of the ticket of a socket that is asked for in s.  The enclave
\* approves an operation that has no ticket without issuing one.
TicketTime(s, op) == IF op \in {"internal", "external"} THEN s.clock ELSE NONE

\* What is left of a group without the entries at the places in gone.
Without(group, gone) ==
  LET kept == DOMAIN group \ gone
      Place(k) == CHOOSE i \in kept : Cardinality(kept \intersect 1..i) = k
  IN  [k \in 1..Cardinality(kept) |-> group[Place(k)]]

\* update_cache_timestamp and move_cache_item_to_end for the entry at i.
Refreshed(s, i, issued) ==
  LET e == [s.fds[i] EXCEPT !.time = s.clock, !.issued = issued,
                            !.by = IF s.fds[i].op = "parent" THEN @ ELSE pid]
  IN  [s EXCEPT !.fds = Append(Without(@, {i}), e)]

\* Mutant of Matching: the identifiers are not compared.
matching_any(s, fd, op) ==
  {i \in DOMAIN s.fds : /\ s.fds[i].fd = fd
                        /\ op = NONE \/ s.fds[i].op = op}

\* The entries for fd with its present identifier, of operation op if given.
Matching(s, fd, op) ==
  {i \in DOMAIN s.fds : /\ s.fds[i].fd = fd
                        /\ op = NONE \/ s.fds[i].op = op
                        /\ s.fds[i].data = get_fd_identifier(s, fd)}

\* citadel_validate_fd with op, or without (citadel_validate_fd_anon).
citadel_validate_fd(s, fd, op) ==
  LET i == Min(Matching(s, fd, op))
      e == s.fds[i]
  IN  IF get_fd_identifier(s, fd) = NONE THEN {[s |-> s, ok |-> TRUE]}
      ELSE IF Matching(s, fd, op) = {} THEN
        IF op = NONE THEN {[s |-> s, ok |-> FALSE]}
        ELSE LET AddFd(t) == NewFd(t, fd, op, get_fd_identifier(s, fd), TicketTime(s, op))
             IN  IfApproved(Ask(s, get_fd_identifier(s, fd), op), AddFd)
      ELSE IF entry_in_date(s, e) \/ e.op = "nop" THEN {[s |-> s, ok |-> TRUE]}
      ELSE LET Refresh(t) == Refreshed(t, i, TicketTime(s, e.op))
           IN  IfApproved(Ask(s, e.data, e.op), Refresh)

\* The entries of fd that citadel_remove_fd reads after freeing them.
ReadFreed(s, fd) == {i \in DOMAIN s.fds : i > 1 /\ s.fds[i].fd = fd}

\* citadel_remove_fd.  The head is looked at last.  Of an entry further on the
\* next pointer is read after the entry is freed: if it is intact the loop goes
\* on, if the allocator has cleared it the loop ends there, and any other value
\* is a bad pointer (c_close).  When the loop goes on, the second of two entries
\* in a row is freed without being unlinked: a bad pointer again.
citadel_remove_fd(s, fd) ==
  LET head == {i \in DOMAIN s.fds : i = 1 /\ s.fds[i].fd = fd}
      later == ReadFreed(s, fd)
      freed == IF later = {} THEN {{}}
               ELSE {{Min(later)}} \union
                    {g \in {later} : \A i \in g : i + 1 \notin g}
  IN  {[s EXCEPT !.fds = Without(@, head \union g)] : g \in freed}

-----------------------------------------------------------------------------
(* The shim.  A file that does not exist is opened with O_CREAT.           *)

\* A use of a socket by a process in the realm brings it into the realm.
realm_init_socket(s, fd) ==
  IF opened[fd] = SOCKET /\ in_realm /\ s.sock[fd] = NONE
    THEN [s EXCEPT !.sock[fd] = pid] ELSE s

\* c_open when the process is not known to be tainted and the kernel lets it:
\* the descriptor is not recorded.
c_open_untainted(f, fd) ==
  /\ opened[fd] = NONE
  /\ ~known_taint
  /\ ~file[f].exists \/ Permits(Session, f)
  /\ Becomes(IF file[f].exists THEN Session ELSE Created(Session, f))
  /\ opened' = [opened EXCEPT ![fd] = f]
  /\ in_realm' = (in_realm \/ Taints(Session, f))
  /\ UNCHANGED <<pid, known_taint>>

\* c_open otherwise.  A process known to be tainted creates the file first.
c_open(f, fd) ==
  LET s0 == IF file[f].exists THEN Session ELSE Created(Session, f)
  IN  /\ opened[fd] = NONE
      /\ known_taint \/ (file[f].exists /\ ~Permits(Session, f))
      /\ \E r \in citadel_file_open_ext(s0, f) :
           IF r.ok /\ Permits(r.s, f)
             THEN /\ opened' = [opened EXCEPT ![fd] = f]
                  /\ in_realm' = (in_realm \/ r.s.file[f].realm)
                  /\ known_taint' = TRUE
                  /\ Becomes(citadel_declare_fd(r.s, fd, "open", r.s.file[f].id))
             ELSE /\ known_taint' = (known_taint \/ r.ok)
                  /\ Becomes(r.s)
                  /\ UNCHANGED <<opened, in_realm>>
      /\ UNCHANGED <<pid>>

\* The descriptor of the stream that c_fopen returns is not recorded.
c_fopen(f) ==
  /\ \E r \in citadel_file_open_ext(Session, f) :
       /\ Becomes(IF r.ok /\ ~file[f].exists THEN Created(r.s, f) ELSE r.s)
       /\ in_realm' = (in_realm \/ (r.ok /\ Taints(r.s, f)))
  /\ UNCHANGED <<pid, known_taint, opened>>

\* Calls that change no more than the session.
InSession(outcomes) ==
  /\ \E r \in outcomes : Becomes(r.s)
  /\ UNCHANGED <<pid, known_taint, opened, in_realm>>

\* citadel_file_claim from the application.
citadel_file_claim(f) == InSession(_citadel_file_claim(Session, f))

\* The file at f, just created in s, is claimed or unlinked.
ClaimOrUnlink(s, f) ==
  {IF r.ok THEN r ELSE [r EXCEPT !.s.file[f] = NoFile] : r \in _citadel_file_claim(s, f)}

c_mkfifo(f) ==
  /\ ~file[f].exists
  /\ InSession(ClaimOrUnlink(Created(Session, f), f))

\* The file stays as it was, or leaves the realm with its identifier.
citadel_declassify(f) ==
  /\ file[f].exists
  /\ InSession(ipc_transaction(Session, {}, [Session EXCEPT !.file[f].realm = FALSE]))

\* socket(), which the shim leaves alone.
socket(fd) ==
  /\ opened[fd] = NONE
  /\ opened' = [opened EXCEPT ![fd] = SOCKET]
  /\ sock' = [sock EXCEPT ![fd] = IF in_realm THEN pid ELSE NONE]
  /\ UNCHANGED <<now, pid, known_taint, file_names, fd_cache, file,
                 in_realm, granted>>

\* accept() on a listening socket, which the shim leaves alone.  The new socket
\* is in the realm if the listening one is, but not marked as a socket, so that
\* its identifier can never be read.
accept(fd, new) ==
  LET s == realm_init_socket(Session, fd)
  IN  /\ opened[fd] = SOCKET /\ opened[new] = NONE
      /\ opened' = [opened EXCEPT ![new] = IF s.sock[fd] = NONE THEN SOCKET ELSE ACCEPTED]
      /\ sock' = s.sock
      /\ UNCHANGED <<now, pid, known_taint, file_names, fd_cache, file,
                     in_realm, granted>>

\* The two ends need no ticket in the process that made them.
c_socketpair(a, b) ==
  LET s == [Session EXCEPT !.sock[a] = IF in_realm THEN pid ELSE NONE,
                           !.sock[b] = IF in_realm THEN pid ELSE NONE]
  IN  /\ a # b /\ opened[a] = NONE /\ opened[b] = NONE
      /\ opened' = [opened EXCEPT ![a] = SOCKET, ![b] = SOCKET]
      /\ Becomes(citadel_declare_fd(citadel_declare_fd(s, a, "nop", s.sock[a]),
                                    b, "nop", s.sock[b]))
      /\ UNCHANGED <<pid, known_taint, in_realm>>

\* The operation of citadel_socket for a path, and for an internet address.
SocketOp(f) == IF f \in Files THEN "internal" ELSE "external"

\* bind() on f in s, and the claim of the path if the socket was tainted
\* before.  A path that is in use makes bind() fail.
Bound(s, fd, f) ==
  LET t == realm_init_socket(s, fd)
  IN  IF f \notin Files THEN {[s |-> t, ok |-> TRUE]}
      ELSE IF t.file[f].exists THEN {[s |-> t, ok |-> FALSE]}
      ELSE IF s.sock[fd] = NONE THEN {[s |-> Created(t, f), ok |-> TRUE]}
      ELSE ClaimOrUnlink(Created(t, f), f)

c_bind(fd, f) ==
  /\ opened[fd] = SOCKET
  /\ InSession(UNION {IF r.ok THEN Bound(r.s, fd, f) ELSE {r} :
                        r \in citadel_validate_fd(Session, fd, SocketOp(f))})

\* A socket that is tainted needs a ticket for the path as well.  The kernel
\* has the last word on the path, which can bring the process into the realm.
c_connect(fd, f) ==
  /\ opened[fd] = SOCKET
  /\ \E r \in citadel_validate_fd(Session, fd, SocketOp(f)) :
       \E q \in IF r.ok /\ f \in Files /\ sock[fd] # NONE
                  THEN citadel_file_open_ext(r.s, f) ELSE {r} :
         /\ Becomes(q.s)
         /\ in_realm' = (in_realm \/ (q.ok /\ f \in Files /\ Taints(q.s, f)))
  /\ UNCHANGED <<pid, known_taint, opened>>

c_listen(fd) ==
  /\ opened[fd] = SOCKET
  /\ InSession(citadel_validate_fd(Session, fd, NONE))

\* The system call on fd after its validation.
Used(outcomes, fd) ==
  LET Use(s) == realm_init_socket(s, fd) IN IfApproved(outcomes, Use)

\* c_read, c_write, c_pread, c_pwrite, c_send, c_recv and c_writev.
c_read(fd) ==
  /\ opened[fd] # NONE
  /\ InSession(Used(citadel_validate_fd(Session, fd, NONE), fd))

c_sendfile(out_fd, in_fd) ==
  /\ opened[out_fd] # NONE /\ opened[in_fd] # NONE
  /\ InSession(Used(UNION {IF r.ok THEN citadel_validate_fd(r.s, in_fd, NONE) ELSE {r} :
                             r \in citadel_validate_fd(Session, out_fd, NONE)}, out_fd))

c_close(fd) ==
  /\ opened[fd] # NONE
  /\ \E s \in citadel_remove_fd(Session, fd) : Becomes([s EXCEPT !.sock[fd] = NONE])
  /\ opened' = [opened EXCEPT ![fd] = NONE]
  /\ UNCHANGED <<pid, known_taint, in_realm>>

\* c_close when citadel_remove_fd follows a bad pointer: the process dies, and
\* the application is started again.
c_close_crash(fd) ==
  /\ opened[fd] # NONE
  /\ ReadFreed(Session, fd) # {}
  /\ pid < MaxForks
  /\ pid' = pid + 1
  /\ known_taint' = FALSE /\ in_realm' = FALSE
  /\ file_names' = <<>> /\ fd_cache' = <<>>
  /\ sock' = [d \in Fds |-> NONE] /\ opened' = [d \in Fds |-> NONE]
  /\ granted' = [l \in Ids |-> NONE]
  /\ UNCHANGED <<now, file>>

\* Mutant of prepare_entry_for_child: the entry keeps its time.
prepare_entry_timed(e) ==
  IF "op" \in DOMAIN e /\ e.op = "nop" THEN [e EXCEPT !.op = "parent"] ELSE e

\* prepare_entry_for_child, for entries of both groups.
prepare_entry_for_child(e) ==
  IF "op" \in DOMAIN e /\ e.op = "nop" THEN [e EXCEPT !.time = 0, !.op = "parent"]
                                       ELSE [e EXCEPT !.time = 0]

cache_on_fork(group) == [i \in DOMAIN group |-> prepare_entry_for_child(group[i])]

\* c_fork in the child.  One whose parent is gone by then is no child to
\* init_pid, and starts with empty caches.  Tickets stay with the parent.
c_fork(orphan) ==
  /\ pid < MaxForks
  /\ pid' = pid + 1
  /\ file_names' = IF orphan THEN <<>> ELSE cache_on_fork(file_names)
  /\ fd_cache' = IF orphan THEN <<>> ELSE cache_on_fork(fd_cache)
  /\ granted' = [l \in Ids |-> NONE]
  /\ UNCHANGED <<now, known_taint, file, sock, opened, in_realm>>

-----------------------------------------------------------------------------
(* The rest of the system.  What others do to a file, claim it or take it   *)
(* out of the realm, is what a transaction of this process does that fails *)
(* after the enclave acted.                                                *)

Tick ==
  /\ now < MaxClock
  /\ now' = now + 1
  /\ UNCHANGED <<pid, known_taint, file_names, fd_cache, file, sock,
                 opened, in_realm, granted>>

Next ==
  \/ Tick
  \/ \E orphan \in BOOLEAN : c_fork(orphan)
  \/ \E f \in Files :
       \/ c_fopen(f) \/ citadel_file_claim(f) \/ c_mkfifo(f)
       \/ citadel_declassify(f)
       \/ \E fd \in Fds : c_open_untainted(f, fd) \/ c_open(f, fd)
  \/ \E fd \in Fds :
       \/ socket(fd) \/ c_listen(fd) \/ c_read(fd)
       \/ c_close(fd) \/ c_close_crash(fd)
       \/ \E f \in Files \union {NONE} : c_bind(fd, f) \/ c_connect(fd, f)
       \/ \E other \in Fds :
            accept(fd, other) \/ c_socketpair(fd, other) \/ c_sendfile(fd, other)

Spec == Init /\ [][Next]_vars

-----------------------------------------------------------------------------
(* Properties.                                                             *)

\* The state has its type; in particular every entry for a descriptor holds an
\* identifier (citadel_declare_fd records tainted descriptors only).
TypeOK ==
  /\ now \in Boot..MaxClock /\ pid \in 0..MaxForks
  /\ known_taint \in BOOLEAN /\ in_realm \in BOOLEAN
  /\ file_names \in Seq(NameEntry) /\ fd_cache \in Seq(FdEntry)
  /\ file \in [Files -> Inode] /\ sock \in [Fds -> Ids \union {NONE}]
  /\ opened \in [Fds -> Files \union {SOCKET, ACCEPTED, NONE}]
  /\ granted \in [Ids -> (0..MaxClock) \union {NONE}]

\* The time of a ticket is less than age ago.
Within(issued, age) == issued # NONE /\ now - issued < age

\* A path that cache_hit answers for rests on a ticket of this very process,
\* not of its parent, and outlives the ticket by no more than the reply took
\* (cleanup_cache_group, prepare_entry_for_child).
NamesBacked ==
  \A i \in DOMAIN cleanup_cache_group(Session).names :
    Within(granted[cleanup_cache_group(Session).names[i].of],
           TicketExpiry * Second + Latency)

\* A descriptor that citadel_validate_fd accepts without asking, whatever was
\* opened under its number before and whatever became of the file since, rests
\* on a ticket of this very process for the identifier it has now.  For a socket
\* the entry is as old as the ticket; for a file the ticket can be older, as
\* c_open stamps the entry when a cached path let it open the file.  An entry
\* that needs no ticket is one that this process made for a pair of sockets.
FdsBacked ==
  \A fd \in Fds, op \in {NONE} \union TicketOps :
    LET e == fd_cache[Min(Matching(Session, fd, op))]
    IN  /\ get_fd_identifier(Session, fd) # NONE
        /\ opened[fd] \in Files => file[opened[fd]].realm
        /\ Matching(Session, fd, op) # {}
        /\ e.op = "nop" \/ entry_in_date(Session, e)
        => CASE e.op = "nop"    -> e.by = pid
             [] e.op = "parent" -> e.by # pid
             [] e.op = "open"   -> Within(granted[get_fd_identifier(Session, fd)],
                                          (2 * TicketExpiry - 1) * Second - 1)
             [] OTHER           -> /\ e.by = pid
                                   /\ Within(e.issued, (TicketExpiry - 1) * Second + Latency)
=============================================================================
