---------------------------- MODULE TicketCache ----------------------------
(***************************************************************************)
(* The ticket cache of the kernel module: tickets that the enclave issues  *)
(* are queued under the PID they are for (insert_ticket) and moved to that *)
(* process's credentials by the next security hook the process runs        *)
(* (check_ticket_cache), which also drops the expired ones.                *)
(*                                                                         *)
(* The circular list behind a ticket_head is the sequence of its tickets   *)
(* from the head on.  Every loop of the code finds the end of the list by  *)
(* a timestamp that does not grow, and is modelled that way, so that what  *)
(* the loops do on an unordered list is what the code does.  Each hook and *)
(* each insertion is one step here; module TicketRing takes them apart.    *)
(***************************************************************************)
EXTENDS Integers, Sequences

CONSTANTS
  Pids,         \* process IDs (thread-group leaders)
  Identifiers,  \* 16-byte object identifiers
  Operations,   \* the bits of citadel_operation_t a ticket can carry
  PTY,          \* CITADEL_OP_PTY_ACCESS, one of Operations
  Expiry,       \* _CITADEL_TICKET_EXPIRY
  PidReuse,     \* whether the kernel hands out the PID of a dead process again
  MaxClock      \* bound on the clock

ASSUME ConstantsAssumption ==
  /\ PTY \in Operations
  /\ Expiry \in Nat \ {0}
  /\ PidReuse \in BOOLEAN
  /\ MaxClock \in Nat

VARIABLES
  now,              \* ktime_get()
  live,             \* the PIDs of running processes
  born,             \* the PIDs that have been used so far
  reservation,      \* reservation_node->ticket_head, for each PID
  reserved_pty,     \* reservation_node->granted_pty
  ticket_head,      \* task_data->ticket_head, for each PID
  granted_pty,      \* task_data->granted_pty
  due,              \* history: the tickets issued to the running process
                    \* that its credentials have not been replaced under
  pty_owners        \* history: processes entitled to a PTY

vars == <<now, live, born, reservation, reserved_pty, ticket_head,
          granted_pty, due, pty_owners>>

Ticket == [timestamp  : Nat,
           identifier : Identifiers,
           operation  : SUBSET Operations]

Init ==
  /\ now = 0
  /\ live \in (SUBSET Pids) \ {{}}
  /\ born = live
  /\ reservation = [p \in Pids |-> <<>>]
  /\ reserved_pty = [p \in Pids |-> FALSE]
  /\ ticket_head = [p \in Pids |-> <<>>]
  /\ granted_pty = [p \in Pids |-> FALSE]
  /\ due = [p \in Pids |-> {}]
  /\ pty_owners = {}

-----------------------------------------------------------------------------
(* insert_ticket.                                                          *)

\* Mutant of NewTicket: stamped with the time that has expired at its issue.
NewTicketStampedLow(i, op) ==
  [timestamp |-> now + 1 - Expiry, identifier |-> i, operation |-> op]

NewTicket(i, op) == [timestamp |-> now + 1, identifier |-> i, operation |-> op]

\* A record for process p is processed.  Two calls of ktime_get never return
\* the same value, so the clock moves with every ticket.  ok is FALSE when
\* the allocation of the ticket fails, which is after a PTY grant took effect.
insert_ticket(p, i, op, ok) ==
  /\ now < MaxClock
  /\ p \in born
  /\ now' = now + 1
  /\ LET t == NewTicket(i, op)
         queued == op # {PTY} /\ ok
     IN /\ reservation' = [reservation EXCEPT
              ![p] = IF queued THEN Append(@, t) ELSE @]
        /\ due' = [due EXCEPT
              ![p] = IF queued /\ p \in live THEN @ \union {t} ELSE @]
  /\ reserved_pty' = [reserved_pty EXCEPT ![p] = @ \/ PTY \in op]
  /\ pty_owners' = IF PTY \in op /\ p \in live
                     THEN pty_owners \union {p} ELSE pty_owners
  /\ UNCHANGED <<live, born, ticket_head, granted_pty>>

-----------------------------------------------------------------------------
(* check_ticket_cache.                                                     *)

\* Mutant of Spliced: the reserved list goes in front.
SplicedInFront(p) == reservation[p] \o ticket_head[p]

\* The task's list with the reserved list spliced on behind it.
Spliced(p) == ticket_head[p] \o reservation[p]

Expired(t) == t.timestamp <= now - Expiry

\* The element that s[i].next points to.
NextOf(s, i) == s[IF i = Len(s) THEN 1 ELSE i + 1]

\* Mutant of Continue: the timestamp is not compared with the threshold.
ContinueUnexpired(s, i) == s[i].timestamp < NextOf(s, i).timestamp

\* The condition under which the expiry loop moves on from s[i].
Continue(s, i) ==
  Expired(s[i]) /\ s[i].timestamp < NextOf(s, i).timestamp

\* The element at which the expiry loop stops.
StopsAt(s, i) ==
  ~Continue(s, i) /\ \A j \in 1..(i - 1) : Continue(s, j)
Stop(s) == CHOOSE i \in DOMAIN s : StopsAt(s, i)

RemoveExpired(s) ==
  IF s = <<>> \/ Expired(s[Stop(s)]) THEN <<>>
                                     ELSE SubSeq(s, Stop(s), Len(s))

\* Mutant of check_ticket_cache: a claim without a PTY takes the PTY away.
check_ticket_cache_pty(p) ==
  /\ p \in live
  /\ granted_pty' = [granted_pty EXCEPT ![p] = reserved_pty[p]]
  /\ reserved_pty' = [reserved_pty EXCEPT ![p] = FALSE]
  /\ ticket_head' = [ticket_head EXCEPT ![p] = RemoveExpired(Spliced(p))]
  /\ reservation' = [reservation EXCEPT ![p] = <<>>]
  /\ UNCHANGED <<now, live, born, due, pty_owners>>

\* A hook run by the thread-group leader: its PID finds the reservation.
check_ticket_cache(p) ==
  /\ p \in live
  /\ granted_pty' = [granted_pty EXCEPT ![p] = @ \/ reserved_pty[p]]
  /\ reserved_pty' = [reserved_pty EXCEPT ![p] = FALSE]
  /\ ticket_head' = [ticket_head EXCEPT ![p] = RemoveExpired(Spliced(p))]
  /\ reservation' = [reservation EXCEPT ![p] = <<>>]
  /\ UNCHANGED <<now, live, born, due, pty_owners>>

\* A hook run by another thread of p: the thread shares the credentials, but
\* no reservation is filed under its thread ID, so it only drops tickets.
check_ticket_cache_thread(p) ==
  /\ p \in live
  /\ ticket_head' = [ticket_head EXCEPT ![p] = RemoveExpired(@)]
  /\ UNCHANGED <<now, live, born, reservation, reserved_pty, granted_pty,
                 due, pty_owners>>

-----------------------------------------------------------------------------
(* The ticket search of can_access and shm_can_access.                     *)

\* The search reaches s[i]: timestamps have grown from 0 up to it.
Reaches(s, i) ==
  /\ s[1].timestamp > 0
  /\ \A j \in 1..(i - 1) : s[j].timestamp < s[j + 1].timestamp

Matches(t, i, op) == t.identifier = i /\ op \in t.operation

Found(s, i, op) == \E k \in DOMAIN s : Reaches(s, k) /\ Matches(s[k], i, op)

-----------------------------------------------------------------------------
(* Credentials and processes.                                              *)

\* Mutant of fork: the child takes over the parent's list of tickets.
fork_with_tickets(p, c) ==
  /\ p \in live
  /\ c \notin live
  /\ PidReuse \/ c \notin born
  /\ live' = live \union {c}
  /\ born' = born \union {c}
  /\ ticket_head' = [ticket_head EXCEPT ![c] = ticket_head[p]]
  /\ granted_pty' = [granted_pty EXCEPT ![c] = granted_pty[p]]
  /\ due' = [due EXCEPT ![c] = {}]
  /\ pty_owners' = IF granted_pty[p] THEN pty_owners \union {c}
                                     ELSE pty_owners
  /\ UNCHANGED <<now, reservation, reserved_pty>>

\* fork: the child's credentials are prepared from the parent's; a PTY
\* grant is inherited and tickets are not.
fork(p, c) ==
  /\ p \in live
  /\ c \notin live
  /\ PidReuse \/ c \notin born
  /\ live' = live \union {c}
  /\ born' = born \union {c}
  /\ ticket_head' = [ticket_head EXCEPT ![c] = <<>>]
  /\ granted_pty' = [granted_pty EXCEPT ![c] = granted_pty[p]]
  /\ due' = [due EXCEPT ![c] = {}]
  /\ pty_owners' = IF granted_pty[p] THEN pty_owners \union {c}
                                     ELSE pty_owners
  /\ UNCHANGED <<now, reservation, reserved_pty>>

Elements(s) == {s[i] : i \in DOMAIN s}

\* exec or setuid: new credentials are prepared from the process's own.
replace_cred(p) ==
  /\ p \in live
  /\ ticket_head' = [ticket_head EXCEPT ![p] = <<>>]
  /\ due' = [due EXCEPT ![p] = @ \intersect Elements(reservation[p])]
  /\ UNCHANGED <<now, live, born, reservation, reserved_pty, granted_pty,
                 pty_owners>>

\* trm_task_free and trm_cred_free have no effect on the cache.
exit(p) ==
  /\ p \in live
  /\ live' = live \ {p}
  /\ ticket_head' = [ticket_head EXCEPT ![p] = <<>>]
  /\ granted_pty' = [granted_pty EXCEPT ![p] = FALSE]
  /\ due' = [due EXCEPT ![p] = {}]
  /\ pty_owners' = pty_owners \ {p}
  /\ UNCHANGED <<now, born, reservation, reserved_pty>>

Tick ==
  /\ now < MaxClock
  /\ now' = now + 1
  /\ UNCHANGED <<live, born, reservation, reserved_pty, ticket_head,
                 granted_pty, due, pty_owners>>

Next ==
  \/ \E p \in Pids, i \in Identifiers, op \in (SUBSET Operations) \ {{}},
        ok \in BOOLEAN : insert_ticket(p, i, op, ok)
  \/ \E p \in Pids : \/ check_ticket_cache(p)
                     \/ check_ticket_cache_thread(p)
                     \/ replace_cred(p)
                     \/ exit(p)
  \/ \E p, c \in Pids : fork(p, c)
  \/ Tick

Spec == Init /\ [][Next]_vars

-----------------------------------------------------------------------------
(* Properties.                                                             *)

TypeOK ==
  /\ now \in Nat
  /\ live \in SUBSET Pids
  /\ born \in SUBSET Pids
  /\ reservation \in [Pids -> Seq(Ticket)]
  /\ reserved_pty \in [Pids -> BOOLEAN]
  /\ ticket_head \in [Pids -> Seq(Ticket)]
  /\ granted_pty \in [Pids -> BOOLEAN]
  /\ due \in [Pids -> SUBSET Ticket]
  /\ pty_owners \in SUBSET Pids

\* Timestamps grow along a list.
Ordered(s) ==
  \A i, j \in DOMAIN s : i < j => s[i].timestamp < s[j].timestamp

\* The tickets of a process followed by those reserved for it are in the
\* order of their timestamps, and none is from the future.  Every loop over
\* a list (the count and the expiry in check_ticket_cache, the searches of
\* can_access and shm_can_access) takes a timestamp that does not grow for
\* the end of the list.
RingOrdered ==
  \A p \in Pids :
    /\ Ordered(Spliced(p))
    /\ \A t \in Elements(Spliced(p)) : t.timestamp \in 1..now

\* What the list of p would be after the housekeeping at the start of a hook
\* run now.
Held(p) == RemoveExpired(Spliced(p))

\* At every hook the code grants an operation exactly when the enclave issued
\* this process a ticket for it less than Expiry ago and the process has not
\* replaced its credentials since claiming it: no ticket is lost, outlives
\* its time, is hidden from the search or serves another process.
DecisionExact ==
  \A p \in live, i \in Identifiers, op \in Operations :
    Found(Held(p), i, op) <=> \E t \in due[p] : ~Expired(t) /\ Matches(t, i, op)

\* The half of DecisionExact that holds even when PIDs are reused: a ticket
\* issued to a running process opens what it is for until it expires.
NoTicketLost ==
  \A p \in live, i \in Identifiers, op \in Operations :
    (\E t \in due[p] : ~Expired(t) /\ Matches(t, i, op)) => Found(Held(p), i, op)

\* A process has a PTY only when the enclave granted it to the process or
\* to one it descends from, and a grant is never lost.
PtyExact ==
  \A p \in live : (granted_pty[p] \/ reserved_pty[p]) <=> p \in pty_owners

\* The tickets and the PTY right of a process were issued to that process and
\* not to an earlier one with its PID ("Remove entries from the ticket
\* cache", trm_task_free).
HoldsOnlyOwn ==
  \A p \in live :
    /\ Elements(ticket_head[p]) \subseteq due[p]
    /\ granted_pty[p] => p \in pty_owners
=============================================================================
