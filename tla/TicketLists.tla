---------------------------- MODULE TicketLists -----------------------------
(***************************************************************************)
(* The circular lists of TicketRing implement the sequences of module      *)
(* TicketCache.                                                            *)
(***************************************************************************)
EXTENDS TicketRing

\* Following next from head visits s and returns to head, for the first time.
Visits(head, s) ==
  /\ s[1] = head
  /\ \A k \in 1..(Len(s) - 1) : mem.next[s[k]] = s[k + 1] /\ s[k + 1] # head
  /\ mem.next[s[Len(s)]] = head

\* The list behind head.
Visited(head) ==
  IF head = NULL THEN <<>>
  ELSE CHOOSE s \in UNION {[1..n -> valid] : n \in Addr} : Visits(head, s)

\* A ticket of TicketCache.  All are for the same object and operation, which
\* the pointers do not depend on.
TicketAt(a) ==
  [timestamp |-> mem.timestamp[a], identifier |-> "object", operation |-> {"open"}]

\* The one process that the lists are for.
ForProcess(v) == [p \in {1} |-> v]

\* Between calls, a list of TicketCache is read from memory.
ListOf(head, want_list) ==
  LET s == IF Idle THEN Visited(head) ELSE want_list
  IN  ForProcess([k \in DOMAIN s |-> TicketAt(s[k])])

Cache == INSTANCE TicketCache WITH
  Pids <- {1}, Identifiers <- {"object"}, Operations <- {"open", "pty"}, PTY <- "pty",
  PidReuse <- FALSE, live <- {1}, born <- {1},
  reservation <- ListOf(res_head, want_res),
  ticket_head <- ListOf(task_head, want_task),
  due <- ForProcess({TicketAt(a) : a \in 1..allocated}),
  reserved_pty <- ForProcess(FALSE), granted_pty <- ForProcess(FALSE), pty_owners <- {}

\* The pointers implement the sequences: run one after the other, insert_ticket
\* and check_ticket_cache are steps of TicketCache, which append a ticket, or
\* claim the reserved list and drop the expired tickets at one moment.
ImplementsCache == Cache!Spec
=============================================================================
