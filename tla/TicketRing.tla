----------------------------- MODULE TicketRing -----------------------------
(***************************************************************************)
(* The circular lists of the ticket cache, pointer by pointer, for one     *)
(* process: insert_ticket runs in the daemon's write to the update file,   *)
(* check_ticket_cache in a hook of the process the tickets are for.  A     *)
(* step stores to one ticket or one list head.  The code takes no lock;    *)
(* Interleaved says whether the two functions can overlap, as they do on   *)
(* two CPUs, or run one after the other.  Stores take effect in program    *)
(* order.                                                                  *)
(***************************************************************************)
EXTENDS Integers, Sequences, FiniteSets

CONSTANTS
  MaxTickets,   \* bound on the number of tickets allocated
  Expiry,       \* _CITADEL_TICKET_EXPIRY
  MaxClock,     \* bound on the clock
  Interleaved

ASSUME RingAssumption ==
  /\ MaxTickets \in Nat \ {0}
  /\ Expiry \in Nat \ {0}
  /\ MaxClock \in Nat
  /\ Interleaved \in BOOLEAN

NULL == 0
Addr == 1..MaxTickets
Ptr == Addr \union {NULL}

VARIABLES
  now,          \* ktime_get()
  mem,          \* the fields next, prev and timestamp of each ticket
  valid,        \* the tickets kzalloc has returned and kfree not yet taken
  allocated,    \* how many tickets kzalloc has returned
  res_head,     \* reservation_node->ticket_head
  task_head,    \* task_data->ticket_head
  ins,          \* insert_ticket: its program counter and local variables
  chk,          \* check_ticket_cache: its program counter and local variables
  fault,        \* an invalid pointer was dereferenced
  want_res,     \* history: the tickets the reserved list should hold
  want_task     \* history: the tickets the task's list should hold; a call of
                \* check_ticket_cache takes effect when it reads the clock

want == <<want_res, want_task>>
vars == <<now, mem, valid, allocated, res_head, task_head, ins, chk, fault, want>>

Init ==
  /\ now = 0
  /\ mem = [next |-> [a \in Ptr |-> NULL], prev |-> [a \in Ptr |-> NULL],
            timestamp |-> [a \in Ptr |-> 0]]
  /\ valid = {}
  /\ allocated = 0
  /\ res_head = NULL
  /\ task_head = NULL
  /\ ins = [pc |-> "idle", ticket |-> NULL, current |-> NULL]
  /\ chk = [pc |-> "idle", current |-> NULL, initial |-> NULL,
            threshold |-> 0, count |-> 0]
  /\ fault = FALSE
  /\ want_res = <<>>
  /\ want_task = <<>>

\* A step dereferences the pointers in S.
Touches(S) == fault' = ~(S \subseteq valid)

-----------------------------------------------------------------------------
(* insert_ticket, from the allocation of the ticket on.                    *)

insert_ticket ==
  /\ ins.pc = "idle"
  /\ Interleaved \/ chk.pc = "idle"
  /\ now < MaxClock /\ allocated < MaxTickets
  /\ now' = now + 1
  /\ allocated' = allocated + 1
  /\ valid' = valid \union {allocated'}
  /\ mem' = [mem EXCEPT !.timestamp[allocated'] = now']
  /\ ins' = [pc |-> IF res_head = NULL THEN "first" ELSE "tail",
             ticket |-> allocated', current |-> res_head]
  /\ want_res' = Append(want_res, allocated')
  /\ UNCHANGED <<res_head, task_head, chk, fault, want_task>>

\* reservation_node->ticket_head = ticket
first_head ==
  /\ ins.pc = "first"
  /\ res_head' = ins.ticket
  /\ ins' = [ins EXCEPT !.pc = "first_next"]
  /\ UNCHANGED <<now, mem, valid, allocated, task_head, chk, fault, want>>

\* A statement of insert_ticket that dereferences ptrs and leaves m in memory.
InsertStep(from, to, ptrs, m) ==
  /\ ins.pc = from
  /\ Touches(ptrs)
  /\ mem' = m
  /\ ins' = [ins EXCEPT !.pc = to]
  /\ UNCHANGED <<now, valid, allocated, res_head, task_head, chk, want>>

\* ticket->next = ticket
first_next == InsertStep("first_next", "first_prev", {ins.ticket},
                         [mem EXCEPT !.next[ins.ticket] = ins.ticket])

\* ticket->prev = ticket
first_prev == InsertStep("first_prev", "idle", {ins.ticket},
                         [mem EXCEPT !.prev[ins.ticket] = ins.ticket])

\* tmp = current_ticket->prev; current_ticket->prev = ticket;
\* current_ticket = tmp
tail_prev ==
  /\ ins.pc = "tail"
  /\ Touches({ins.current})
  /\ mem' = [mem EXCEPT !.prev[ins.current] = ins.ticket]
  /\ ins' = [ins EXCEPT !.pc = "wire_new", !.current = mem.prev[ins.current]]
  /\ UNCHANGED <<now, valid, allocated, res_head, task_head, chk, want>>

\* Mutant of wire_new: ticket->prev is not set.
wire_new_next == InsertStep("wire_new", "wire_tail", {ins.current, ins.ticket},
                            [mem EXCEPT !.next[ins.ticket] = mem.next[ins.current]])

\* ticket->next = current_ticket->next; ticket->prev = current_ticket
wire_new == InsertStep("wire_new", "wire_tail", {ins.current, ins.ticket},
                       [mem EXCEPT !.next[ins.ticket] = mem.next[ins.current],
                                   !.prev[ins.ticket] = ins.current])

\* current_ticket->next = ticket
wire_tail == InsertStep("wire_tail", "idle", {ins.current},
                        [mem EXCEPT !.next[ins.current] = ins.ticket])

insert_steps == \/ insert_ticket \/ first_head \/ first_next \/ first_prev
                \/ tail_prev \/ wire_new \/ wire_tail

-----------------------------------------------------------------------------
(* check_ticket_cache: claiming the reserved list.                         *)

check_ticket_cache ==
  /\ chk.pc = "idle"
  /\ Interleaved \/ ins.pc = "idle"
  /\ chk' = [chk EXCEPT !.pc = IF res_head = NULL THEN "expire" ELSE "count",
                        !.current = res_head]
  /\ UNCHANGED <<now, mem, valid, allocated, res_head, task_head, ins, fault, want>>

\* Statements of check_ticket_cache that only change local variables.
CheckStep(ptrs, locals) ==
  /\ Touches(ptrs)
  /\ chk' = locals
  /\ UNCHANGED <<now, mem, valid, allocated, res_head, task_head, ins, want>>

\* Mutant of count_tickets: the loop compares with <=.
count_tickets_le ==
  /\ chk.pc = "count"
  /\ LET n == mem.next[chk.current]
         more == mem.timestamp[chk.current] <= mem.timestamp[n]
     IN CheckStep({chk.current, n},
                  IF more THEN [chk EXCEPT !.current = n]
                  ELSE [chk EXCEPT !.pc = IF task_head = NULL THEN "take"
                                                              ELSE "splice"])

\* while (current_ticket->timestamp < current_ticket->next->timestamp)
count_tickets ==
  /\ chk.pc = "count"
  /\ LET n == mem.next[chk.current]
         more == mem.timestamp[chk.current] < mem.timestamp[n]
     IN CheckStep({chk.current, n},
                  IF more THEN [chk EXCEPT !.current = n]
                  ELSE [chk EXCEPT !.pc = IF task_head = NULL THEN "take"
                                                              ELSE "splice"])

\* task_data->ticket_head = reservation_node->ticket_head
take_list ==
  /\ chk.pc = "take"
  /\ task_head' = res_head
  /\ chk' = [chk EXCEPT !.pc = "clear"]
  /\ UNCHANGED <<now, mem, valid, allocated, res_head, ins, fault, want>>

\* current_ticket = reservation_node->ticket_head->prev;
\* reservation_node->ticket_head->prev = task_data->ticket_head->prev
splice_prev ==
  /\ chk.pc = "splice"
  /\ Touches({res_head, task_head})
  /\ mem' = [mem EXCEPT !.prev[res_head] = mem.prev[task_head]]
  /\ chk' = [chk EXCEPT !.pc = "splice_c", !.current = mem.prev[res_head]]
  /\ UNCHANGED <<now, valid, allocated, res_head, task_head, ins, want>>

\* A statement of the splice that leaves m in memory.
SpliceStep(from, to, ptrs, m) ==
  /\ chk.pc = from
  /\ Touches(ptrs)
  /\ mem' = m
  /\ chk' = [chk EXCEPT !.pc = to]
  /\ UNCHANGED <<now, valid, allocated, res_head, task_head, ins, want>>

\* current_ticket->next = task_data->ticket_head
splice_c == SpliceStep("splice_c", "splice_e", {chk.current},
                       [mem EXCEPT !.next[chk.current] = task_head])

\* task_data->ticket_head->prev->next = reservation_node->ticket_head
splice_e == SpliceStep("splice_e", "splice_d", {task_head, mem.prev[task_head]},
                       [mem EXCEPT !.next[mem.prev[task_head]] = res_head])

\* Mutant of splice_d: the store is missing.
splice_d_missing == SpliceStep("splice_d", "clear", {task_head}, mem)

\* task_data->ticket_head->prev = current_ticket
splice_d == SpliceStep("splice_d", "clear", {task_head},
                       [mem EXCEPT !.prev[task_head] = chk.current])

\* reservation_node->ticket_head = NULL
clear_head ==
  /\ chk.pc = "clear"
  /\ res_head' = NULL
  /\ chk' = [chk EXCEPT !.pc = "expire"]
  /\ UNCHANGED <<now, mem, valid, allocated, task_head, ins, fault, want>>

-----------------------------------------------------------------------------
(* check_ticket_cache: removing expired tickets.                           *)

\* The tickets of s that have not expired, in the order of s.
SelectUnexpired(s) ==
  LET kept == {i \in DOMAIN s : mem.timestamp[s[i]] > now - Expiry}
  IN  [k \in 1..Cardinality(kept) |->
         s[CHOOSE i \in kept : Cardinality({j \in kept : j <= i}) = k]]

start_expiry ==
  /\ chk.pc = "expire"
  /\ chk' = IF task_head = NULL THEN [chk EXCEPT !.pc = "idle"]
            ELSE [pc |-> "walk", current |-> task_head, initial |-> task_head,
                  threshold |-> now - Expiry, count |-> 0]
  /\ want_task' = SelectUnexpired(want_task \o want_res)
  /\ want_res' = <<>>
  /\ UNCHANGED <<now, mem, valid, allocated, res_head, task_head, ins, fault>>

\* Mutant of CurrentExpired: the threshold itself has not expired.
CurrentExpired_lt == mem.timestamp[chk.current] < chk.threshold

\* current_ticket->timestamp <= expiry_threshold
CurrentExpired == mem.timestamp[chk.current] <= chk.threshold

\* ... && current_ticket->timestamp < current_ticket->next->timestamp
CurrentMoves ==
  /\ CurrentExpired
  /\ mem.timestamp[chk.current] < mem.timestamp[mem.next[chk.current]]

\* An iteration of the loop over the expired tickets.
walk_expired ==
  /\ chk.pc = "walk"
  /\ CurrentMoves
  /\ CheckStep({chk.current, mem.next[chk.current]},
               [chk EXCEPT !.current = mem.next[chk.current], !.count = @ + 1])

\* The loop ends on an expired ticket: task_data->ticket_head = NULL
drop_list ==
  /\ chk.pc = "walk"
  /\ CurrentExpired /\ ~CurrentMoves
  /\ Touches({chk.current, mem.next[chk.current]})
  /\ task_head' = NULL
  /\ chk' = [chk EXCEPT !.pc = "free", !.count = @ + 1]
  /\ UNCHANGED <<now, mem, valid, allocated, res_head, ins, want>>

\* The loop ends on a ticket that is still good.
keep_rest ==
  /\ chk.pc = "walk"
  /\ ~CurrentExpired
  /\ CheckStep({chk.current},
               [chk EXCEPT !.pc = IF chk.count > 0 THEN "relink" ELSE "idle"])

\* current_ticket->prev = task_data->ticket_head->prev
relink_prev == SpliceStep("relink", "relink_next", {chk.current, task_head},
                          [mem EXCEPT !.prev[chk.current] = mem.prev[task_head]])

\* task_data->ticket_head->prev->next = current_ticket
relink_next == SpliceStep("relink_next", "relink_head",
                          {task_head, mem.prev[task_head]},
                          [mem EXCEPT !.next[mem.prev[task_head]] = chk.current])

\* Mutant of relink_head: the head keeps the first expired ticket.
relink_head_missing ==
  /\ chk.pc = "relink_head"
  /\ chk' = [chk EXCEPT !.pc = "free"]
  /\ UNCHANGED <<now, mem, valid, allocated, res_head, task_head, ins, fault, want>>

\* task_data->ticket_head = current_ticket
relink_head ==
  /\ chk.pc = "relink_head"
  /\ task_head' = chk.current
  /\ chk' = [chk EXCEPT !.pc = "free"]
  /\ UNCHANGED <<now, mem, valid, allocated, res_head, ins, fault, want>>

\* Mutant of free_ticket: the loop runs once too often.
free_ticket_more ==
  /\ chk.pc = "free"
  /\ Touches({chk.initial})
  /\ valid' = valid \ {chk.initial}
  /\ chk' = [chk EXCEPT !.pc = IF chk.count = 0 THEN "idle" ELSE "free",
                        !.current = chk.initial,
                        !.initial = mem.next[chk.initial], !.count = @ - 1]
  /\ UNCHANGED <<now, mem, allocated, res_head, task_head, ins, want>>

\* current_ticket = initial_ticket; initial_ticket = initial_ticket->next;
\* kfree(current_ticket)
free_ticket ==
  /\ chk.pc = "free"
  /\ Touches({chk.initial})
  /\ valid' = valid \ {chk.initial}
  /\ chk' = [chk EXCEPT !.pc = IF chk.count = 1 THEN "idle" ELSE "free",
                        !.current = chk.initial,
                        !.initial = mem.next[chk.initial], !.count = @ - 1]
  /\ UNCHANGED <<now, mem, allocated, res_head, task_head, ins, want>>

check_steps == \/ count_tickets \/ take_list \/ splice_prev \/ splice_c
               \/ splice_e \/ splice_d \/ clear_head \/ start_expiry
               \/ walk_expired \/ drop_list \/ keep_rest \/ relink_prev
               \/ relink_next \/ relink_head \/ free_ticket

-----------------------------------------------------------------------------
Tick ==
  /\ now < MaxClock
  /\ now' = now + 1
  /\ UNCHANGED <<mem, valid, allocated, res_head, task_head, ins, chk, fault, want>>

\* A bad dereference ends the behaviour.
Next ==
  /\ ~fault
  /\ insert_steps \/ check_ticket_cache \/ check_steps \/ Tick

\* A hook that is running keeps running.
Fairness == WF_vars(~fault /\ check_steps)

Spec == Init /\ [][Next]_vars /\ Fairness

-----------------------------------------------------------------------------
(* Properties.                                                             *)

TypeOK ==
  /\ now \in 0..MaxClock
  /\ mem \in [next : [Ptr -> Ptr], prev : [Ptr -> Ptr],
              timestamp : [Ptr -> 0..MaxClock]]
  /\ valid \subseteq 1..allocated
  /\ allocated \in 0..MaxTickets
  /\ {res_head, task_head, ins.ticket, ins.current,
      chk.current, chk.initial} \subseteq Ptr
  /\ chk.count \in 0..MaxTickets
  /\ {want_res, want_task} \subseteq Seq(Addr)

Idle == ins.pc = "idle" /\ chk.pc = "idle"

\* The list behind head is the circular list of the tickets in s: following
\* next from the head visits s in order and returns, and prev goes back.
IsRing(head, s) ==
  LET n == Len(s)
      Succ(i) == IF i = n THEN 1 ELSE i + 1
  IN IF n = 0 THEN head = NULL
     ELSE /\ head = s[1]
          /\ \A i \in 1..n : /\ s[i] \in valid
                             /\ mem.next[s[i]] = s[Succ(i)]
                             /\ mem.prev[s[Succ(i)]] = s[i]

\* Between calls the two lists are exactly the lists that appending each new
\* ticket, claiming the reserved ones and dropping the expired ones make:
\* the pointer assignments of insert_ticket and check_ticket_cache ("After:
\* (a) -> (b) -> (c) -> (d) -> (e) -> (a) ...") lose no ticket, keep none
\* twice, and free what they drop and nothing else.
RingsMatch ==
  Idle => /\ IsRing(res_head, want_res)
          /\ IsRing(task_head, want_task)
          /\ valid = {want_res[i] : i \in DOMAIN want_res} \union
                     {want_task[i] : i \in DOMAIN want_task}

\* Between calls every ticket that is not at the head of a list comes right
\* after an older one ("Wire new ticket into the end of the list",
\* insert_ticket): no ticket is lost between the lists, and none stands where
\* a search by growing timestamps would not reach it.
WiredAtEnd ==
  Idle => \A a \in valid \ {res_head, task_head} :
            LET p == mem.prev[a]
            IN p \in valid /\ mem.next[p] = a /\ mem.timestamp[p] < mem.timestamp[a]

\* insert_ticket and check_ticket_cache only follow pointers to tickets that
\* are allocated and linked.
NoBadPointer == ~fault

\* The loops of check_ticket_cache, none of which counts or looks for the
\* list head, end.
CheckReturns == chk.pc # "idle" ~> chk.pc = "idle"
=============================================================================
