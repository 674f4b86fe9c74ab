-------------------------- MODULE TicketRingProofs --------------------------
(***************************************************************************)
(* Proofs about TicketRing, for every number of tickets, every expiry time *)
(* and every bound on the clock, when insert_ticket and check_ticket_cache *)
(* run one after the other (the run with Interleaved = TRUE shows that the *)
(* properties fail when they overlap).                                     *)
(*                                                                         *)
(* Tickets are numbered in the order of their allocation, and timestamps   *)
(* grow with it.  So each list holds an interval of tickets at all times:  *)
(* the tickets up to Gone are dropped, those up to Claimed are the task's  *)
(* and the others are reserved.  The inductive invariant says, for every   *)
(* place a call can be at, which pointers of the two rings already have    *)
(* their new value and which still have the old one.                       *)
(***************************************************************************)
EXTENDS TicketRing, TLAPS

Claimed == allocated - Len(want_res)
Gone == Claimed - Len(want_task)

\* The history variables are intervals of tickets.
Numbered ==
  /\ Gone \in Nat
  /\ want_res = [i \in 1..Len(want_res) |-> Claimed + i]
  /\ want_task = [i \in 1..Len(want_task) |-> Gone + i]

Stamped ==
  /\ \A a \in 1..allocated : mem.timestamp[a] \in 1..now
  /\ \A a, b \in 1..allocated : a < b => mem.timestamp[a] < mem.timestamp[b]

\* In memory m the tickets a..b are linked by next, by prev, and into a
\* circular list.
Forward(m, a, b) == \A i \in a..(b - 1) : m.next[i] = i + 1
Back(m, a, b) == \A i \in a..(b - 1) : m.prev[i + 1] = i
Ring(m, a, b) == /\ Forward(m, a, b) /\ Back(m, a, b)
                 /\ m.next[b] = a /\ m.prev[a] = b

\* The list behind head holds the tickets a..b.
List(m, head, a, b) == IF a <= b THEN head = a /\ Ring(m, a, b) ELSE head = NULL

InsertPcs == {"idle", "first", "first_next", "first_prev", "tail", "wire_new", "wire_tail"}
SplicePcs == {"splice_c", "splice_e", "splice_d"}
RelinkPcs == {"relink", "relink_next", "relink_head"}
ExpiryPcs == RelinkPcs \union {"walk", "free"}
CheckPcs == {"idle", "count", "take", "splice", "clear", "expire"}
              \union SplicePcs \union ExpiryPcs

Locals ==
  /\ ins \in [pc : InsertPcs, ticket : Ptr, current : Ptr]
  /\ chk \in [pc : CheckPcs, current : Ptr, initial : Ptr, threshold : Int,
              count : 0..MaxTickets]

\* The oldest ticket that is not freed.
First == IF chk.pc \in ExpiryPcs THEN chk.initial ELSE Gone + 1

\* The pointers while insert_ticket runs.
Inserting ==
  /\ ins.pc # "idle" => /\ chk.pc = "idle"
                        /\ ins.ticket = allocated
                        /\ Claimed < allocated
                        /\ List(mem, task_head, Gone + 1, Claimed)
  /\ ins.pc \in {"first", "first_next", "first_prev"} => Claimed + 1 = allocated
  /\ ins.pc \in {"first_next", "first_prev"} => res_head = allocated
  /\ ins.pc = "first_prev" => mem.next[allocated] = allocated
  /\ ins.pc \in {"tail", "wire_new", "wire_tail"} =>
       /\ res_head = Claimed + 1
       /\ Claimed + 1 < allocated
       /\ Forward(mem, Claimed + 1, allocated - 1)
       /\ Back(mem, Claimed + 1, allocated - 1)
       /\ mem.next[allocated - 1] = Claimed + 1
  /\ ins.pc = "tail" => /\ ins.current = Claimed + 1
                        /\ mem.prev[Claimed + 1] = allocated - 1
  /\ ins.pc \in {"wire_new", "wire_tail"} => /\ ins.current = allocated - 1
                                             /\ mem.prev[Claimed + 1] = allocated
  /\ ins.pc = "wire_tail" => /\ mem.next[allocated] = Claimed + 1
                             /\ mem.prev[allocated] = allocated - 1

\* The pointers between calls and while check_ticket_cache claims the
\* reserved list.
Claiming ==
  /\ chk.pc # "idle" => ins.pc = "idle"
  /\ ins.pc = "idle" /\ chk.pc \in {"idle", "count", "take", "splice"} =>
       /\ List(mem, res_head, Claimed + 1, allocated)
       /\ List(mem, task_head, Gone + 1, Claimed)
  /\ chk.pc \in {"count", "take", "splice"} \union SplicePcs => Claimed < allocated
  /\ chk.pc = "count" => chk.current > Claimed /\ chk.current <= allocated
  /\ chk.pc = "take" => Gone = Claimed
  /\ chk.pc \in {"splice"} \union SplicePcs => Gone < Claimed
  /\ chk.pc \in SplicePcs =>
       /\ res_head = Claimed + 1 /\ task_head = Gone + 1
       /\ chk.current = allocated
       /\ Forward(mem, Gone + 1, Claimed) /\ Back(mem, Gone + 1, Claimed)
       /\ Forward(mem, Claimed + 1, allocated) /\ Back(mem, Claimed + 1, allocated)
       /\ mem.prev[Gone + 1] = Claimed /\ mem.prev[Claimed + 1] = Claimed
  /\ chk.pc \in {"splice_e", "splice_d"} => mem.next[allocated] = Gone + 1
  /\ chk.pc = "splice_d" => mem.next[Claimed] = Claimed + 1
  /\ chk.pc \in {"clear", "expire"} => List(mem, task_head, Gone + 1, allocated)
  /\ chk.pc = "expire" => res_head = NULL

\* The pointers while check_ticket_cache removes the expired tickets, which
\* are those up to Gone.
Expiring ==
  /\ chk.pc \in ExpiryPcs => /\ res_head = NULL
                             /\ Claimed = allocated
                             /\ chk.initial > 0 /\ chk.initial <= allocated
  /\ chk.pc \in RelinkPcs \union {"walk"} =>
       /\ task_head = chk.initial
       /\ chk.current = chk.initial + chk.count
       /\ chk.current <= allocated /\ chk.current <= Gone + 1
       /\ Forward(mem, chk.initial, allocated)
  /\ chk.pc \in {"walk", "relink"} => Ring(mem, chk.initial, allocated)
  /\ chk.pc = "walk" =>
       \A a \in 1..allocated :
         a >= chk.initial => (mem.timestamp[a] <= chk.threshold <=> a <= Gone)
  /\ chk.pc \in RelinkPcs => chk.current = Gone + 1 /\ chk.count > 0
  /\ chk.pc \in {"relink_next", "relink_head"} =>
       /\ Back(mem, Gone + 1, allocated)
       /\ mem.prev[Gone + 1] = allocated /\ mem.prev[chk.initial] = allocated
  /\ chk.pc = "relink_head" => mem.next[allocated] = Gone + 1
  /\ chk.pc = "free" => /\ List(mem, task_head, Gone + 1, allocated)
                        /\ chk.initial <= Gone
                        /\ chk.count = Gone + 1 - chk.initial
                        /\ Forward(mem, chk.initial, Gone)

\* The inductive invariant.
IInv ==
  /\ TypeOK /\ Locals /\ ~fault
  /\ valid = First..allocated
  /\ Numbered /\ Stamped
  /\ Inserting /\ Claiming /\ Expiring

USE RingAssumption

-----------------------------------------------------------------------------
(* Memory.                                                                 *)

Memory == [next : [Ptr -> Ptr], prev : [Ptr -> Ptr], timestamp : [Ptr -> 0..MaxClock]]

LEMMA InPtr == \A i \in Int : 0 <= i /\ i <= MaxTickets => i \in Ptr
BY DEF Ptr, Addr, NULL

LEMMA MemoryTypes ==
  ASSUME mem \in Memory
  PROVE  /\ \A a \in Ptr : mem.next[a] \in Ptr /\ mem.prev[a] \in Ptr
         /\ \A a \in Ptr : mem.timestamp[a] \in 0..MaxClock
BY DEF Memory

\* A store to the field next of a ticket.
LEMMA StoreNext ==
  ASSUME mem \in Memory, NEW x \in Ptr, NEW y \in Ptr,
         mem' = [mem EXCEPT !.next[x] = y]
  PROVE  /\ mem' \in Memory
         /\ mem'.next[x] = y
         /\ \A a \in Ptr : a # x => mem'.next[a] = mem.next[a]
         /\ mem'.prev = mem.prev
         /\ mem'.timestamp = mem.timestamp
BY DEF Memory

\* A store to the field prev.
LEMMA StorePrev ==
  ASSUME mem \in Memory, NEW x \in Ptr, NEW y \in Ptr,
         mem' = [mem EXCEPT !.prev[x] = y]
  PROVE  /\ mem' \in Memory
         /\ mem'.prev[x] = y
         /\ \A a \in Ptr : a # x => mem'.prev[a] = mem.prev[a]
         /\ mem'.next = mem.next
         /\ mem'.timestamp = mem.timestamp
BY DEF Memory

-----------------------------------------------------------------------------
(* Consequences of the invariant.                                          *)

LEMMA Bounds ==
  ASSUME IInv
  PROVE  /\ mem \in Memory
         /\ allocated \in Nat /\ Claimed \in Nat /\ Gone \in Nat
         /\ Gone <= Claimed /\ Claimed <= allocated /\ allocated <= MaxTickets
         /\ Len(want_res) = allocated - Claimed
         /\ Len(want_task) = Claimed - Gone
         /\ now \in Nat /\ now <= MaxClock
         /\ {res_head, task_head, ins.ticket, ins.current,
             chk.current, chk.initial} \subseteq Ptr
         /\ chk.count \in Nat /\ chk.count <= MaxTickets
<1>1. /\ TypeOK /\ Gone \in Nat
  BY DEF IInv, Numbered
<1>2. Len(want_res) \in Nat /\ Len(want_task) \in Nat
  BY <1>1 DEF TypeOK
<1>3. /\ allocated \in Nat /\ Claimed \in Int /\ Gone \in Nat
      /\ Len(want_res) = allocated - Claimed
      /\ Len(want_task) = Claimed - Gone
  BY <1>1, <1>2 DEF TypeOK, Claimed, Gone
<1>4. allocated <= MaxTickets /\ now \in Nat /\ now <= MaxClock
  BY <1>1 DEF TypeOK
<1>5. chk.count \in Nat /\ chk.count <= MaxTickets
  BY <1>1 DEF TypeOK
<1> QED BY <1>1, <1>2, <1>3, <1>4, <1>5, SMTT(30) DEF TypeOK, Memory

LEMMA Ranges ==
  ASSUME IInv
  PROVE  /\ allocated \in Nat /\ Claimed \in Nat /\ Gone \in Nat
         /\ Gone <= Claimed /\ Claimed <= allocated
         /\ \A i \in 1..allocated : i \in Ptr
<1>1. /\ allocated \in Nat /\ Claimed \in Nat /\ Gone \in Nat
      /\ Gone <= Claimed /\ Claimed <= allocated /\ allocated <= MaxTickets
  BY Bounds
<1> QED BY <1>1, InPtr

\* A step that inserts no ticket and does not claim or drop any.
LEMMA Quiet ==
  ASSUME IInv, allocated' = allocated, want' = want,
         now' \in Nat, now <= now', mem'.timestamp = mem.timestamp
  PROVE  Claimed' = Claimed /\ Gone' = Gone /\ Numbered' /\ Stamped'
<1>1. want_res' = want_res /\ want_task' = want_task
  BY DEF want
<1>2. Claimed' = Claimed /\ Gone' = Gone
  BY <1>1 DEF Claimed, Gone
<1>3. Numbered'
  BY <1>1, <1>2 DEF IInv, Numbered
<1>4. /\ \A a \in 1..allocated : mem.timestamp[a] \in 1..now
      /\ now \in Nat
      /\ \A a, b \in 1..allocated : a < b => mem.timestamp[a] < mem.timestamp[b]
  BY Bounds DEF IInv, Stamped
<1>5. Stamped'
  BY <1>4 DEF Stamped
<1> QED BY <1>2, <1>3, <1>5

LEMMA QuietTypes ==
  ASSUME IInv, allocated' = allocated, want' = want, now' \in 0..MaxClock,
         mem' \in Memory, res_head' \in Ptr, task_head' \in Ptr, Locals',
         valid' \subseteq 1..allocated
  PROVE  TypeOK'
<1>1. want_res' = want_res /\ want_task' = want_task
  BY DEF want
<1>2. /\ {ins.ticket', ins.current', chk.current', chk.initial'} \subseteq Ptr
      /\ chk.count' \in 0..MaxTickets
  BY DEF Locals
<1>3. allocated \in 0..MaxTickets /\ {want_res, want_task} \subseteq Seq(Addr)
  BY DEF IInv, TypeOK
<1> QED BY <1>1, <1>2, <1>3, SMTT(30) DEF TypeOK, Memory

-----------------------------------------------------------------------------
(* insert_ticket preserves the invariant.                                  *)

\* What holds while insert_ticket runs.
LEMMA InsertingFacts ==
  ASSUME IInv, ins.pc # "idle"
  PROVE  /\ chk.pc = "idle"
         /\ ins.ticket = allocated
         /\ Claimed < allocated
         /\ List(mem, task_head, Gone + 1, Claimed)
         /\ valid = (Gone + 1)..allocated
         /\ ins \in [pc : InsertPcs, ticket : Ptr, current : Ptr]
         /\ Locals
BY DEF IInv, Inserting, First, ExpiryPcs, RelinkPcs, Locals

\* A step of insert_ticket after the allocation.

-----------------------------------------------------------------------------
(* Links.                                                                  *)

\* Stores outside a..b leave the list of a..b alone.
LEMMA ListKept ==
  ASSUME NEW m, NEW n, NEW h, NEW a \in Nat \ {0}, NEW b \in Nat, List(m, h, a, b),
         \A i \in a..b : n.next[i] = m.next[i] /\ n.prev[i] = m.prev[i]
  PROVE  List(n, h, a, b)
<1>1. CASE a <= b
  <2>1. /\ h = a /\ m.next[b] = a /\ m.prev[a] = b
        /\ \A i \in a..(b - 1) : m.next[i] = i + 1 /\ m.prev[i + 1] = i
    BY <1>1 DEF List, Ring, Forward, Back
  <2>2. \A i \in a..(b - 1) : i \in a..b /\ i + 1 \in a..b
    OBVIOUS
  <2>3. n.next[b] = a /\ n.prev[a] = b
    BY <1>1, <2>1
  <2>4. \A i \in a..(b - 1) : n.next[i] = i + 1 /\ n.prev[i + 1] = i
    BY <2>1, <2>2
  <2> QED BY <1>1, <2>1, <2>3, <2>4 DEF List, Ring, Forward, Back
<1>2. CASE ~(a <= b)
  BY <1>2 DEF List
<1> QED BY <1>1, <1>2

\* A step that dereferences allocated tickets is safe.
LEMMA Safe ==
  ASSUME NEW S, S \subseteq valid, Touches(S)
  PROVE  ~fault'
BY Zenon DEF Touches

\* insert_ticket only stores to tickets that are not claimed.
LEMMA TaskListKept ==
  ASSUME IInv, ins.pc # "idle",
         \A a \in Ptr : a <= Claimed => /\ mem'.next[a] = mem.next[a]
                                        /\ mem'.prev[a] = mem.prev[a]
  PROVE  List(mem', task_head, Gone + 1, Claimed)
<1>1. List(mem, task_head, Gone + 1, Claimed)
  BY InsertingFacts
<1>2. Gone + 1 \in Nat \ {0} /\ Claimed \in Nat /\ Claimed <= MaxTickets
  BY Bounds
<1>3. \A i \in (Gone + 1)..Claimed : i \in Ptr /\ i <= Claimed
  BY <1>2 DEF Ptr, Addr
<1>4. \A i \in (Gone + 1)..Claimed : /\ mem'.next[i] = mem.next[i]
                                     /\ mem'.prev[i] = mem.prev[i]
  BY <1>3
<1> QED BY <1>1, <1>2, <1>4, ListKept

\* A step of insert_ticket after the allocation.
LEMMA InsertQuiet ==
  ASSUME IInv, ins.pc # "idle", UNCHANGED <<now, valid, allocated, task_head, chk, want>>,
         mem' \in Memory, mem'.timestamp = mem.timestamp, res_head' \in Ptr,
         ins' \in [pc : InsertPcs, ticket : Ptr, current : Ptr], ~fault', Inserting',
         List(mem', task_head, Gone + 1, Claimed),
         ins'.pc = "idle" => List(mem', res_head', Claimed + 1, allocated)
  PROVE  IInv'
<1>1. now \in 0..MaxClock /\ task_head \in Ptr /\ now \in Nat /\ now <= now
  BY Bounds
<1>2. Claimed' = Claimed /\ Gone' = Gone /\ Numbered' /\ Stamped'
  BY <1>1, Quiet
<1>3. Locals'
  BY InsertingFacts DEF Locals
<1>4. chk'.pc = "idle" /\ valid' = First'..allocated'
  BY <1>2, InsertingFacts DEF First, ExpiryPcs, RelinkPcs
<1>5. Claiming' /\ Expiring'
  BY <1>2, <1>4 DEF Claiming, Expiring, SplicePcs, ExpiryPcs, RelinkPcs
<1>6. TypeOK'
  <2>1. valid' \subseteq 1..allocated
    BY DEF IInv, TypeOK
  <2> QED BY <2>1, <1>1, <1>3, QuietTypes
<1> QED BY <1>2, <1>3, <1>4, <1>5, <1>6 DEF IInv

LEMMA FirstHead == IInv /\ first_head => IInv'
<1> SUFFICES ASSUME IInv, first_head PROVE IInv'
  OBVIOUS
<1>1. /\ ins.pc = "first" /\ res_head' = ins.ticket
      /\ ins' = [ins EXCEPT !.pc = "first_next"]
      /\ UNCHANGED <<now, mem, valid, allocated, task_head, chk, fault, want>>
  BY DEF first_head
<1>2. Claimed + 1 = allocated /\ ~fault
  BY <1>1 DEF IInv, Inserting
<1>3. Claimed' = Claimed /\ Gone' = Gone
  BY <1>1, Quiet, Bounds
<1>4. /\ ins'.pc = "first_next" /\ ins'.ticket = allocated
      /\ ins' \in [pc : InsertPcs, ticket : Ptr, current : Ptr]
  BY <1>1, InsertingFacts DEF InsertPcs
<1>5. List(mem', task_head, Gone + 1, Claimed)
  BY <1>1, InsertingFacts
<1>6. Inserting'
  BY <1>1, <1>2, <1>3, <1>4, <1>5, InsertingFacts DEF Inserting
<1> QED BY <1>1, <1>2, <1>4, <1>5, <1>6, InsertQuiet, Bounds, InsertingFacts

LEMMA FirstNext == IInv /\ first_next => IInv'
<1> SUFFICES ASSUME IInv, first_next PROVE IInv'
  OBVIOUS
<1>1. /\ ins.pc = "first_next" /\ Touches({ins.ticket})
      /\ mem' = [mem EXCEPT !.next[ins.ticket] = ins.ticket]
      /\ ins' = [ins EXCEPT !.pc = "first_prev"]
      /\ UNCHANGED <<now, valid, allocated, res_head, task_head, chk, want>>
  BY DEF first_next, InsertStep
<1>2. Claimed + 1 = allocated /\ res_head = allocated /\ ins.ticket = allocated
  BY <1>1 DEF IInv, Inserting
<1>3. /\ mem' \in Memory /\ mem'.next[allocated] = allocated
      /\ \A a \in Ptr : a # allocated => mem'.next[a] = mem.next[a]
      /\ mem'.prev = mem.prev /\ mem'.timestamp = mem.timestamp
  <2>1. ins.ticket \in Ptr /\ mem \in Memory
    BY Bounds
  <2> QED BY <1>1, <1>2, <2>1, StoreNext
<1>4. Claimed' = Claimed /\ Gone' = Gone
  BY <1>1, <1>3, Quiet, Bounds
<1>5. /\ ins'.pc = "first_prev" /\ ins'.ticket = allocated
      /\ ins' \in [pc : InsertPcs, ticket : Ptr, current : Ptr]
  BY <1>1, InsertingFacts DEF InsertPcs
<1>6. List(mem', task_head, Gone + 1, Claimed)
  BY <1>1, <1>2, <1>3, Bounds, TaskListKept, SMTT(30) DEF Ptr, Addr, NULL
<1>7. Inserting'
  BY <1>1, <1>2, <1>3, <1>4, <1>5, <1>6, InsertingFacts DEF Inserting
<1>8. ~fault'
  <2>1. {ins.ticket} \subseteq valid
    BY <1>1, <1>2, Bounds, InsertingFacts, SMTT(30)
  <2> QED BY <1>1, <2>1, Safe
<1> QED BY <1>1, <1>3, <1>5, <1>6, <1>7, <1>8, InsertQuiet, Bounds

LEMMA FirstPrev == IInv /\ first_prev => IInv'
<1> SUFFICES ASSUME IInv, first_prev PROVE IInv'
  OBVIOUS
<1>1. /\ ins.pc = "first_prev" /\ Touches({ins.ticket})
      /\ mem' = [mem EXCEPT !.prev[ins.ticket] = ins.ticket]
      /\ ins' = [ins EXCEPT !.pc = "idle"]
      /\ UNCHANGED <<now, valid, allocated, res_head, task_head, chk, want>>
  BY DEF first_prev, InsertStep
<1>2. /\ Claimed + 1 = allocated /\ res_head = allocated /\ ins.ticket = allocated
      /\ mem.next[allocated] = allocated
  BY <1>1 DEF IInv, Inserting
<1>3. /\ mem' \in Memory /\ mem'.prev[allocated] = allocated
      /\ \A a \in Ptr : a # allocated => mem'.prev[a] = mem.prev[a]
      /\ mem'.next = mem.next /\ mem'.timestamp = mem.timestamp
  <2>1. ins.ticket \in Ptr /\ mem \in Memory
    BY Bounds
  <2> QED BY <1>1, <1>2, <2>1, StorePrev
<1>4. ins'.pc = "idle" /\ ins' \in [pc : InsertPcs, ticket : Ptr, current : Ptr]
  BY <1>1, InsertingFacts DEF InsertPcs
<1>5. List(mem', task_head, Gone + 1, Claimed)
  BY <1>1, <1>2, <1>3, Bounds, TaskListKept DEF Ptr, Addr, NULL
<1>6. List(mem', res_head', Claimed + 1, allocated)
  BY <1>1, <1>2, <1>3, Bounds DEF List, Ring, Forward, Back
<1>7. Inserting'
  BY <1>4 DEF Inserting
<1>8. ~fault'
  <2>1. {ins.ticket} \subseteq valid
    BY <1>1, <1>2, Bounds, InsertingFacts
  <2> QED BY <1>1, <2>1, Safe
<1> QED BY <1>1, <1>3, <1>4, <1>5, <1>6, <1>7, <1>8, InsertQuiet, Bounds

\* What holds while insert_ticket wires a ticket to the end of the list.
LEMMA WiringFacts ==
  ASSUME IInv, ins.pc \in {"tail", "wire_new", "wire_tail"}
  PROVE  /\ ins.pc # "idle"
         /\ ins.ticket = allocated
         /\ res_head = Claimed + 1
         /\ Claimed + 1 < allocated
         /\ Forward(mem, Claimed + 1, allocated - 1)
         /\ Back(mem, Claimed + 1, allocated - 1)
         /\ mem.next[allocated - 1] = Claimed + 1
         /\ allocated \in Ptr /\ allocated - 1 \in Ptr /\ Claimed + 1 \in Ptr
         /\ {allocated, allocated - 1, Claimed + 1} \subseteq valid
<1>1. /\ ins.pc # "idle"
      /\ res_head = Claimed + 1
      /\ Claimed + 1 < allocated
      /\ Forward(mem, Claimed + 1, allocated - 1)
      /\ Back(mem, Claimed + 1, allocated - 1)
      /\ mem.next[allocated - 1] = Claimed + 1
  BY DEF IInv, Inserting
<1>2. allocated \in Ptr /\ allocated - 1 \in Ptr /\ Claimed + 1 \in Ptr
  <2>1. allocated \in Nat /\ Claimed \in Nat /\ allocated <= MaxTickets
    BY Bounds
  <2> QED BY <1>1, <2>1 DEF Ptr, Addr
<1>3. {allocated, allocated - 1, Claimed + 1} \subseteq valid
  BY <1>1, Bounds, InsertingFacts, SMTT(30)
<1> QED BY <1>1, <1>2, <1>3, InsertingFacts

LEMMA TailPrev == IInv /\ tail_prev => IInv'
<1> SUFFICES ASSUME IInv, tail_prev PROVE IInv'
  OBVIOUS
<1>1. /\ ins.pc = "tail" /\ Touches({ins.current})
      /\ mem' = [mem EXCEPT !.prev[ins.current] = ins.ticket]
      /\ ins' = [ins EXCEPT !.pc = "wire_new", !.current = mem.prev[ins.current]]
      /\ UNCHANGED <<now, valid, allocated, res_head, task_head, chk, want>>
  BY DEF tail_prev
<1>2. ins.current = Claimed + 1 /\ mem.prev[Claimed + 1] = allocated - 1
  BY <1>1 DEF IInv, Inserting
<1>3. /\ mem' \in Memory /\ mem'.prev[Claimed + 1] = allocated
      /\ \A a \in Ptr : a # Claimed + 1 => mem'.prev[a] = mem.prev[a]
      /\ mem'.next = mem.next /\ mem'.timestamp = mem.timestamp
  <2>1. mem \in Memory
    BY Bounds
  <2> QED BY <1>1, <1>2, <2>1, StorePrev, WiringFacts
<1>4. Claimed' = Claimed /\ Gone' = Gone
  BY <1>1, <1>3, Quiet, Bounds
<1>5. /\ ins'.pc = "wire_new" /\ ins'.ticket = allocated /\ ins'.current = allocated - 1
      /\ ins' \in [pc : InsertPcs, ticket : Ptr, current : Ptr]
  BY <1>1, <1>2, WiringFacts, InsertingFacts, Zenon DEF InsertPcs
<1>6. List(mem', task_head, Gone + 1, Claimed)
  BY <1>1, <1>3, Bounds, TaskListKept DEF Ptr, Addr, NULL
<1>7. Forward(mem', Claimed + 1, allocated - 1) /\ Back(mem', Claimed + 1, allocated - 1)
  <2>1. \A i \in (Claimed + 2)..(allocated - 1) : i \in Ptr /\ i # Claimed + 1
    BY Ranges DEF Ptr, Addr
  <2>2. Claimed + 1 \in Nat /\ allocated - 1 \in Nat /\ (Claimed + 1) + 1 = Claimed + 2
    BY <1>1, WiringFacts, Ranges
  <2>3. Forward(mem, Claimed + 1, allocated - 1) /\ Back(mem, Claimed + 1, allocated - 1)
    BY <1>1, WiringFacts
  <2>4. \A i \in (Claimed + 1)..(allocated - 1 - 1) : i + 1 \in (Claimed + 2)..(allocated - 1)
    BY <2>2
  <2> QED BY <1>3, <2>1, <2>3, <2>4 DEF Forward, Back
<1>8. Inserting'
  BY <1>1, <1>2, <1>3, <1>4, <1>5, <1>6, <1>7, InsertingFacts, WiringFacts DEF Inserting
<1>9. ~fault'
  <2>1. {ins.current} \subseteq valid
    BY <1>1, <1>2, WiringFacts
  <2> QED BY <1>1, <2>1, Safe
<1> QED BY <1>1, <1>3, <1>5, <1>6, <1>8, <1>9, InsertQuiet, Bounds

LEMMA WireNew == IInv /\ wire_new => IInv'
<1> SUFFICES ASSUME IInv, wire_new PROVE IInv'
  OBVIOUS
<1>1. /\ ins.pc = "wire_new" /\ Touches({ins.current, ins.ticket})
      /\ mem' = [mem EXCEPT !.next[ins.ticket] = mem.next[ins.current],
                            !.prev[ins.ticket] = ins.current]
      /\ ins' = [ins EXCEPT !.pc = "wire_tail"]
      /\ UNCHANGED <<now, valid, allocated, res_head, task_head, chk, want>>
  BY DEF wire_new, InsertStep
<1>2. ins.current = allocated - 1 /\ mem.prev[Claimed + 1] = allocated
  BY <1>1 DEF IInv, Inserting
<1>3. /\ mem' \in Memory
      /\ mem'.next[allocated] = Claimed + 1 /\ mem'.prev[allocated] = allocated - 1
      /\ \A a \in Ptr : a # allocated => /\ mem'.next[a] = mem.next[a]
                                         /\ mem'.prev[a] = mem.prev[a]
      /\ mem'.timestamp = mem.timestamp
  <2>1. mem \in Memory
    BY Bounds
  <2>2. mem' = [mem EXCEPT !.next[allocated] = Claimed + 1,
                           !.prev[allocated] = allocated - 1]
    BY <1>1, <1>2, WiringFacts, Zenon
  <2>3. allocated \in Ptr /\ Claimed + 1 \in Ptr /\ allocated - 1 \in Ptr
    BY <1>1, WiringFacts
  <2> QED BY <2>1, <2>2, <2>3, Zenon DEF Memory
<1>4. Claimed' = Claimed /\ Gone' = Gone
  BY <1>1, <1>3, Quiet, Bounds, SMTT(30)
<1>5. /\ ins'.pc = "wire_tail" /\ ins'.ticket = allocated /\ ins'.current = allocated - 1
      /\ ins' \in [pc : InsertPcs, ticket : Ptr, current : Ptr]
  BY <1>1, <1>2, WiringFacts, InsertingFacts DEF InsertPcs
<1>6. List(mem', task_head, Gone + 1, Claimed)
  BY <1>1, <1>3, Bounds, WiringFacts, TaskListKept, SMTT(30) DEF Ptr, Addr, NULL
<1>7. Forward(mem', Claimed + 1, allocated - 1) /\ Back(mem', Claimed + 1, allocated - 1)
  <2>1. \A i \in (Claimed + 1)..(allocated - 1) : i \in Ptr /\ i # allocated
    BY Bounds DEF Ptr, Addr
  <2>2. Claimed + 1 \in Nat /\ allocated - 1 \in Nat
    BY <1>1, WiringFacts, Bounds, SMTT(30)
  <2>3. Forward(mem, Claimed + 1, allocated - 1) /\ Back(mem, Claimed + 1, allocated - 1)
    BY <1>1, WiringFacts
  <2>4. \A i \in (Claimed + 1)..(allocated - 1 - 1) :
          i \in (Claimed + 1)..(allocated - 1) /\ i + 1 \in (Claimed + 1)..(allocated - 1)
    BY <2>2
  <2> QED BY <1>3, <2>1, <2>3, <2>4 DEF Forward, Back
<1>8. mem'.next[allocated - 1] = Claimed + 1 /\ mem'.prev[Claimed + 1] = allocated
  BY <1>1, <1>2, <1>3, Bounds, WiringFacts, SMTT(30)
<1>9. Inserting'
  BY <1>1, <1>2, <1>3, <1>4, <1>5, <1>6, <1>7, <1>8, InsertingFacts, WiringFacts DEF Inserting
<1>10. ~fault'
  <2>1. {ins.current, ins.ticket} \subseteq valid
    BY <1>1, <1>2, WiringFacts
  <2> QED BY <1>1, <2>1, Safe
<1> QED BY <1>1, <1>3, <1>5, <1>6, <1>9, <1>10, InsertQuiet, Bounds

LEMMA WireTail == IInv /\ wire_tail => IInv'
<1> SUFFICES ASSUME IInv, wire_tail PROVE IInv'
  OBVIOUS
<1>1. /\ ins.pc = "wire_tail" /\ Touches({ins.current})
      /\ mem' = [mem EXCEPT !.next[ins.current] = ins.ticket]
      /\ ins' = [ins EXCEPT !.pc = "idle"]
      /\ UNCHANGED <<now, valid, allocated, res_head, task_head, chk, want>>
  BY DEF wire_tail, InsertStep
<1>2. /\ ins.current = allocated - 1 /\ mem.prev[Claimed + 1] = allocated
      /\ mem.next[allocated] = Claimed + 1 /\ mem.prev[allocated] = allocated - 1
  BY <1>1 DEF IInv, Inserting
<1>3. /\ mem' \in Memory /\ mem'.next[allocated - 1] = allocated
      /\ \A a \in Ptr : a # allocated - 1 => mem'.next[a] = mem.next[a]
      /\ mem'.prev = mem.prev /\ mem'.timestamp = mem.timestamp
  <2>1. mem \in Memory
    BY Bounds
  <2> QED BY <1>1, <1>2, <2>1, StoreNext, WiringFacts
<1>4. ins'.pc = "idle" /\ ins' \in [pc : InsertPcs, ticket : Ptr, current : Ptr]
  BY <1>1, InsertingFacts DEF InsertPcs
<1>5. List(mem', task_head, Gone + 1, Claimed)
  BY <1>1, <1>3, Bounds, WiringFacts, TaskListKept DEF Ptr, Addr, NULL
<1>6. List(mem', res_head', Claimed + 1, allocated)
  <2>1. /\ Forward(mem, Claimed + 1, allocated - 1) /\ Back(mem, Claimed + 1, allocated - 1)
        /\ res_head = Claimed + 1 /\ Claimed + 1 < allocated
    BY <1>1, WiringFacts
  <2>2. allocated \in Nat /\ Claimed \in Nat /\ allocated \in Ptr
    BY <1>1, Bounds, WiringFacts
  <2>3. \A i \in (Claimed + 1)..(allocated - 1) :
          /\ i \in Ptr
          /\ i # allocated - 1 => i \in (Claimed + 1)..(allocated - 1 - 1)
    BY <2>2, Bounds, InPtr
  <2>4. Forward(mem', Claimed + 1, allocated)
    BY <1>3, <2>1, <2>2, <2>3 DEF Forward
  <2>5. Back(mem', Claimed + 1, allocated)
    BY <1>2, <1>3, <2>1, <2>2, <2>3 DEF Back
  <2> QED BY <1>1, <1>2, <1>3, <2>1, <2>2, <2>4, <2>5 DEF List, Ring
<1>7. Inserting'
  BY <1>4 DEF Inserting
<1>8. ~fault'
  <2>1. {ins.current} \subseteq valid
    BY <1>1, <1>2, WiringFacts
  <2> QED BY <1>1, <2>1, Safe
<1> QED BY <1>1, <1>3, <1>4, <1>5, <1>6, <1>7, <1>8, InsertQuiet, Bounds

\* The allocation of the ticket and the choice of the branch.
LEMMA InsertTicket == IInv /\ ~Interleaved /\ insert_ticket => IInv'
<1> SUFFICES ASSUME IInv, ~Interleaved, insert_ticket PROVE IInv'
  OBVIOUS
<1>1. /\ ins.pc = "idle" /\ chk.pc = "idle"
      /\ now < MaxClock /\ allocated < MaxTickets
      /\ now' = now + 1 /\ allocated' = allocated + 1
      /\ valid' = valid \union {allocated + 1}
      /\ mem' = [mem EXCEPT !.timestamp[allocated + 1] = now + 1]
      /\ ins' = [pc |-> IF res_head = NULL THEN "first" ELSE "tail",
                 ticket |-> allocated + 1, current |-> res_head]
      /\ want_res' = Append(want_res, allocated + 1)
      /\ UNCHANGED <<res_head, task_head, chk, fault, want_task>>
  BY DEF insert_ticket
<1>2. /\ List(mem, res_head, Claimed + 1, allocated)
      /\ List(mem, task_head, Gone + 1, Claimed)
  BY <1>1 DEF IInv, Claiming
<1>3. valid = (Gone + 1)..allocated /\ Locals /\ ~fault /\ TypeOK
  BY <1>1 DEF IInv, First, ExpiryPcs, RelinkPcs
<1>4. /\ mem \in Memory
      /\ allocated \in Nat /\ Claimed \in Nat /\ Gone \in Nat
      /\ Gone <= Claimed /\ Claimed <= allocated
      /\ Len(want_res) = allocated - Claimed
      /\ Len(want_task) = Claimed - Gone
      /\ now \in Nat
      /\ {res_head, task_head, chk.current, chk.initial} \subseteq Ptr
  BY Bounds
<1>5. allocated + 1 \in Addr /\ allocated + 1 \in Ptr
  BY <1>1, <1>4, SMTT(30) DEF Ptr, Addr
<1>6. /\ mem' \in Memory /\ mem'.next = mem.next /\ mem'.prev = mem.prev
      /\ mem'.timestamp[allocated + 1] = now + 1
      /\ \A a \in Ptr : a # allocated + 1 => mem'.timestamp[a] = mem.timestamp[a]
  <2>1. now + 1 \in 0..MaxClock
    BY <1>1, <1>4, SMTT(30)
  <2> QED BY <1>1, <1>4, <1>5, <2>1, Zenon DEF Memory
<1>7. want_res \in Seq(Addr) /\ want_task \in Seq(Addr)
  BY <1>3 DEF TypeOK
<1>8. /\ want_res' \in Seq(Addr) /\ Len(want_res') = Len(want_res) + 1
      /\ Len(want_res) \in Nat /\ Len(want_task) \in Nat
  BY <1>1, <1>5, <1>7
<1>9. Claimed' = Claimed /\ Gone' = Gone
  <2>1. allocated' = allocated + 1 /\ want_task' = want_task /\ allocated \in Nat
    BY <1>1, <1>4
  <2> QED BY <2>1, <1>8 DEF Claimed, Gone
<1>10. Numbered'
  <2>1. /\ want_res = [i \in 1..Len(want_res) |-> Claimed + i]
        /\ want_task = [i \in 1..Len(want_task) |-> Gone + i]
    BY DEF IInv, Numbered
  <2>2. want_res' = [i \in 1..(Len(want_res) + 1) |-> Claimed + i]
    <3>1. want_res' = [i \in 1..(Len(want_res) + 1) |->
                         IF i <= Len(want_res) THEN want_res[i] ELSE allocated + 1]
      BY <1>1, <1>7
    <3>2. \A i \in 1..(Len(want_res) + 1) :
            (IF i <= Len(want_res) THEN want_res[i] ELSE allocated + 1) = Claimed + i
      BY <1>4, <2>1, SMTT(30)
    <3> QED BY <3>1, <3>2
  <2> QED BY <1>1, <1>4, <1>8, <1>9, <2>1, <2>2 DEF Numbered
<1>11. Stamped'
  <2>1. /\ \A a \in 1..allocated : mem.timestamp[a] \in 1..now
        /\ \A a, b \in 1..allocated : a < b => mem.timestamp[a] < mem.timestamp[b]
    BY DEF IInv, Stamped
  <2>2. \A a \in 1..(allocated + 1) : a # allocated + 1 =>
          a \in 1..allocated /\ mem'.timestamp[a] = mem.timestamp[a]
    <3>1. \A a \in 1..allocated : a \in Ptr /\ a # allocated + 1
      BY <1>4, Bounds, InPtr
    <3>2. \A a \in 1..(allocated + 1) : a # allocated + 1 => a \in 1..allocated
      BY <1>4
    <3> QED BY <1>6, <3>1, <3>2
  <2>3. \A a \in 1..(allocated + 1) : mem'.timestamp[a] \in 1..(now + 1)
    BY <1>4, <1>6, <2>1, <2>2, SMTT(30)
  <2>4. \A a, b \in 1..(allocated + 1) : a < b => mem'.timestamp[a] < mem'.timestamp[b]
    BY <1>4, <1>6, <2>1, <2>2, SMTT(30)
  <2> QED BY <1>1, <2>3, <2>4 DEF Stamped
<1>12. Locals'
  BY <1>1, <1>3, <1>4, <1>5 DEF Locals, InsertPcs
<1>13. valid' = First'..allocated'
  <2>1. ((Gone + 1)..allocated) \union {allocated + 1} = (Gone + 1)..(allocated + 1)
    BY <1>4
  <2>2. First' = Gone + 1
    BY <1>1, <1>9 DEF First, ExpiryPcs, RelinkPcs
  <2> QED BY <1>1, <1>3, <2>1, <2>2
<1>14. TypeOK'
  <2>1. valid' \subseteq 1..allocated' /\ allocated' \in 0..MaxTickets /\ now' \in 0..MaxClock
    BY <1>1, <1>3, <1>4, SMTT(30)
  <2>2. {res_head', task_head', ins'.ticket, ins'.current, chk'.current, chk'.initial} \subseteq Ptr
    BY <1>1, <1>4, <1>5
  <2>3. chk'.count \in 0..MaxTickets /\ {want_res', want_task'} \subseteq Seq(Addr)
    BY <1>1, <1>3, <1>7, <1>8 DEF TypeOK
  <2> QED BY <1>6, <2>1, <2>2, <2>3, SMTT(30) DEF TypeOK, Memory
<1>15. List(mem', task_head, Gone + 1, Claimed) /\ List(mem', res_head, Claimed + 1, allocated)
  BY <1>2, <1>6 DEF List, Ring, Forward, Back
<1>16. Inserting'
  <2>1. CASE res_head = NULL
    <3>1. Claimed = allocated
      BY <1>2, <1>4, <2>1 DEF List, NULL
    <3> QED BY <1>1, <1>4, <1>9, <1>15, <2>1, <3>1 DEF Inserting
  <2>2. CASE res_head # NULL
    <3>1. /\ Claimed + 1 <= allocated /\ res_head = Claimed + 1
          /\ Ring(mem', Claimed + 1, allocated)
      BY <1>15, <2>2 DEF List
    <3>2. allocated' - 1 = allocated
      BY <1>1, <1>4
    <3> QED BY <1>1, <1>4, <1>9, <1>15, <2>2, <3>1, <3>2, SMTT(30) DEF Inserting, Ring
  <2> QED BY <2>1, <2>2
<1>17. Claiming' /\ Expiring'
  BY <1>1 DEF Claiming, Expiring, SplicePcs, ExpiryPcs, RelinkPcs
<1> QED BY <1>1, <1>3, <1>10, <1>11, <1>12, <1>13, <1>14, <1>16, <1>17 DEF IInv

-----------------------------------------------------------------------------
(* Claiming the reserved list preserves the invariant.                     *)

CheckLocals == [pc : CheckPcs, current : Ptr, initial : Ptr, threshold : Int,
                count : 0..MaxTickets]

\* A step of check_ticket_cache that does not read the clock.
LEMMA CheckQuiet ==
  ASSUME IInv, UNCHANGED <<now, allocated, ins, want>>, ins.pc = "idle",
         mem' \in Memory, mem'.timestamp = mem.timestamp,
         res_head' \in Ptr, task_head' \in Ptr, chk' \in CheckLocals, ~fault',
         valid' = First'..allocated, Claiming', Expiring'
  PROVE  IInv'
<1>1. now \in 0..MaxClock /\ now \in Nat /\ now <= now /\ allocated \in Nat
  BY Bounds
<1>2. Claimed' = Claimed /\ Gone' = Gone /\ Numbered' /\ Stamped'
  BY <1>1, Quiet
<1>3. Locals'
  BY DEF IInv, Locals, CheckLocals
<1>4. Inserting'
  BY DEF Inserting
<1>5. First' \in Nat \ {0}
  <2>1. CASE chk'.pc \in ExpiryPcs
    <3>1. chk'.initial \in Ptr /\ chk'.initial > 0
      BY <2>1 DEF CheckLocals, Expiring
    <3> QED BY <2>1, <3>1 DEF First, Ptr, Addr, NULL
  <2>2. CASE chk'.pc \notin ExpiryPcs
    BY <2>2, <1>2, Bounds DEF First
  <2> QED BY <2>1, <2>2
<1>6. TypeOK'
  <2>1. valid' \subseteq 1..allocated
    BY <1>1, <1>5
  <2> QED BY <2>1, <1>1, <1>3, QuietTypes
<1> QED BY <1>2, <1>3, <1>4, <1>6 DEF IInv

\* Such a step while the reserved list is claimed.
LEMMA ClaimQuiet ==
  ASSUME IInv, UNCHANGED <<now, valid, allocated, ins, want>>, ins.pc = "idle",
         mem' \in Memory, mem'.timestamp = mem.timestamp,
         res_head' \in Ptr, task_head' \in Ptr, chk' \in CheckLocals, ~fault',
         chk.pc \notin ExpiryPcs, chk'.pc \notin ExpiryPcs, Claiming'
  PROVE  IInv'
<1>1. Gone' = Gone
  BY Quiet, Bounds
<1>2. valid' = First'..allocated
  BY <1>1 DEF IInv, First
<1>3. Expiring'
  BY DEF Expiring, ExpiryPcs, RelinkPcs
<1> QED BY <1>2, <1>3, CheckQuiet

\* Between calls and before the splice both lists are intact.
LEMMA ClaimingFacts ==
  ASSUME IInv, chk.pc \in CheckPcs \ ExpiryPcs
  PROVE  /\ valid = (Gone + 1)..allocated /\ ~fault
         /\ chk \in CheckLocals
         /\ chk.pc # "idle" => ins.pc = "idle"
         /\ ins.pc = "idle" /\ chk.pc \in {"idle", "count", "take", "splice"} =>
              /\ List(mem, res_head, Claimed + 1, allocated)
              /\ List(mem, task_head, Gone + 1, Claimed)
         /\ chk.pc \in {"count", "take", "splice"} \union SplicePcs => Claimed < allocated
         /\ chk.pc \in {"splice"} \union SplicePcs => Gone < Claimed
BY DEF IInv, Claiming, First, Locals, CheckLocals

LEMMA CheckTicketCache == IInv /\ ~Interleaved /\ check_ticket_cache => IInv'
<1> SUFFICES ASSUME IInv, ~Interleaved, check_ticket_cache PROVE IInv'
  OBVIOUS
<1>1. /\ chk.pc = "idle" /\ ins.pc = "idle"
      /\ chk' = [chk EXCEPT !.pc = IF res_head = NULL THEN "expire" ELSE "count",
                            !.current = res_head]
      /\ UNCHANGED <<now, mem, valid, allocated, res_head, task_head, ins, fault, want>>
  BY DEF check_ticket_cache
<1>2. chk.pc \in CheckPcs \ ExpiryPcs
  BY <1>1 DEF CheckPcs, ExpiryPcs, RelinkPcs
<1>3. /\ ~fault /\ chk \in CheckLocals
      /\ List(mem, res_head, Claimed + 1, allocated)
      /\ List(mem, task_head, Gone + 1, Claimed)
  BY <1>1, <1>2, ClaimingFacts
<1>4. Claimed' = Claimed /\ Gone' = Gone
  BY <1>1, Quiet, Bounds
<1>5. /\ chk' \in CheckLocals /\ chk'.current = res_head
      /\ chk'.pc = IF res_head = NULL THEN "expire" ELSE "count"
      /\ chk'.pc \notin ExpiryPcs
  BY <1>1, <1>3, Bounds, Zenon DEF CheckLocals, CheckPcs, ExpiryPcs, RelinkPcs
<1>6. Claiming'
  <2>1. CASE res_head = NULL
    <3>1. Claimed = allocated
      BY <1>3, <2>1, Bounds DEF List, NULL
    <3> QED BY <1>1, <1>3, <1>4, <1>5, <2>1, <3>1 DEF Claiming, SplicePcs
  <2>2. CASE res_head # NULL
    <3>1. Claimed + 1 <= allocated /\ res_head = Claimed + 1
      BY <1>3, <2>2 DEF List
    <3>2. Claimed < allocated /\ res_head > Claimed /\ res_head <= allocated
      BY <3>1, Bounds
    <3> QED BY <1>1, <1>3, <1>4, <1>5, <2>2, <3>2 DEF Claiming, SplicePcs
  <2> QED BY <2>1, <2>2
<1> QED BY <1>1, <1>2, <1>3, <1>5, <1>6, ClaimQuiet, Bounds

LEMMA CountTickets == IInv /\ count_tickets => IInv'
<1> SUFFICES ASSUME IInv, count_tickets PROVE IInv'
  OBVIOUS
<1>1. PICK c : c = chk.current
  OBVIOUS
<1>2. PICK n : n = mem.next[c]
  OBVIOUS
<1>3. /\ chk.pc = "count" /\ Touches({c, n})
      /\ chk' = IF mem.timestamp[c] < mem.timestamp[n] THEN [chk EXCEPT !.current = n]
                ELSE [chk EXCEPT !.pc = IF task_head = NULL THEN "take" ELSE "splice"]
      /\ UNCHANGED <<now, mem, valid, allocated, res_head, task_head, ins, want>>
  BY <1>1, <1>2 DEF count_tickets, CheckStep
<1>4. chk.pc \in CheckPcs \ ExpiryPcs
  BY <1>3 DEF CheckPcs, ExpiryPcs, RelinkPcs
<1>5. /\ valid = (Gone + 1)..allocated /\ chk \in CheckLocals /\ ins.pc = "idle"
      /\ List(mem, res_head, Claimed + 1, allocated)
      /\ List(mem, task_head, Gone + 1, Claimed)
      /\ Claimed < allocated
  BY <1>3, <1>4, ClaimingFacts
<1>6. c > Claimed /\ c <= allocated /\ c \in Nat
  <2>1. c > Claimed /\ c <= allocated
    BY <1>1, <1>3 DEF IInv, Claiming
  <2> QED BY <1>1, <2>1, Bounds DEF Ptr, Addr, NULL
<1>7. Ring(mem, Claimed + 1, allocated) /\ res_head = Claimed + 1
  BY <1>5, Bounds DEF List
<1>8. n = IF c = allocated THEN Claimed + 1 ELSE c + 1
  BY <1>2, <1>6, <1>7, Bounds, SMTT(30) DEF Ring, Forward
<1>9. mem.timestamp[c] < mem.timestamp[n] => n = c + 1 /\ n <= allocated
  <2> SUFFICES ASSUME c = allocated PROVE ~(mem.timestamp[c] < mem.timestamp[n])
    BY <1>6, <1>8, Bounds
  <2>1. n = Claimed + 1 /\ n \in 1..allocated /\ c \in 1..allocated /\ n <= c
    BY <1>5, <1>6, <1>8, Bounds
  <2>2. /\ mem.timestamp[c] \in Nat /\ mem.timestamp[n] \in Nat
        /\ n < c => mem.timestamp[n] < mem.timestamp[c]
    BY <2>1 DEF IInv, Stamped
  <2> QED BY <2>1, <2>2
<1>10. {c, n} \subseteq valid /\ n \in Ptr
  BY <1>5, <1>6, <1>8, Bounds, InPtr, SMTT(30)
<1>11. ~fault'
  BY <1>3, <1>10, Safe
<1>12. Claimed' = Claimed /\ Gone' = Gone
  BY <1>3, Quiet, Bounds
<1>13. CASE mem.timestamp[c] < mem.timestamp[n]
  <2>1. chk' = [chk EXCEPT !.current = n]
    BY <1>3, <1>13
  <2>2. chk' \in CheckLocals /\ chk'.pc = "count" /\ chk'.current = n
    BY <1>3, <1>5, <1>10, <2>1 DEF CheckLocals
  <2>3. n > Claimed /\ n <= allocated
    BY <1>6, <1>9, <1>13, Bounds
  <2>4. Claiming'
    BY <1>3, <1>5, <1>12, <2>2, <2>3 DEF Claiming, SplicePcs
  <2> QED BY <1>3, <1>4, <1>5, <1>11, <2>2, <2>4, ClaimQuiet, Bounds DEF ExpiryPcs, RelinkPcs
<1>14. CASE ~(mem.timestamp[c] < mem.timestamp[n])
  <2>1. chk' = [chk EXCEPT !.pc = IF task_head = NULL THEN "take" ELSE "splice"]
    BY <1>3, <1>14
  <2>2. /\ chk' \in CheckLocals /\ chk'.pc \notin ExpiryPcs
        /\ chk'.pc = IF task_head = NULL THEN "take" ELSE "splice"
    BY <1>5, <2>1 DEF CheckLocals, CheckPcs, ExpiryPcs, RelinkPcs
  <2>3. IF task_head = NULL THEN Gone = Claimed ELSE Gone < Claimed
    BY <1>5, Bounds DEF List, NULL
  <2>4. Claiming'
    BY <1>3, <1>5, <1>12, <2>2, <2>3 DEF Claiming, SplicePcs
  <2> QED BY <1>3, <1>4, <1>5, <1>11, <2>2, <2>4, ClaimQuiet, Bounds
<1> QED BY <1>13, <1>14

LEMMA TakeList == IInv /\ take_list => IInv'
<1> SUFFICES ASSUME IInv, take_list PROVE IInv'
  OBVIOUS
<1>1. /\ chk.pc = "take" /\ task_head' = res_head
      /\ chk' = [chk EXCEPT !.pc = "clear"]
      /\ UNCHANGED <<now, mem, valid, allocated, res_head, ins, fault, want>>
  BY DEF take_list
<1>2. chk.pc \in CheckPcs \ ExpiryPcs
  BY <1>1 DEF CheckPcs, ExpiryPcs, RelinkPcs
<1>3. /\ ~fault /\ chk \in CheckLocals /\ ins.pc = "idle" /\ Claimed < allocated
      /\ List(mem, res_head, Claimed + 1, allocated)
  BY <1>1, <1>2, ClaimingFacts
<1>4. Gone = Claimed
  BY <1>1 DEF IInv, Claiming
<1>5. Claimed' = Claimed /\ Gone' = Gone
  BY <1>1, Quiet, Bounds
<1>6. chk' \in CheckLocals /\ chk'.pc = "clear" /\ chk'.pc \notin ExpiryPcs
  BY <1>1, <1>3 DEF CheckLocals, CheckPcs, ExpiryPcs, RelinkPcs
<1>7. Claiming'
  BY <1>1, <1>3, <1>4, <1>5, <1>6 DEF Claiming, SplicePcs
<1> QED BY <1>1, <1>2, <1>3, <1>6, <1>7, ClaimQuiet, Bounds

LEMMA SplicePrev == IInv /\ splice_prev => IInv'
<1> SUFFICES ASSUME IInv, splice_prev PROVE IInv'
  OBVIOUS
<1>1. /\ chk.pc = "splice" /\ Touches({res_head, task_head})
      /\ mem' = [mem EXCEPT !.prev[res_head] = mem.prev[task_head]]
      /\ chk' = [chk EXCEPT !.pc = "splice_c", !.current = mem.prev[res_head]]
      /\ UNCHANGED <<now, valid, allocated, res_head, task_head, ins, want>>
  BY DEF splice_prev
<1>2. chk.pc \in CheckPcs \ ExpiryPcs
  BY <1>1 DEF CheckPcs, ExpiryPcs, RelinkPcs
<1>3. /\ valid = (Gone + 1)..allocated
      /\ chk \in CheckLocals /\ ins.pc = "idle" /\ Claimed < allocated /\ Gone < Claimed
      /\ List(mem, res_head, Claimed + 1, allocated)
      /\ List(mem, task_head, Gone + 1, Claimed)
  BY <1>1, <1>2, ClaimingFacts
<1>4. /\ res_head = Claimed + 1 /\ task_head = Gone + 1
      /\ Ring(mem, Claimed + 1, allocated) /\ Ring(mem, Gone + 1, Claimed)
  BY <1>3, Bounds DEF List
<1>5. mem.prev[Claimed + 1] = allocated /\ mem.prev[Gone + 1] = Claimed
  BY <1>4 DEF Ring
<1>6. allocated \in Ptr /\ Claimed \in Ptr /\ Claimed + 1 \in Ptr /\ mem \in Memory
  BY <1>3, Bounds, InPtr
<1>7. /\ mem' \in Memory /\ mem'.prev[Claimed + 1] = Claimed
      /\ \A a \in Ptr : a # Claimed + 1 => mem'.prev[a] = mem.prev[a]
      /\ mem'.next = mem.next /\ mem'.timestamp = mem.timestamp
  BY <1>1, <1>4, <1>5, <1>6, StorePrev
<1>8. Claimed' = Claimed /\ Gone' = Gone
  BY <1>1, <1>7, Quiet, Bounds
<1>9. /\ chk' \in CheckLocals /\ chk'.pc = "splice_c" /\ chk'.current = allocated
      /\ chk'.pc \notin ExpiryPcs
  BY <1>1, <1>3, <1>4, <1>5, <1>6, Zenon
     DEF CheckLocals, CheckPcs, SplicePcs, ExpiryPcs, RelinkPcs
<1>10. /\ Forward(mem', Gone + 1, Claimed) /\ Forward(mem', Claimed + 1, allocated)
  BY <1>4, <1>7 DEF Ring, Forward
<1>11. Back(mem', Gone + 1, Claimed) /\ Back(mem', Claimed + 1, allocated)
  <2>1. \A i \in (Gone + 1)..(Claimed - 1) : i + 1 \in Ptr /\ i + 1 # Claimed + 1
    BY Bounds, InPtr, SMTT(30)
  <2>2. \A i \in (Claimed + 1)..(allocated - 1) : i + 1 \in Ptr /\ i + 1 # Claimed + 1
    BY Bounds, InPtr, SMTT(30)
  <2> QED BY <1>4, <1>7, <2>1, <2>2 DEF Ring, Back
<1>12. mem'.prev[Gone + 1] = Claimed
  BY <1>3, <1>5, <1>7, Ranges, InPtr
<1>13. Claiming'
  BY <1>1, <1>3, <1>4, <1>7, <1>8, <1>9, <1>10, <1>11, <1>12 DEF Claiming, SplicePcs
<1>14. ~fault'
  <2>1. {res_head, task_head} \subseteq valid
    BY <1>3, <1>4, Bounds, SMTT(30)
  <2> QED BY <1>1, <2>1, Safe
<1> QED BY <1>1, <1>2, <1>3, <1>7, <1>9, <1>13, <1>14, ClaimQuiet, Bounds

\* What holds during the splice.
LEMMA SplicingFacts ==
  ASSUME IInv, chk.pc \in SplicePcs
  PROVE  /\ chk.pc \notin ExpiryPcs
         /\ chk \in CheckLocals /\ ins.pc = "idle"
         /\ Gone < Claimed /\ Claimed < allocated
         /\ res_head = Claimed + 1 /\ task_head = Gone + 1
         /\ chk.current = allocated
         /\ Forward(mem, Gone + 1, Claimed) /\ Back(mem, Gone + 1, Claimed)
         /\ Forward(mem, Claimed + 1, allocated) /\ Back(mem, Claimed + 1, allocated)
         /\ mem.prev[Gone + 1] = Claimed /\ mem.prev[Claimed + 1] = Claimed
         /\ {allocated, Claimed, Claimed + 1, Gone + 1} \subseteq Ptr
         /\ {allocated, Claimed, Claimed + 1, Gone + 1} \subseteq valid
<1>1. chk.pc \in CheckPcs \ ExpiryPcs
  BY DEF CheckPcs, SplicePcs, ExpiryPcs, RelinkPcs
<1>2. /\ res_head = Claimed + 1 /\ task_head = Gone + 1
      /\ chk.current = allocated
      /\ Forward(mem, Gone + 1, Claimed) /\ Back(mem, Gone + 1, Claimed)
      /\ Forward(mem, Claimed + 1, allocated) /\ Back(mem, Claimed + 1, allocated)
      /\ mem.prev[Gone + 1] = Claimed /\ mem.prev[Claimed + 1] = Claimed
  BY DEF IInv, Claiming
<1>3. /\ valid = (Gone + 1)..allocated
      /\ chk \in CheckLocals /\ ins.pc = "idle" /\ Claimed < allocated /\ Gone < Claimed
  BY <1>1, ClaimingFacts DEF SplicePcs
<1>4. {allocated, Claimed, Claimed + 1, Gone + 1} \subseteq Ptr
  BY <1>3, Bounds, InPtr
<1>5. {allocated, Claimed, Claimed + 1, Gone + 1} \subseteq valid
  BY <1>3, Bounds, SMTT(30)
<1> QED BY <1>1, <1>2, <1>3, <1>4, <1>5

LEMMA SpliceC == IInv /\ splice_c => IInv'
<1> SUFFICES ASSUME IInv, splice_c PROVE IInv'
  OBVIOUS
<1>1. /\ chk.pc = "splice_c" /\ Touches({chk.current})
      /\ mem' = [mem EXCEPT !.next[chk.current] = task_head]
      /\ chk' = [chk EXCEPT !.pc = "splice_e"]
      /\ UNCHANGED <<now, valid, allocated, res_head, task_head, ins, want>>
  BY DEF splice_c, SpliceStep
<1>2. chk.pc \in SplicePcs
  BY <1>1 DEF SplicePcs
<1>3. /\ mem' \in Memory /\ mem'.next[allocated] = Gone + 1
      /\ \A a \in Ptr : a # allocated => mem'.next[a] = mem.next[a]
      /\ mem'.prev = mem.prev /\ mem'.timestamp = mem.timestamp
  <2>1. mem \in Memory
    BY Bounds
  <2> QED BY <1>1, <1>2, <2>1, StoreNext, SplicingFacts
<1>4. Claimed' = Claimed /\ Gone' = Gone
  BY <1>1, <1>3, Quiet, Bounds
<1>5. /\ chk' \in CheckLocals /\ chk'.pc = "splice_e" /\ chk'.current = allocated
      /\ chk'.pc \notin ExpiryPcs
  BY <1>1, <1>2, SplicingFacts DEF CheckLocals, CheckPcs, SplicePcs, ExpiryPcs, RelinkPcs
<1>6. /\ Forward(mem', Gone + 1, Claimed) /\ Forward(mem', Claimed + 1, allocated)
      /\ Back(mem', Gone + 1, Claimed) /\ Back(mem', Claimed + 1, allocated)
  <2>1. /\ Forward(mem, Gone + 1, Claimed) /\ Forward(mem, Claimed + 1, allocated)
        /\ Back(mem, Gone + 1, Claimed) /\ Back(mem, Claimed + 1, allocated)
    BY <1>2, SplicingFacts
  <2>2. \A i \in (Gone + 1)..(allocated - 1) : i \in Ptr /\ i # allocated
    BY Ranges
  <2>3. /\ \A i \in (Gone + 1)..(Claimed - 1) : i \in (Gone + 1)..(allocated - 1)
        /\ \A i \in (Claimed + 1)..(allocated - 1) : i \in (Gone + 1)..(allocated - 1)
    BY Ranges
  <2> QED BY <1>3, <2>1, <2>2, <2>3 DEF Forward, Back
<1>7. Claiming'
  BY <1>1, <1>2, <1>3, <1>4, <1>5, <1>6, SplicingFacts DEF Claiming, SplicePcs
<1>8. ~fault'
  <2>1. {chk.current} \subseteq valid
    BY <1>2, SplicingFacts
  <2> QED BY <1>1, <2>1, Safe
<1> QED BY <1>1, <1>2, <1>3, <1>5, <1>7, <1>8, ClaimQuiet, Bounds, SplicingFacts

LEMMA SpliceE == IInv /\ splice_e => IInv'
<1> SUFFICES ASSUME IInv, splice_e PROVE IInv'
  OBVIOUS
<1>1. /\ chk.pc = "splice_e" /\ Touches({task_head, mem.prev[task_head]})
      /\ mem' = [mem EXCEPT !.next[mem.prev[task_head]] = res_head]
      /\ chk' = [chk EXCEPT !.pc = "splice_d"]
      /\ UNCHANGED <<now, valid, allocated, res_head, task_head, ins, want>>
  BY DEF splice_e, SpliceStep
<1>2. chk.pc \in SplicePcs
  BY <1>1 DEF SplicePcs
<1>3. mem.next[allocated] = Gone + 1
  BY <1>1 DEF IInv, Claiming
<1>4. /\ mem' \in Memory /\ mem'.next[Claimed] = Claimed + 1
      /\ \A a \in Ptr : a # Claimed => mem'.next[a] = mem.next[a]
      /\ mem'.prev = mem.prev /\ mem'.timestamp = mem.timestamp
  <2>1. mem \in Memory
    BY Bounds
  <2> QED BY <1>1, <1>2, <2>1, StoreNext, SplicingFacts
<1>5. Claimed' = Claimed /\ Gone' = Gone
  BY <1>1, <1>4, Quiet, Bounds
<1>6. /\ chk' \in CheckLocals /\ chk'.pc = "splice_d" /\ chk'.current = allocated
      /\ chk'.pc \notin ExpiryPcs
  BY <1>1, <1>2, SplicingFacts DEF CheckLocals, CheckPcs, SplicePcs, ExpiryPcs, RelinkPcs
<1>7. /\ Forward(mem', Gone + 1, Claimed) /\ Forward(mem', Claimed + 1, allocated)
      /\ Back(mem', Gone + 1, Claimed) /\ Back(mem', Claimed + 1, allocated)
  <2>1. /\ Forward(mem, Gone + 1, Claimed) /\ Forward(mem, Claimed + 1, allocated)
        /\ Back(mem, Gone + 1, Claimed) /\ Back(mem, Claimed + 1, allocated)
    BY <1>2, SplicingFacts
  <2>2. /\ \A i \in (Gone + 1)..(Claimed - 1) : i \in Ptr /\ i # Claimed
        /\ \A i \in (Claimed + 1)..(allocated - 1) : i \in Ptr /\ i # Claimed
    BY Ranges, InPtr
  <2> QED BY <1>4, <2>1, <2>2 DEF Forward, Back
<1>8. mem'.next[allocated] = Gone + 1
  BY <1>2, <1>3, <1>4, Bounds, SplicingFacts
<1>9. Claiming'
  BY <1>1, <1>2, <1>4, <1>5, <1>6, <1>7, <1>8, SplicingFacts DEF Claiming, SplicePcs
<1>10. ~fault'
  <2>1. {task_head, mem.prev[task_head]} \subseteq valid
    BY <1>2, SplicingFacts
  <2> QED BY <1>1, <2>1, Safe
<1> QED BY <1>1, <1>2, <1>4, <1>6, <1>9, <1>10, ClaimQuiet, Bounds, SplicingFacts

LEMMA SpliceD == IInv /\ splice_d => IInv'
<1> SUFFICES ASSUME IInv, splice_d PROVE IInv'
  OBVIOUS
<1>1. /\ chk.pc = "splice_d" /\ Touches({task_head})
      /\ mem' = [mem EXCEPT !.prev[task_head] = chk.current]
      /\ chk' = [chk EXCEPT !.pc = "clear"]
      /\ UNCHANGED <<now, valid, allocated, res_head, task_head, ins, want>>
  BY DEF splice_d, SpliceStep
<1>2. chk.pc \in SplicePcs
  BY <1>1 DEF SplicePcs
<1>3. mem.next[allocated] = Gone + 1 /\ mem.next[Claimed] = Claimed + 1
  BY <1>1 DEF IInv, Claiming
<1>4. /\ mem' \in Memory /\ mem'.prev[Gone + 1] = allocated
      /\ \A a \in Ptr : a # Gone + 1 => mem'.prev[a] = mem.prev[a]
      /\ mem'.next = mem.next /\ mem'.timestamp = mem.timestamp
  <2>1. mem \in Memory
    BY Bounds
  <2> QED BY <1>1, <1>2, <2>1, StorePrev, SplicingFacts
<1>5. Claimed' = Claimed /\ Gone' = Gone
  BY <1>1, <1>4, Quiet, Bounds
<1>6. chk' \in CheckLocals /\ chk'.pc = "clear" /\ chk'.pc \notin ExpiryPcs
  BY <1>1, <1>2, SplicingFacts DEF CheckLocals, CheckPcs, ExpiryPcs, RelinkPcs
<1>7. Ring(mem', Gone + 1, allocated)
  <2>1. /\ Forward(mem, Gone + 1, Claimed) /\ Forward(mem, Claimed + 1, allocated)
        /\ Back(mem, Gone + 1, Claimed) /\ Back(mem, Claimed + 1, allocated)
        /\ mem.prev[Claimed + 1] = Claimed
    BY <1>2, SplicingFacts
  <2>2. \A i \in (Gone + 1)..(allocated - 1) :
          /\ i + 1 \in Ptr /\ i + 1 # Gone + 1
          /\ \/ i \in (Gone + 1)..(Claimed - 1)
             \/ i = Claimed
             \/ i \in (Claimed + 1)..(allocated - 1)
    BY Bounds, InPtr, SMTT(30)
  <2>3. Forward(mem', Gone + 1, allocated)
    BY <1>3, <1>4, <2>1, <2>2 DEF Forward
  <2>4. Back(mem', Gone + 1, allocated)
    BY <1>4, <2>1, <2>2 DEF Back
  <2> QED BY <1>3, <1>4, <2>3, <2>4 DEF Ring
<1>8. List(mem', task_head, Gone + 1, allocated)
  BY <1>2, <1>7, Bounds, SplicingFacts DEF List
<1>9. Claiming'
  BY <1>1, <1>2, <1>5, <1>6, <1>8, SplicingFacts DEF Claiming, SplicePcs
<1>10. ~fault'
  <2>1. {task_head} \subseteq valid
    BY <1>2, SplicingFacts
  <2> QED BY <1>1, <2>1, Safe
<1> QED BY <1>1, <1>2, <1>4, <1>6, <1>9, <1>10, ClaimQuiet, Bounds, SplicingFacts

LEMMA ClearHead == IInv /\ clear_head => IInv'
<1> SUFFICES ASSUME IInv, clear_head PROVE IInv'
  OBVIOUS
<1>1. /\ chk.pc = "clear" /\ res_head' = NULL
      /\ chk' = [chk EXCEPT !.pc = "expire"]
      /\ UNCHANGED <<now, mem, valid, allocated, task_head, ins, fault, want>>
  BY DEF clear_head
<1>2. chk.pc \in CheckPcs \ ExpiryPcs
  BY <1>1 DEF CheckPcs, ExpiryPcs, RelinkPcs
<1>3. ~fault /\ chk \in CheckLocals /\ ins.pc = "idle"
  BY <1>1, <1>2, ClaimingFacts
<1>4. List(mem, task_head, Gone + 1, allocated)
  BY <1>1 DEF IInv, Claiming
<1>5. Claimed' = Claimed /\ Gone' = Gone
  BY <1>1, Quiet, Bounds
<1>6. /\ chk' \in CheckLocals /\ chk'.pc = "expire" /\ chk'.pc \notin ExpiryPcs
      /\ NULL \in Ptr
  BY <1>1, <1>3 DEF CheckLocals, CheckPcs, ExpiryPcs, RelinkPcs, Ptr
<1>7. Claiming'
  BY <1>1, <1>3, <1>4, <1>5, <1>6 DEF Claiming, SplicePcs
<1> QED BY <1>1, <1>2, <1>3, <1>6, <1>7, ClaimQuiet, Bounds

-----------------------------------------------------------------------------
(* Removing expired tickets preserves the invariant.                       *)

\* What holds while expired tickets are removed.
LEMMA ExpiringFacts ==
  ASSUME IInv, chk.pc \in ExpiryPcs
  PROVE  /\ valid = chk.initial..allocated /\ ~fault
         /\ chk \in CheckLocals /\ ins.pc = "idle"
         /\ res_head = NULL /\ Claimed = allocated
         /\ chk.initial \in Nat \ {0} /\ chk.initial <= allocated
         /\ chk.count \in Nat
<1>1. /\ valid = chk.initial..allocated /\ ~fault /\ chk \in CheckLocals
  BY DEF IInv, First, Locals, CheckLocals
<1>2. res_head = NULL /\ Claimed = allocated /\ chk.initial > 0 /\ chk.initial <= allocated
  BY DEF IInv, Expiring
<1>3. ins.pc = "idle"
  BY DEF IInv, Claiming, ExpiryPcs, RelinkPcs
<1>4. chk.initial \in Nat \ {0} /\ chk.count \in Nat
  BY <1>1, <1>2 DEF CheckLocals, Ptr, Addr, NULL
<1> QED BY <1>1, <1>2, <1>3, <1>4

\* A step that frees nothing.
LEMMA ExpireQuiet ==
  ASSUME IInv, chk.pc \in ExpiryPcs, UNCHANGED <<now, valid, allocated, res_head, ins, want>>,
         mem' \in Memory, mem'.timestamp = mem.timestamp, task_head' \in Ptr,
         chk' \in CheckLocals, ~fault', chk'.pc \in ExpiryPcs, chk'.initial = chk.initial,
         Expiring'
  PROVE  IInv'
<1>1. valid' = First'..allocated
  BY ExpiringFacts DEF First
<1>2. Claiming'
  BY ExpiringFacts DEF Claiming, SplicePcs, ExpiryPcs, RelinkPcs
<1> QED BY <1>1, <1>2, CheckQuiet, Bounds, ExpiringFacts

\* The loop over the expired tickets: where it is, and what it sees.
LEMMA WalkFacts ==
  ASSUME IInv, chk.pc = "walk"
  PROVE  /\ chk.pc \in ExpiryPcs
         /\ task_head = chk.initial /\ chk.current = chk.initial + chk.count
         /\ chk.current \in Nat /\ chk.current <= allocated /\ chk.current <= Gone + 1
         /\ Ring(mem, chk.initial, allocated)
         /\ mem.next[chk.current] = IF chk.current = allocated THEN chk.initial
                                                               ELSE chk.current + 1
         /\ CurrentExpired <=> chk.current <= Gone
         /\ CurrentMoves <=> chk.current <= Gone /\ chk.current < allocated
         /\ {chk.current, mem.next[chk.current]} \subseteq valid
         /\ mem.next[chk.current] \in Ptr
<1>1. chk.pc \in ExpiryPcs
  BY DEF ExpiryPcs
<1>2. /\ task_head = chk.initial /\ chk.current = chk.initial + chk.count
      /\ chk.current <= allocated /\ chk.current <= Gone + 1
      /\ Ring(mem, chk.initial, allocated)
      /\ \A a \in 1..allocated :
           a >= chk.initial => (mem.timestamp[a] <= chk.threshold <=> a <= Gone)
  BY DEF IInv, Expiring
<1>3. PICK f \in Nat \ {0} : f = chk.initial
  BY <1>1, ExpiringFacts
<1>4. PICK c \in Nat : c = chk.current
  BY <1>1, <1>2, ExpiringFacts
<1>5. PICK n : n = mem.next[c]
  OBVIOUS
<1>6. c >= f /\ c <= allocated /\ f <= allocated /\ allocated \in Nat /\ Gone \in Nat
  BY <1>1, <1>2, <1>3, <1>4, ExpiringFacts, Ranges
<1>7. n = IF c = allocated THEN f ELSE c + 1
  BY <1>2, <1>3, <1>5, <1>6 DEF Ring, Forward
<1>8. c \in 1..allocated /\ n \in 1..allocated /\ {c, n} \subseteq f..allocated
  BY <1>6, <1>7
<1>9. mem.timestamp[c] <= chk.threshold <=> c <= Gone
  BY <1>2, <1>3, <1>6, <1>8
<1>10. mem.timestamp[c] < mem.timestamp[n] <=> c < allocated
  <2>1. /\ mem.timestamp[c] \in Nat /\ mem.timestamp[n] \in Nat
        /\ c < n => mem.timestamp[c] < mem.timestamp[n]
        /\ n < c => mem.timestamp[n] < mem.timestamp[c]
    BY <1>8 DEF IInv, Stamped
  <2>2. CASE c = allocated
    <3>1. n < c \/ n = c
      BY <1>6, <1>7, <2>2
    <3> QED BY <2>1, <2>2, <3>1, <1>6
  <2>3. CASE c # allocated
    BY <2>1, <2>3, <1>6, <1>7
  <2> QED BY <2>2, <2>3
<1>11. n \in Ptr /\ {c, n} \subseteq valid
  BY <1>1, <1>3, <1>8, Ranges, ExpiringFacts
<1>12. (CurrentExpired <=> c <= Gone) /\ (CurrentMoves <=> c <= Gone /\ c < allocated)
  BY <1>4, <1>5, <1>9, <1>10 DEF CurrentExpired, CurrentMoves
<1> QED BY <1>1, <1>2, <1>3, <1>4, <1>5, <1>7, <1>11, <1>12

LEMMA WalkExpired == IInv /\ walk_expired => IInv'
<1> SUFFICES ASSUME IInv, walk_expired PROVE IInv'
  OBVIOUS
<1>1. /\ chk.pc = "walk" /\ CurrentMoves
      /\ Touches({chk.current, mem.next[chk.current]})
      /\ chk' = [chk EXCEPT !.current = mem.next[chk.current], !.count = @ + 1]
      /\ UNCHANGED <<now, mem, valid, allocated, res_head, task_head, ins, want>>
  BY DEF walk_expired, CheckStep
<1>2. ~fault'
  BY <1>1, WalkFacts, Safe
<1>3. Claimed' = Claimed /\ Gone' = Gone
  BY <1>1, Quiet, Bounds
<1>4. /\ chk.current <= Gone /\ chk.current < allocated
      /\ mem.next[chk.current] = chk.current + 1
  BY <1>1, WalkFacts, Ranges
<1>5. chk.count + 1 \in 0..MaxTickets
  <2>1. /\ chk.current = chk.initial + chk.count /\ chk.initial \in Nat \ {0}
        /\ chk.count \in Nat /\ chk.current < allocated /\ allocated <= MaxTickets
        /\ allocated \in Nat
    BY <1>1, <1>4, WalkFacts, ExpiringFacts, Bounds
  <2> QED BY <2>1
<1>6. chk \in CheckLocals /\ mem.next[chk.current] \in Ptr
  BY <1>1, WalkFacts, ExpiringFacts
<1>7. /\ chk' \in CheckLocals /\ chk'.pc = "walk" /\ chk'.initial = chk.initial
      /\ chk'.current = chk.current + 1 /\ chk'.count = chk.count + 1
      /\ chk'.threshold = chk.threshold
  BY <1>1, <1>4, <1>5, <1>6, Zenon DEF CheckLocals
<1>8. /\ chk.current + 1 = chk.initial + (chk.count + 1)
      /\ chk.current + 1 <= allocated /\ chk.current + 1 <= Gone + 1
  <2>1. /\ chk.current = chk.initial + chk.count /\ chk.initial \in Nat
        /\ chk.count \in Nat /\ chk.current \in Nat
    BY <1>1, WalkFacts, ExpiringFacts
  <2> QED BY <1>4, <2>1, Ranges
<1>9. Expiring'
  <2>1. /\ chk.initial > 0 /\ chk.initial <= allocated /\ res_head = NULL
        /\ Claimed = allocated /\ task_head = chk.initial
        /\ Forward(mem, chk.initial, allocated) /\ Ring(mem, chk.initial, allocated)
        /\ \A a \in 1..allocated :
             a >= chk.initial => (mem.timestamp[a] <= chk.threshold <=> a <= Gone)
    BY <1>1 DEF IInv, Expiring, ExpiryPcs
  <2> QED BY <1>1, <1>3, <1>7, <1>8, <2>1 DEF Expiring, RelinkPcs
<1> QED BY <1>1, <1>2, <1>7, <1>9, WalkFacts, ExpireQuiet, Bounds, SMTT(30)

LEMMA DropList == IInv /\ drop_list => IInv'
<1> SUFFICES ASSUME IInv, drop_list PROVE IInv'
  OBVIOUS
<1>1. /\ chk.pc = "walk" /\ CurrentExpired /\ ~CurrentMoves
      /\ Touches({chk.current, mem.next[chk.current]})
      /\ task_head' = NULL
      /\ chk' = [chk EXCEPT !.pc = "free", !.count = @ + 1]
      /\ UNCHANGED <<now, mem, valid, allocated, res_head, ins, want>>
  BY DEF drop_list
<1>2. ~fault'
  BY <1>1, WalkFacts, Safe
<1>3. Claimed' = Claimed /\ Gone' = Gone
  BY <1>1, Quiet, Bounds
<1>4. /\ chk.current = chk.initial + chk.count /\ chk.initial \in Nat \ {0}
      /\ chk.count \in Nat /\ chk.current \in Nat /\ chk.current <= allocated
      /\ allocated <= MaxTickets /\ allocated \in Nat /\ chk.initial <= allocated
      /\ Gone \in Nat /\ Gone <= Claimed /\ Claimed = allocated
  BY <1>1, WalkFacts, ExpiringFacts, Bounds
<1>5. chk.current = allocated /\ Gone = allocated
  BY <1>1, <1>4, WalkFacts
<1>6. chk.count + 1 \in 0..MaxTickets /\ chk.count + 1 = Gone + 1 - chk.initial
  BY <1>4, <1>5
<1>7. chk \in CheckLocals /\ chk.pc \in ExpiryPcs /\ res_head = NULL
  BY <1>1, WalkFacts, ExpiringFacts
<1>8. /\ chk' \in CheckLocals /\ chk'.pc = "free" /\ chk'.initial = chk.initial
      /\ chk'.count = chk.count + 1
  BY <1>1, <1>6, <1>7, Zenon DEF CheckLocals, CheckPcs, ExpiryPcs
<1>9. Forward(mem, chk.initial, Gone)
  BY <1>1, <1>5, WalkFacts DEF Ring
<1>10. List(mem, NULL, Gone + 1, allocated)
  BY <1>4, <1>5 DEF List
<1>11. Expiring'
  <2>1. chk.initial > 0 /\ chk.initial <= Gone
    BY <1>4, <1>5
  <2> QED BY <1>1, <1>3, <1>4, <1>6, <1>7, <1>8, <1>9, <1>10, <2>1
          DEF Expiring, RelinkPcs
<1>12. chk'.pc \in ExpiryPcs /\ NULL \in Ptr
  BY <1>8 DEF ExpiryPcs, Ptr
<1> QED BY <1>1, <1>2, <1>7, <1>8, <1>11, <1>12, ExpireQuiet, Bounds

LEMMA KeepRest == IInv /\ keep_rest => IInv'
<1> SUFFICES ASSUME IInv, keep_rest PROVE IInv'
  OBVIOUS
<1>1. /\ chk.pc = "walk" /\ ~CurrentExpired
      /\ Touches({chk.current})
      /\ chk' = [chk EXCEPT !.pc = IF chk.count > 0 THEN "relink" ELSE "idle"]
      /\ UNCHANGED <<now, mem, valid, allocated, res_head, task_head, ins, want>>
  BY DEF keep_rest, CheckStep
<1>2. ~fault'
  <2>1. {chk.current} \subseteq valid
    BY <1>1, WalkFacts
  <2> QED BY <1>1, <2>1, Safe
<1>3. Claimed' = Claimed /\ Gone' = Gone
  BY <1>1, Quiet, Bounds
<1>4. /\ chk.current = chk.initial + chk.count /\ chk.initial \in Nat \ {0}
      /\ chk.count \in Nat /\ chk.current <= allocated
      /\ allocated \in Nat /\ chk.initial <= allocated
      /\ Gone \in Nat /\ Claimed = allocated
      /\ task_head = chk.initial /\ res_head = NULL
      /\ Ring(mem, chk.initial, allocated)
      /\ valid = chk.initial..allocated
      /\ chk \in CheckLocals /\ ins.pc = "idle"
  BY <1>1, WalkFacts, ExpiringFacts, Ranges
<1>5. chk.current = Gone + 1
  BY <1>1, <1>4, WalkFacts
<1>6. CASE chk.count > 0
  <2>1. chk' \in CheckLocals /\ chk' = [chk EXCEPT !.pc = "relink"]
    BY <1>1, <1>4, <1>6 DEF CheckLocals, CheckPcs, ExpiryPcs, RelinkPcs
  <2>2. /\ chk'.pc = "relink" /\ chk'.initial = chk.initial /\ chk'.count = chk.count
        /\ chk'.current = chk.current
    BY <1>4, <2>1 DEF CheckLocals
  <2>3. Expiring'
    BY <1>1, <1>3, <1>4, <1>5, <1>6, <2>2 DEF Expiring, Ring, RelinkPcs, ExpiryPcs
  <2> QED BY <1>1, <1>2, <2>1, <2>2, <2>3, WalkFacts, ExpireQuiet, Bounds
          DEF ExpiryPcs, RelinkPcs
<1>7. CASE ~(chk.count > 0)
  <2>1. chk.initial = Gone + 1
    BY <1>4, <1>5, <1>7
  <2>2. chk' \in CheckLocals /\ chk'.pc = "idle"
    BY <1>1, <1>4, <1>7 DEF CheckLocals, CheckPcs
  <2>3. List(mem, res_head, Claimed + 1, allocated) /\ List(mem, task_head, Gone + 1, Claimed)
    BY <1>4, <2>1 DEF List
  <2>4. Claiming' /\ Expiring'
    BY <1>1, <1>3, <1>4, <2>2, <2>3 DEF Claiming, Expiring, SplicePcs, ExpiryPcs, RelinkPcs
  <2>5. valid' = First'..allocated
    BY <1>1, <1>3, <1>4, <2>1, <2>2 DEF First, ExpiryPcs, RelinkPcs
  <2> QED BY <1>1, <1>2, <1>4, <2>2, <2>4, <2>5, CheckQuiet, Bounds
<1> QED BY <1>6, <1>7

\* What holds while the head of the list moves past the expired tickets.
LEMMA RelinkFacts ==
  ASSUME IInv, chk.pc \in RelinkPcs
  PROVE  /\ chk.pc \in ExpiryPcs
         /\ task_head = chk.initial /\ chk.current = chk.initial + chk.count
         /\ chk.current = Gone + 1 /\ chk.count > 0 /\ Gone < allocated
         /\ chk.initial <= Gone
         /\ Forward(mem, chk.initial, allocated)
         /\ mem.prev[chk.initial] = allocated
         /\ Back(mem, Gone + 1, allocated)
         /\ {allocated, chk.initial, Gone + 1} \subseteq Ptr
         /\ {allocated, chk.initial, Gone + 1} \subseteq valid
<1>1. chk.pc \in ExpiryPcs
  BY DEF ExpiryPcs
<1>2. /\ task_head = chk.initial /\ chk.current = chk.initial + chk.count
      /\ chk.current <= allocated /\ chk.current = Gone + 1 /\ chk.count > 0
      /\ Forward(mem, chk.initial, allocated)
  BY DEF IInv, Expiring
<1>3. Gone < allocated /\ chk.initial <= Gone /\ chk.initial > 0
  BY <1>1, <1>2, ExpiringFacts, Ranges
<1>4. mem.prev[chk.initial] = allocated /\ Back(mem, Gone + 1, allocated)
  <2>1. CASE chk.pc = "relink"
    <3>1. Ring(mem, chk.initial, allocated)
      BY <2>1 DEF IInv, Expiring
    <3>2. \A i \in (Gone + 1)..(allocated - 1) : i \in chk.initial..(allocated - 1)
      BY <1>1, <1>3, ExpiringFacts, Ranges
    <3> QED BY <3>1, <3>2 DEF Ring, Back
  <2>2. CASE chk.pc # "relink"
    BY <2>2 DEF IInv, Expiring, RelinkPcs
  <2> QED BY <2>1, <2>2
<1>5. {allocated, chk.initial, Gone + 1} \subseteq 1..allocated
  BY <1>1, <1>3, ExpiringFacts, Ranges
<1>6. {allocated, chk.initial, Gone + 1} \subseteq valid
  BY <1>1, <1>3, ExpiringFacts, Ranges
<1> QED BY <1>1, <1>2, <1>3, <1>4, <1>5, <1>6, Ranges

LEMMA RelinkPrev == IInv /\ relink_prev => IInv'
<1> SUFFICES ASSUME IInv, relink_prev PROVE IInv'
  OBVIOUS
<1>1. /\ chk.pc = "relink" /\ Touches({chk.current, task_head})
      /\ mem' = [mem EXCEPT !.prev[chk.current] = mem.prev[task_head]]
      /\ chk' = [chk EXCEPT !.pc = "relink_next"]
      /\ UNCHANGED <<now, valid, allocated, res_head, task_head, ins, want>>
  BY DEF relink_prev, SpliceStep
<1>2. chk.pc \in RelinkPcs /\ mem \in Memory
  BY <1>1, Bounds DEF RelinkPcs
<1>3. /\ mem' \in Memory /\ mem'.prev[Gone + 1] = allocated
      /\ \A a \in Ptr : a # Gone + 1 => mem'.prev[a] = mem.prev[a]
      /\ mem'.next = mem.next /\ mem'.timestamp = mem.timestamp
  BY <1>1, <1>2, StorePrev, RelinkFacts
<1>4. ~fault'
  <2>1. {chk.current, task_head} \subseteq valid
    BY <1>2, RelinkFacts
  <2> QED BY <1>1, <2>1, Safe
<1>5. Claimed' = Claimed /\ Gone' = Gone
  BY <1>1, <1>3, Quiet, Bounds
<1>6. /\ chk' \in CheckLocals /\ chk'.pc = "relink_next" /\ chk'.initial = chk.initial
      /\ chk'.current = chk.current /\ chk'.count = chk.count /\ chk'.pc \in ExpiryPcs
  BY <1>1, <1>2, ExpiringFacts, RelinkFacts DEF CheckLocals, CheckPcs, ExpiryPcs, RelinkPcs
<1>7. Back(mem', Gone + 1, allocated)
  <2>1. \A i \in (Gone + 1)..(allocated - 1) : i + 1 \in Ptr /\ i + 1 # Gone + 1
    BY Ranges
  <2> QED BY <1>2, <1>3, <2>1, RelinkFacts DEF Back
<1>8. mem'.prev[chk.initial] = allocated
  <2>1. chk.initial # Gone + 1 /\ chk.initial \in Ptr
    BY <1>2, RelinkFacts, ExpiringFacts, Ranges
  <2> QED BY <1>2, <1>3, <2>1, RelinkFacts
<1>9. Forward(mem', chk.initial, allocated)
  BY <1>2, <1>3, RelinkFacts DEF Forward
<1>10. Expiring'
  <2>1. chk.initial > 0 /\ Gone + 1 <= allocated
    BY <1>2, RelinkFacts, ExpiringFacts, Ranges
  <2> QED BY <1>1, <1>2, <1>3, <1>5, <1>6, <1>7, <1>8, <1>9, <2>1,
             RelinkFacts, ExpiringFacts DEF Expiring, RelinkPcs
<1> QED BY <1>1, <1>2, <1>3, <1>4, <1>6, <1>10, RelinkFacts, ExpireQuiet, Bounds

LEMMA RelinkNext == IInv /\ relink_next => IInv'
<1> SUFFICES ASSUME IInv, relink_next PROVE IInv'
  OBVIOUS
<1>1. /\ chk.pc = "relink_next" /\ Touches({task_head, mem.prev[task_head]})
      /\ mem' = [mem EXCEPT !.next[mem.prev[task_head]] = chk.current]
      /\ chk' = [chk EXCEPT !.pc = "relink_head"]
      /\ UNCHANGED <<now, valid, allocated, res_head, task_head, ins, want>>
  BY DEF relink_next, SpliceStep
<1>2. chk.pc \in RelinkPcs /\ mem \in Memory
  BY <1>1, Bounds DEF RelinkPcs
<1>3. mem.prev[Gone + 1] = allocated
  BY <1>1 DEF IInv, Expiring
<1>4. /\ mem' \in Memory /\ mem'.next[allocated] = Gone + 1
      /\ \A a \in Ptr : a # allocated => mem'.next[a] = mem.next[a]
      /\ mem'.prev = mem.prev /\ mem'.timestamp = mem.timestamp
  BY <1>1, <1>2, StoreNext, RelinkFacts
<1>5. ~fault'
  <2>1. {task_head, mem.prev[task_head]} \subseteq valid
    BY <1>2, RelinkFacts
  <2> QED BY <1>1, <2>1, Safe
<1>6. Claimed' = Claimed /\ Gone' = Gone
  BY <1>1, <1>4, Quiet, Bounds
<1>7. /\ chk' \in CheckLocals /\ chk'.pc = "relink_head" /\ chk'.initial = chk.initial
      /\ chk'.current = chk.current /\ chk'.count = chk.count /\ chk'.pc \in ExpiryPcs
  BY <1>1, <1>2, ExpiringFacts, RelinkFacts DEF CheckLocals, CheckPcs, ExpiryPcs, RelinkPcs
<1>8. Forward(mem', chk.initial, allocated)
  <2>1. \A i \in chk.initial..(allocated - 1) : i \in Ptr /\ i # allocated
    BY <1>2, Ranges, RelinkFacts, ExpiringFacts
  <2> QED BY <1>2, <1>4, <2>1, RelinkFacts DEF Forward
<1>9. Back(mem', Gone + 1, allocated) /\ mem'.prev[chk.initial] = allocated
  BY <1>2, <1>4, RelinkFacts DEF Back
<1>10. Expiring'
  <2>1. chk.initial > 0 /\ Gone + 1 <= allocated
    BY <1>2, RelinkFacts, ExpiringFacts, Ranges
  <2> QED BY <1>1, <1>2, <1>3, <1>4, <1>6, <1>7, <1>8, <1>9, <2>1,
             RelinkFacts, ExpiringFacts DEF Expiring, RelinkPcs
<1> QED BY <1>1, <1>2, <1>4, <1>5, <1>7, <1>10, RelinkFacts, ExpireQuiet, Bounds

LEMMA RelinkHead == IInv /\ relink_head => IInv'
<1> SUFFICES ASSUME IInv, relink_head PROVE IInv'
  OBVIOUS
<1>1. /\ chk.pc = "relink_head" /\ task_head' = chk.current
      /\ chk' = [chk EXCEPT !.pc = "free"]
      /\ UNCHANGED <<now, mem, valid, allocated, res_head, ins, fault, want>>
  BY DEF relink_head
<1>2. chk.pc \in RelinkPcs /\ mem \in Memory
  BY <1>1, Bounds DEF RelinkPcs
<1>3. mem.prev[Gone + 1] = allocated /\ mem.next[allocated] = Gone + 1
  BY <1>1 DEF IInv, Expiring
<1>4. Claimed' = Claimed /\ Gone' = Gone
  BY <1>1, Quiet, Bounds
<1>5. /\ chk' \in CheckLocals /\ chk'.pc = "free" /\ chk'.initial = chk.initial
      /\ chk'.count = chk.count /\ chk'.pc \in ExpiryPcs
  BY <1>1, <1>2, ExpiringFacts, RelinkFacts DEF CheckLocals, CheckPcs, ExpiryPcs
<1>6. /\ chk.initial + chk.count = Gone + 1 /\ Gone < allocated
      /\ chk.initial \in Nat \ {0} /\ chk.count \in Nat /\ chk.initial <= Gone
      /\ Gone \in Nat /\ allocated \in Nat
  BY <1>2, RelinkFacts, ExpiringFacts, Ranges
<1>7. Forward(mem, chk.initial, Gone) /\ Forward(mem, Gone + 1, allocated)
  <2>1. /\ \A i \in chk.initial..(Gone - 1) : i \in chk.initial..(allocated - 1)
        /\ \A i \in (Gone + 1)..(allocated - 1) : i \in chk.initial..(allocated - 1)
    BY <1>6
  <2> QED BY <1>2, <2>1, RelinkFacts DEF Forward
<1>8. List(mem, task_head', Gone + 1, allocated)
  BY <1>1, <1>2, <1>3, <1>6, <1>7, RelinkFacts DEF List, Ring
<1>9. Expiring'
  <2>1. chk.initial > 0 /\ chk.count = Gone + 1 - chk.initial
    BY <1>6
  <2> QED BY <1>1, <1>2, <1>4, <1>5, <1>6, <1>7, <1>8, <2>1,
             RelinkFacts, ExpiringFacts DEF Expiring, RelinkPcs
<1>10. task_head' \in Ptr /\ ~fault'
  BY <1>1, <1>2, Bounds, RelinkFacts, ExpiringFacts
<1> QED BY <1>1, <1>2, <1>5, <1>9, <1>10, RelinkFacts, ExpireQuiet

LEMMA FreeTicket == IInv /\ free_ticket => IInv'
<1> SUFFICES ASSUME IInv, free_ticket PROVE IInv'
  OBVIOUS
<1>1. /\ chk.pc = "free" /\ Touches({chk.initial})
      /\ valid' = valid \ {chk.initial}
      /\ chk' = [chk EXCEPT !.pc = IF chk.count = 1 THEN "idle" ELSE "free",
                            !.current = chk.initial,
                            !.initial = mem.next[chk.initial], !.count = @ - 1]
      /\ UNCHANGED <<now, mem, allocated, res_head, task_head, ins, want>>
  BY DEF free_ticket
<1>2. chk.pc \in ExpiryPcs /\ mem \in Memory
  BY <1>1, Bounds DEF ExpiryPcs
<1>3. /\ List(mem, task_head, Gone + 1, allocated)
      /\ chk.initial <= Gone
      /\ chk.count = Gone + 1 - chk.initial
      /\ Forward(mem, chk.initial, Gone)
  BY <1>1 DEF IInv, Expiring
<1>4. PICK f : f = chk.initial
  OBVIOUS
<1>5. /\ f \in Nat \ {0} /\ f <= Gone /\ Gone \in Nat /\ Gone <= allocated
      /\ allocated \in Nat /\ f \in Ptr /\ mem.next[f] \in Ptr
      /\ chk.count \in Nat /\ chk.count <= MaxTickets
      /\ chk \in CheckLocals /\ valid = f..allocated
      /\ ins.pc = "idle" /\ res_head = NULL /\ Claimed = allocated
  BY <1>2, <1>3, <1>4, ExpiringFacts, Ranges, Bounds, MemoryTypes
<1>6. f < Gone => mem.next[f] = f + 1
  BY <1>3, <1>4, <1>5 DEF Forward
<1>7. valid' = (f + 1)..allocated
  BY <1>1, <1>4, <1>5
<1>8. ~fault'
  <2>1. {chk.initial} \subseteq valid
    BY <1>4, <1>5
  <2> QED BY <1>1, <2>1, Safe
<1>9. Claimed' = Claimed /\ Gone' = Gone
  BY <1>1, Quiet, Bounds
<1>10. chk.count - 1 \in 0..MaxTickets /\ (chk.count = 1 <=> f = Gone)
  BY <1>3, <1>4, <1>5
<1>11. /\ chk' \in CheckLocals
       /\ chk'.pc = IF chk.count = 1 THEN "idle" ELSE "free"
       /\ chk'.initial = mem.next[f] /\ chk'.count = chk.count - 1
  BY <1>1, <1>4, <1>5, <1>10, Zenon DEF CheckLocals, CheckPcs, ExpiryPcs
<1>12. CASE f = Gone
  <2>1. chk'.pc = "idle"
    BY <1>10, <1>11, <1>12
  <2>2. List(mem, res_head, Claimed + 1, allocated) /\ List(mem, task_head, Gone + 1, Claimed)
    BY <1>3, <1>5 DEF List
  <2>3. Claiming' /\ Expiring'
    BY <1>1, <1>5, <1>9, <2>1, <2>2 DEF Claiming, Expiring, SplicePcs, ExpiryPcs, RelinkPcs
  <2>4. valid' = First'..allocated
    BY <1>7, <1>9, <1>12, <2>1 DEF First, ExpiryPcs, RelinkPcs
  <2> QED BY <1>1, <1>2, <1>5, <1>8, <1>11, <2>3, <2>4, CheckQuiet, Bounds
<1>13. CASE f # Gone
  <2>1. chk'.pc = "free" /\ chk'.initial = f + 1
    BY <1>5, <1>6, <1>10, <1>11, <1>13
  <2>2. Forward(mem, f + 1, Gone)
    BY <1>3, <1>4, <1>5 DEF Forward
  <2>3. f + 1 <= Gone /\ f + 1 > 0 /\ chk.count - 1 = Gone + 1 - (f + 1) /\ f + 1 <= allocated
    BY <1>3, <1>4, <1>5, <1>13
  <2>4. Expiring'
    BY <1>1, <1>3, <1>5, <1>9, <1>11, <2>1, <2>2, <2>3 DEF Expiring, RelinkPcs
  <2>5. Claiming'
    BY <1>1, <1>5, <2>1 DEF Claiming, SplicePcs
  <2>6. valid' = First'..allocated
    BY <1>7, <2>1 DEF First, ExpiryPcs
  <2> QED BY <1>1, <1>2, <1>5, <1>8, <1>11, <2>4, <2>5, <2>6, CheckQuiet, Bounds
<1> QED BY <1>12, <1>13

-----------------------------------------------------------------------------
(* The clock is read: what an expiry will drop is a prefix of the list.    *)

INSTANCE SequenceTheorems
INSTANCE FiniteSetTheorems

\* The n tickets after g.
Following(g, n) == [i \in 1..n |-> g + i]

\* An interval of tickets loses a prefix.
LEMMA SelectSuffix ==
  ASSUME NEW g \in Nat, NEW n \in Nat, NEW k \in 0..n,
         \A i \in 1..n : mem.timestamp[g + i] > now - Expiry <=> k < i
  PROVE  SelectUnexpired(Following(g, n)) = Following(g + k, n - k)
<1>0. PICK s : s = Following(g, n)
  OBVIOUS
<1> DEFINE kept == {i \in DOMAIN s : mem.timestamp[s[i]] > now - Expiry}
           rank(i) == Cardinality({j \in kept : j <= i})
<1>1. kept = (k + 1)..n
  <2>1. DOMAIN s = 1..n /\ \A i \in 1..n : s[i] = g + i
    BY <1>0 DEF Following
  <2>2. \A i : i \in kept <=> i \in 1..n /\ k < i
    BY <2>1, SMTT(30)
  <2>3. \A i : i \in (k + 1)..n <=> i \in 1..n /\ k < i
    OBVIOUS
  <2> HIDE DEF kept
  <2> QED BY <2>2, <2>3, Zenon
<1>2. Cardinality(kept) = n - k
  <2>1. k + 1 \in Int /\ n \in Int /\ (IF k + 1 > n THEN 0 ELSE n - (k + 1) + 1) = n - k
    OBVIOUS
  <2> HIDE DEF kept
  <2> QED BY <1>1, <2>1, FS_Interval, Zenon
<1>3. \A i \in kept : rank(i) = i - k
  <2> HIDE DEF kept
  <2> SUFFICES ASSUME NEW i \in kept PROVE rank(i) = i - k
    OBVIOUS
  <2>1. /\ i \in Int /\ k + 1 \in Int
        /\ (IF k + 1 > i THEN 0 ELSE i - (k + 1) + 1) = i - k
    BY <1>1
  <2>2. {j \in kept : j <= i} = (k + 1)..i
    BY <1>1
  <2> QED BY <2>1, <2>2, FS_Interval, Zenon
<1>4. SelectUnexpired(s) = [j \in 1..(n - k) |-> s[CHOOSE i \in kept : rank(i) = j]]
  BY <1>2 DEF SelectUnexpired
<1> HIDE DEF kept, rank
<1>5. ASSUME NEW j \in 1..(n - k)
      PROVE  (CHOOSE i \in kept : rank(i) = j) = k + j
  <2>1. k + j \in kept /\ rank(k + j) = j
    BY <1>1, <1>3
  <2>2. \A i \in kept : rank(i) = j => i = k + j
    BY <1>1, <1>3
  <2> QED BY <2>1, <2>2
<1>6. \A j \in 1..(n - k) : k + j \in 1..n /\ s[k + j] = g + k + j
  BY <1>0 DEF Following
<1> QED BY <1>0, <1>4, <1>5, <1>6, Zenon DEF Following

\* A non-empty set of naturals has a least element.
LEMMA LeastNat ==
  ASSUME NEW T, T \subseteq Nat, T # {}
  PROVE  \E x \in T : \A y \in T : x <= y
<1> DEFINE R == {ss \in Nat \X Nat : ss[1] < ss[2]}
<1>1. IsWellFoundedOn(R, Nat)
  BY NatLessThanWellFounded DEF OpToRel
<1> HIDE DEF R
<1>2. PICK x \in T : \A y \in T : ~(<<y, x>> \in R)
  BY <1>1, WFMin, Zenon
<1>3. ASSUME NEW y \in T, y < x PROVE FALSE
  <2>1. <<y, x>> \in R
    BY <1>3 DEF R
  <2> QED BY <2>1, <1>2
<1> QED BY <1>3

\* On a list with growing timestamps the expired tickets are a prefix.
LEMMA ExpiredPrefix ==
  ASSUME NEW n \in Nat, NEW f \in [1..n -> Int], NEW t \in Int,
         \A i, j \in 1..n : i < j => f[i] < f[j]
  PROVE  \E k \in 0..n : \A i \in 1..n : f[i] > t <=> k < i
<1> DEFINE T == {i \in 1..n : f[i] > t}
<1>1. CASE T = {}
  <2>1. n \in 0..n /\ \A i \in 1..n : f[i] > t <=> n < i
    BY <1>1
  <2> QED BY <2>1
<1>2. CASE T # {}
  <2>1. PICK x \in T : \A y \in T : x <= y
    <3>1. T \subseteq Nat
      OBVIOUS
    <3> HIDE DEF T
    <3> QED BY <1>2, <3>1, LeastNat, Zenon
  <2>2. x - 1 \in 0..n
    BY <2>1
  <2>3. ASSUME NEW i \in 1..n PROVE f[i] > t <=> x - 1 < i
    <3>1. CASE i < x
      BY <2>1, <3>1
    <3>2. CASE i = x
      BY <2>1, <3>2
    <3>3. CASE x < i
      BY <2>1, <3>3
    <3> QED BY <2>1, <3>1, <3>2, <3>3
  <2> QED BY <2>2, <2>3, Zenon
<1> QED BY <1>1, <1>2

\* When the expiry starts, the tickets of the process and those it has claimed
\* are the ones after the last freed one, and those to be freed come first.
LEMMA ExpiryInterval ==
  ASSUME IInv
  PROVE  \E n \in Nat : \E k \in 0..n :
           /\ n = allocated - Gone
           /\ want_task \o want_res = Following(Gone, n)
           /\ \A i \in 1..n : mem.timestamp[Gone + i] > now - Expiry <=> k < i
<1>1. /\ allocated \in Nat /\ Claimed \in Nat /\ Gone \in Nat
      /\ Gone <= Claimed /\ Claimed <= allocated /\ now \in Nat
      /\ Len(want_res) = allocated - Claimed /\ Len(want_task) = Claimed - Gone
  BY Bounds
<1>2. want_res \in Seq(Addr) /\ want_task \in Seq(Addr)
  BY DEF IInv, TypeOK
<1>3. PICK n \in Nat : n = allocated - Gone
  BY <1>1
<1>4. PICK s : s = want_task \o want_res
  BY Zenon
<1>5. s = [i \in 1..n |-> Gone + i]
  <2>1. /\ want_res = [i \in 1..Len(want_res) |-> Claimed + i]
        /\ want_task = [i \in 1..Len(want_task) |-> Gone + i]
    BY DEF IInv, Numbered
  <2>2. s = [i \in 1..n |-> IF i <= Len(want_task) THEN want_task[i]
                                                   ELSE want_res[i - Len(want_task)]]
    <3>1. Len(want_task) + Len(want_res) = n
      BY <1>1, <1>3
    <3>2. /\ s \in Seq(Addr) /\ Len(s) = Len(want_task) + Len(want_res)
          /\ \A i \in 1..Len(s) : s[i] = IF i <= Len(want_task) THEN want_task[i]
                                         ELSE want_res[i - Len(want_task)]
      BY <1>2, <1>4, ConcatProperties
    <3>3. s = [i \in 1..n |-> s[i]]
      BY <3>1, <3>2
    <3> QED BY <3>1, <3>2, <3>3
  <2>3. \A i \in 1..n : (IF i <= Len(want_task) THEN want_task[i]
                                                ELSE want_res[i - Len(want_task)]) = Gone + i
    BY <1>1, <1>3, <2>1
  <2> QED BY <2>2, <2>3
<1>6. PICK k \in 0..n : \A i \in 1..n : mem.timestamp[Gone + i] > now - Expiry <=> k < i
  <2> DEFINE f == [i \in 1..n |-> mem.timestamp[Gone + i]]
  <2>1. \A i \in 1..n : Gone + i \in 1..allocated
    BY <1>1, <1>3
  <2>2. f \in [1..n -> Int] /\ \A i, j \in 1..n : i < j => f[i] < f[j]
    <3>1. /\ \A a \in 1..allocated : mem.timestamp[a] \in Int
          /\ \A a, b \in 1..allocated : a < b => mem.timestamp[a] < mem.timestamp[b]
      BY DEF IInv, Stamped
    <3>2. \A i, j \in 1..n : i < j => Gone + i < Gone + j
      BY <1>1
    <3> QED BY <2>1, <3>1, <3>2
  <2>3. now - Expiry \in Int
    BY <1>1
  <2>4. \A i \in 1..n : f[i] = mem.timestamp[Gone + i]
    OBVIOUS
  <2> HIDE DEF f
  <2>5. \E k \in 0..n : \A i \in 1..n : f[i] > now - Expiry <=> k < i
    BY <2>2, <2>3, ExpiredPrefix
  <2> QED BY <2>4, <2>5, Zenon
<1>7. want_task \o want_res = Following(Gone, n)
  BY <1>4, <1>5 DEF Following
<1> QED BY <1>3, <1>6, <1>7, Zenon

\* check_ticket_cache reads the clock: what it will drop is settled here.
LEMMA StartExpiry == IInv /\ start_expiry => IInv'
<1> SUFFICES ASSUME IInv, start_expiry PROVE IInv'
  OBVIOUS
<1>1. /\ chk.pc = "expire"
      /\ chk' = IF task_head = NULL THEN [chk EXCEPT !.pc = "idle"]
                ELSE [pc |-> "walk", current |-> task_head, initial |-> task_head,
                      threshold |-> now - Expiry, count |-> 0]
      /\ want_task' = SelectUnexpired(want_task \o want_res)
      /\ want_res' = <<>>
      /\ UNCHANGED <<now, mem, valid, allocated, res_head, task_head, ins, fault>>
  BY DEF start_expiry
<1>2. chk.pc \in CheckPcs \ ExpiryPcs
  BY <1>1 DEF CheckPcs, ExpiryPcs, RelinkPcs
<1>3. valid = (Gone + 1)..allocated /\ ~fault /\ chk \in CheckLocals /\ ins.pc = "idle"
  BY <1>1, <1>2, ClaimingFacts
<1>4. List(mem, task_head, Gone + 1, allocated) /\ res_head = NULL
  BY <1>1 DEF IInv, Claiming
<1>5. /\ allocated \in Nat /\ Claimed \in Nat /\ Gone \in Nat
      /\ Gone <= Claimed /\ Claimed <= allocated /\ now \in Nat
      /\ Len(want_res) = allocated - Claimed /\ Len(want_task) = Claimed - Gone
  BY Bounds
<1>6. want_res \in Seq(Addr) /\ want_task \in Seq(Addr) /\ mem \in Memory
  BY DEF IInv, TypeOK, Memory
<1>7. PICK n \in Nat : \E k \in 0..n :
        /\ n = allocated - Gone
        /\ want_task \o want_res = Following(Gone, n)
        /\ \A i \in 1..n : mem.timestamp[Gone + i] > now - Expiry <=> k < i
  BY ExpiryInterval, Zenon
<1>8. PICK k \in 0..n :
        /\ n = allocated - Gone
        /\ want_task \o want_res = Following(Gone, n)
        /\ \A i \in 1..n : mem.timestamp[Gone + i] > now - Expiry <=> k < i
  BY <1>7
<1>9. n = allocated - Gone
  BY <1>8
<1>10. SelectUnexpired(Following(Gone, n)) = Following(Gone + k, n - k)
  BY <1>5, <1>8, SelectSuffix, Zenon
<1>11. want_task' = [j \in 1..(n - k) |-> Gone + k + j]
  BY <1>1, <1>8, <1>10 DEF Following
<1>12. want_task' \in Seq(Addr) /\ Len(want_task') = n - k
  <2>1. \A j \in 1..(n - k) : Gone + k + j \in Addr
    <3>1. allocated <= MaxTickets
      BY Bounds
    <3> QED BY <1>5, <1>9, <3>1 DEF Addr
  <2> QED BY <1>11, <2>1
<1>13. Len(want_res') = 0 /\ want_res' \in Seq(Addr)
  BY <1>1
<1>14. Claimed' = allocated /\ Gone' = Gone + k
  <2>1. Claimed' = allocated' - Len(want_res') /\ Gone' = Claimed' - Len(want_task')
    BY DEF Claimed, Gone
  <2> QED BY <1>1, <1>5, <1>9, <1>12, <1>13, <2>1, SMTT(30)
<1>15. Numbered'
  <2>1. want_res' = [i \in 1..Len(want_res') |-> Claimed' + i]
    BY <1>1, <1>13
  <2>2. want_task' = [i \in 1..Len(want_task') |-> Gone' + i]
    BY <1>11, <1>12, <1>14
  <2> QED BY <1>5, <1>14, <2>1, <2>2 DEF Numbered
<1>16. Stamped'
  BY <1>1 DEF IInv, Stamped
<1>17. Inserting'
  BY <1>1, <1>3 DEF Inserting
<1>18. ~fault'
  BY <1>1, <1>3
<1>19. CASE task_head = NULL
  <2>1. Gone = allocated
    BY <1>4, <1>5, <1>19 DEF List, NULL
  <2>2. Gone' = Gone /\ Claimed' = Claimed
    BY <1>5, <1>9, <1>14, <2>1
  <2>3. chk' \in CheckLocals /\ chk'.pc = "idle"
    BY <1>1, <1>3, <1>19 DEF CheckLocals, CheckPcs
  <2>4. valid' = First'..allocated'
    BY <1>1, <1>3, <2>2, <2>3 DEF First, ExpiryPcs, RelinkPcs
  <2>5. Claiming' /\ Expiring'
    BY <1>1, <1>4, <1>5, <1>14, <1>19, <2>1, <2>2, <2>3, SMTT(30)
       DEF Claiming, Expiring, List, SplicePcs, ExpiryPcs, RelinkPcs
  <2>6. Locals'
    BY <1>1, <2>3 DEF IInv, Locals, CheckLocals
  <2>7. TypeOK'
    <3>1. chk'.current \in Ptr /\ chk'.initial \in Ptr /\ chk'.count \in 0..MaxTickets
      BY <2>3 DEF CheckLocals
    <3> QED BY <1>1, <1>12, <1>13, <3>1, SMTT(30) DEF IInv, TypeOK
  <2> QED BY <1>15, <1>16, <1>17, <1>18, <2>4, <2>5, <2>6, <2>7, SMTT(30) DEF IInv
<1>20. CASE task_head # NULL
  <2>1. task_head = Gone + 1 /\ Gone + 1 <= allocated /\ Ring(mem, Gone + 1, allocated)
    BY <1>4, <1>20 DEF List
  <2>2. /\ chk'.pc = "walk" /\ chk'.current = Gone + 1 /\ chk'.initial = Gone + 1
        /\ chk'.threshold = now - Expiry /\ chk'.count = 0
    BY <1>1, <1>20, <2>1
  <2>3. chk' \in CheckLocals
    BY <1>1, <1>5, <1>20, Bounds DEF CheckLocals, CheckPcs, ExpiryPcs
  <2>4. valid' = First'..allocated'
    BY <1>1, <1>3, <2>2 DEF First, ExpiryPcs
  <2>5. Claiming'
    BY <1>1, <1>3, <2>2 DEF Claiming, SplicePcs
  <2>6. \A a \in 1..allocated :
          a >= Gone + 1 => (mem.timestamp[a] <= now - Expiry <=> a <= Gone + k)
    <3> SUFFICES ASSUME NEW a \in 1..allocated, a >= Gone + 1
                 PROVE  mem.timestamp[a] <= now - Expiry <=> a <= Gone + k
      OBVIOUS
    <3>1. a - Gone \in 1..n /\ Gone + (a - Gone) = a
      BY <1>5, <1>9
    <3>2. mem.timestamp[a] > now - Expiry <=> k < a - Gone
      BY <1>8, <3>1
    <3>3. mem.timestamp[a] \in Int
      BY <1>5 DEF IInv, Stamped
    <3> QED BY <1>5, <3>2, <3>3
  <2>7. Expiring'
    <3>1. Gone + 1 > 0 /\ Gone + 1 <= Gone' + 1 /\ Gone + 1 = Gone + 1 + 0
      BY <1>5, <1>14
    <3> QED BY <1>1, <1>4, <1>14, <2>1, <2>2, <2>6, <3>1, SMTT(30)
            DEF Expiring, Ring, ExpiryPcs, RelinkPcs
  <2>8. Locals'
    BY <1>1, <2>3, SMTT(30) DEF IInv, Locals, CheckLocals
  <2>9. TypeOK'
    <3>1. chk'.current \in Ptr /\ chk'.initial \in Ptr /\ chk'.count \in 0..MaxTickets
      BY <2>3 DEF CheckLocals
    <3> QED BY <1>1, <1>12, <1>13, <3>1 DEF IInv, TypeOK
  <2> QED BY <1>15, <1>16, <1>17, <1>18, <2>4, <2>5, <2>7, <2>8, <2>9 DEF IInv
<1> QED BY <1>19, <1>20

-----------------------------------------------------------------------------
(* The invariant holds.                                                    *)

LEMMA InvariantInit == Init => IInv
<1> SUFFICES ASSUME Init PROVE IInv
  OBVIOUS
<1>1. /\ now = 0 /\ valid = {} /\ allocated = 0 /\ res_head = NULL /\ task_head = NULL
      /\ ins = [pc |-> "idle", ticket |-> NULL, current |-> NULL]
      /\ chk = [pc |-> "idle", current |-> NULL, initial |-> NULL,
                threshold |-> 0, count |-> 0]
      /\ ~fault /\ want_res = <<>> /\ want_task = <<>>
  BY DEF Init
<1>2. NULL \in Ptr /\ Len(<<>>) = 0 /\ <<>> \in Seq(Addr)
  BY DEF Ptr
<1>3. mem \in Memory
  <2>1. mem = [next |-> [a \in Ptr |-> NULL], prev |-> [a \in Ptr |-> NULL],
               timestamp |-> [a \in Ptr |-> 0]]
    BY DEF Init
  <2> QED BY <1>2, <2>1 DEF Memory
<1>4. TypeOK
  BY <1>1, <1>2, <1>3, SMTT(30) DEF TypeOK, Memory
<1>5. Locals
  BY <1>1, <1>2 DEF Locals, InsertPcs, CheckPcs
<1>6. Claimed = 0 /\ Gone = 0
  <2>1. Len(want_res) = 0 /\ Len(want_task) = 0
    BY <1>1, <1>2
  <2>2. allocated = 0
    BY <1>1
  <2> QED BY <2>1, <2>2 DEF Claimed, Gone
<1>7. valid = First..allocated
  BY <1>1, <1>6 DEF First, ExpiryPcs, RelinkPcs
<1>8. Numbered
  <2>1. /\ want_res = [i \in 1..Len(want_res) |-> Claimed + i]
        /\ want_task = [i \in 1..Len(want_task) |-> Gone + i]
    BY <1>1, <1>2
  <2> QED BY <1>6, <2>1 DEF Numbered
<1>9. Stamped
  BY <1>1, SMTT(30) DEF Stamped
<1>10. Inserting /\ Claiming /\ Expiring
  BY <1>1, <1>6 DEF Inserting, Claiming, Expiring, List, SplicePcs, ExpiryPcs, RelinkPcs
<1> QED BY <1>1, <1>4, <1>5, <1>7, <1>8, <1>9, <1>10, SMTT(30) DEF IInv

LEMMA TickInvariant == IInv /\ Tick => IInv'
<1> SUFFICES ASSUME IInv, Tick PROVE IInv'
  OBVIOUS
<1>1. /\ now < MaxClock /\ now' = now + 1
      /\ UNCHANGED <<mem, valid, allocated, res_head, task_head, ins, chk, fault, want>>
  BY DEF Tick
<1>2. want_res' = want_res /\ want_task' = want_task
  BY <1>1 DEF want
<1>3. now' \in Nat /\ now <= now' /\ now' \in 0..MaxClock
  BY <1>1, Bounds
<1>4. Claimed' = Claimed /\ Gone' = Gone /\ Numbered' /\ Stamped'
  BY <1>1, <1>3, Quiet
<1>5. Locals' /\ ~fault' /\ valid' = First'..allocated'
  BY <1>1, <1>4 DEF IInv, Locals, First
<1>6. TypeOK'
  BY <1>1, <1>2, <1>3 DEF IInv, TypeOK
<1>7. Inserting' /\ Claiming' /\ Expiring'
  <2>1. Inserting /\ Claiming /\ Expiring
    BY SMTT(30) DEF IInv
  <2>2. Inserting'
    BY <1>1, <1>4, <2>1, SMTT(30) DEF Inserting
  <2>3. Claiming'
    BY <1>1, <1>4, <2>1, SMTT(30) DEF Claiming
  <2>4. Expiring'
    BY <1>1, <1>4, <2>1 DEF Expiring
  <2> QED BY <2>2, <2>3, <2>4
<1> QED BY <1>4, <1>5, <1>6, <1>7 DEF IInv

LEMMA InvariantNext ==
  ASSUME ~Interleaved
  PROVE  IInv /\ [Next]_vars => IInv'
<1> SUFFICES ASSUME IInv, [Next]_vars PROVE IInv'
  OBVIOUS
<1>1. CASE insert_steps
  BY <1>1, InsertTicket, FirstHead, FirstNext, FirstPrev, TailPrev, WireNew, WireTail, SMTT(30)
     DEF insert_steps
<1>2. CASE check_ticket_cache
  BY <1>2, CheckTicketCache
<1>3. CASE check_steps
  BY <1>3, CountTickets, TakeList, SplicePrev, SpliceC, SpliceE, SpliceD, ClearHead,
     StartExpiry, WalkExpired, DropList, KeepRest, RelinkPrev, RelinkNext, RelinkHead,
     FreeTicket, SMTT(30) DEF check_steps
<1>4. CASE Tick
  BY <1>4, TickInvariant
<1>5. CASE UNCHANGED vars
  <2>1. UNCHANGED <<now, mem, valid, allocated, res_head, task_head, ins, chk, fault, want>>
    BY <1>5 DEF vars
  <2>2. want_res' = want_res /\ want_task' = want_task
    BY <2>1 DEF want
  <2>3. Claimed' = Claimed /\ Gone' = Gone /\ Numbered' /\ Stamped'
    BY <2>1, Quiet, Bounds, SMTT(30)
  <2>4. TypeOK' /\ Locals' /\ ~fault' /\ valid' = First'..allocated'
    BY <2>1, <2>2, <2>3, SMTT(30) DEF IInv, TypeOK, Locals, First
  <2>5. Inserting'
    BY <2>1, <2>3, SMTT(30) DEF IInv, Inserting
  <2>6. Claiming'
    BY <2>1, <2>3, SMTT(30) DEF IInv, Claiming
  <2>7. Expiring'
    BY <2>1, <2>3 DEF IInv, Expiring
  <2> QED BY <2>3, <2>4, <2>5, <2>6, <2>7 DEF IInv
<1> QED BY <1>1, <1>2, <1>3, <1>4, <1>5 DEF Next

-----------------------------------------------------------------------------
(* What the invariant says between calls.                                  *)

LEMMA BetweenCalls ==
  ASSUME IInv, Idle
  PROVE  /\ List(mem, res_head, Claimed + 1, allocated)
         /\ List(mem, task_head, Gone + 1, Claimed)
         /\ valid = (Gone + 1)..allocated
<1>1. chk.pc \in CheckPcs \ ExpiryPcs /\ chk.pc = "idle" /\ ins.pc = "idle"
  BY DEF Idle, CheckPcs, ExpiryPcs, RelinkPcs
<1> QED BY <1>1, ClaimingFacts

\* A circular list of an interval of tickets is the ring of that interval.
LEMMA ListIsRing ==
  ASSUME NEW head, NEW a \in Nat, NEW n \in Nat, NEW s,
         s = Following(a, n), Len(s) = n, (a + 1)..(a + n) \subseteq valid,
         List(mem, head, a + 1, a + n)
  PROVE  IsRing(head, s)
<1>1. \A i \in 1..n : s[i] = a + i
  BY DEF Following
<1>2. CASE n = 0
  BY <1>2 DEF List, IsRing
<1>3. CASE n # 0
  <2>1. /\ head = a + 1 /\ mem.next[a + n] = a + 1 /\ mem.prev[a + 1] = a + n
        /\ \A i \in (a + 1)..(a + n - 1) : mem.next[i] = i + 1 /\ mem.prev[i + 1] = i
    BY <1>3 DEF List, Ring, Forward, Back
  <2>2. ASSUME NEW i \in 1..n, NEW j \in 1..n, j = IF i = n THEN 1 ELSE i + 1
        PROVE  s[i] \in valid /\ mem.next[s[i]] = s[j] /\ mem.prev[s[j]] = s[i]
    <3>1. s[i] = a + i /\ s[j] = a + j /\ a + i \in (a + 1)..(a + n)
      BY <1>1
    <3>2. CASE i = n
      BY <2>1, <2>2, <3>1, <3>2
    <3>3. CASE i # n
      <4>1. a + i \in (a + 1)..(a + n - 1) /\ a + j = (a + i) + 1
        BY <2>2, <3>3
      <4> QED BY <2>1, <3>1, <4>1, Zenon
    <3> QED BY <3>2, <3>3
  <2>3. \A i \in 1..n : (IF i = n THEN 1 ELSE i + 1) \in 1..n
    BY <1>3
  <2> QED BY <1>1, <1>3, <2>1, <2>2, <2>3, SMTT(30) DEF IsRing
<1> QED BY <1>2, <1>3

LEMMA RingsAreExact == IInv => RingsMatch
<1> SUFFICES ASSUME IInv, Idle
             PROVE  /\ IsRing(res_head, want_res)
                    /\ IsRing(task_head, want_task)
                    /\ valid = {want_res[i] : i \in DOMAIN want_res} \union
                               {want_task[i] : i \in DOMAIN want_task}
  BY DEF RingsMatch
<1>1. /\ allocated \in Nat /\ Claimed \in Nat /\ Gone \in Nat
      /\ Gone <= Claimed /\ Claimed <= allocated
      /\ Len(want_res) = allocated - Claimed /\ Len(want_task) = Claimed - Gone
  BY Bounds
<1>2. PICK n \in Nat : n = Len(want_res)
  BY <1>1
<1>3. PICK m \in Nat : m = Len(want_task)
  BY <1>1
<1>4. want_res = Following(Claimed, n) /\ want_task = Following(Gone, m)
  BY <1>2, <1>3 DEF IInv, Numbered, Following
<1>5. Claimed + n = allocated /\ Gone + m = Claimed
  BY <1>1, <1>2, <1>3
<1>6. valid = (Gone + 1)..allocated
  BY BetweenCalls
<1>7. (Claimed + 1)..(Claimed + n) \subseteq valid /\ (Gone + 1)..(Gone + m) \subseteq valid
  BY <1>1, <1>5, <1>6
<1>8. IsRing(res_head, want_res)
  BY <1>1, <1>2, <1>4, <1>5, <1>7, BetweenCalls, ListIsRing, SMTT(30)
<1>9. IsRing(task_head, want_task)
  BY <1>1, <1>3, <1>4, <1>5, <1>7, BetweenCalls, ListIsRing, SMTT(30)
<1>10. {want_res[i] : i \in DOMAIN want_res} = (Claimed + 1)..allocated
  <2>1. DOMAIN want_res = 1..n /\ \A i \in 1..n : want_res[i] = Claimed + i
    BY <1>4 DEF Following
  <2>2. \A a \in (Claimed + 1)..allocated : a - Claimed \in 1..n /\ Claimed + (a - Claimed) = a
    BY <1>1, <1>5
  <2>3. \A i \in 1..n : Claimed + i \in (Claimed + 1)..allocated
    BY <1>1, <1>5
  <2> QED BY <2>1, <2>2, <2>3
<1>11. {want_task[i] : i \in DOMAIN want_task} = (Gone + 1)..Claimed
  <2>1. DOMAIN want_task = 1..m /\ \A i \in 1..m : want_task[i] = Gone + i
    BY <1>4 DEF Following
  <2>2. \A a \in (Gone + 1)..Claimed : a - Gone \in 1..m /\ Gone + (a - Gone) = a
    BY <1>1, <1>5
  <2>3. \A i \in 1..m : Gone + i \in (Gone + 1)..Claimed
    BY <1>1, <1>5
  <2> QED BY <2>1, <2>2, <2>3
<1>12. (Gone + 1)..allocated = ((Claimed + 1)..allocated) \union ((Gone + 1)..Claimed)
  BY <1>1
<1> QED BY <1>6, <1>8, <1>9, <1>10, <1>11, <1>12, SMTT(30)

LEMMA TicketsFollowOlder == IInv => WiredAtEnd
<1> SUFFICES ASSUME IInv, Idle, NEW a \in valid \ {res_head, task_head}
             PROVE  /\ mem.prev[a] \in valid /\ mem.next[mem.prev[a]] = a
                    /\ mem.timestamp[mem.prev[a]] < mem.timestamp[a]
  BY DEF WiredAtEnd
<1>1. valid = (Gone + 1)..allocated
  BY BetweenCalls
<1>2. a \in Nat /\ a > Gone /\ a <= allocated
  BY <1>1, Ranges
<1>3. mem.prev[a] = a - 1 /\ mem.next[a - 1] = a /\ a - 1 > Gone
  <2>1. CASE a <= Claimed
    <3>1. task_head = Gone + 1 /\ Ring(mem, Gone + 1, Claimed)
      BY <1>2, <2>1, Ranges, BetweenCalls DEF List
    <3>2. a - 1 \in (Gone + 1)..(Claimed - 1) /\ (a - 1) + 1 = a /\ a - 1 > Gone
      BY <1>2, <2>1, <3>1, Ranges
    <3> QED BY <3>1, <3>2 DEF Ring, Forward, Back
  <2>2. CASE a > Claimed
    <3>1. res_head = Claimed + 1 /\ Ring(mem, Claimed + 1, allocated)
      BY <1>2, <2>2, Ranges, BetweenCalls DEF List
    <3>2. a - 1 \in (Claimed + 1)..(allocated - 1) /\ (a - 1) + 1 = a /\ a - 1 > Gone
      BY <1>2, <2>2, <3>1, Ranges
    <3> QED BY <3>1, <3>2 DEF Ring, Forward, Back
  <2> QED BY <1>2, <2>1, <2>2, Ranges
<1>4. a - 1 \in 1..allocated /\ a \in 1..allocated /\ a - 1 < a /\ a - 1 \in valid
  BY <1>1, <1>2, <1>3, Ranges
<1>5. mem.timestamp[a - 1] < mem.timestamp[a]
  BY <1>4 DEF IInv, Stamped
<1> QED BY <1>3, <1>4, <1>5

\* The variables keep their types, and tickets are only freed once.
THEOREM TypeCorrect ==
  ASSUME ~Interleaved
  PROVE  Spec => []TypeOK
<1>1. IInv => TypeOK
  BY DEF IInv
<1> QED BY <1>1, InvariantInit, InvariantNext, PTL DEF Spec

\* insert_ticket and check_ticket_cache never follow a pointer that is not
\* set, or one to a ticket that kfree has taken.
THEOREM PointersAreGood ==
  ASSUME ~Interleaved
  PROVE  Spec => []NoBadPointer
<1>1. IInv => NoBadPointer
  BY DEF IInv, NoBadPointer
<1> QED BY <1>1, InvariantInit, InvariantNext, PTL DEF Spec

\* Between calls the lists of insert_ticket and check_ticket_cache are the
\* rings of exactly the tickets that they should hold, for any number of
\* tickets, and nothing else is allocated.
THEOREM ListsAreExact ==
  ASSUME ~Interleaved
  PROVE  Spec => []RingsMatch
BY RingsAreExact, InvariantInit, InvariantNext, PTL DEF Spec

\* Between calls every ticket that is not a head follows an older ticket
\* ("Wire new ticket into the end of the list").
THEOREM ListsAreOrdered ==
  ASSUME ~Interleaved
  PROVE  Spec => []WiredAtEnd
BY TicketsFollowOlder, InvariantInit, InvariantNext, PTL DEF Spec
=============================================================================
