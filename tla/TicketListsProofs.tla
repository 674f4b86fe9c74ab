-------------------------- MODULE TicketListsProofs -------------------------
(***************************************************************************)
(* The circular lists implement TicketCache, for every number of tickets,  *)
(* every expiry time and every bound on the clock, when insert_ticket and  *)
(* check_ticket_cache run one after the other.                             *)
(*                                                                         *)
(* By the invariant of TicketRingProofs, the variables of TicketCache are  *)
(* functions of the timestamps and of the intervals of tickets (Mapped),   *)
(* so that only the two steps that move Gone or Claimed or allocate, and   *)
(* the clock, are steps of TicketCache.                                    *)
(***************************************************************************)
EXTENDS TicketLists, TicketRingProofs

USE RingAssumption

\* Following next from the head of a circular list of the n tickets after a
\* visits them in order.
LEMMA VisitsInOrder ==
  ASSUME NEW head, NEW a \in Nat, NEW n \in Addr, head # NULL,
         (a + 1)..(a + n) \subseteq valid, List(mem, head, a + 1, a + n)
  PROVE  Visited(head) = Following(a, n)
<1> DEFINE L == UNION {[1..l -> valid] : l \in Addr}
           s == Following(a, n)
<1>1. n \in Nat \ {0}
  BY DEF Addr
<1>2. /\ head = a + 1 /\ mem.next[a + n] = a + 1
      /\ \A i \in (a + 1)..(a + n - 1) : mem.next[i] = i + 1
  BY <1>1 DEF List, Ring, Forward
<1>3. s \in [1..n -> valid] /\ Len(s) = n /\ \A i \in 1..n : s[i] = a + i
  <2>1. \A i \in 1..n : a + i \in (a + 1)..(a + n)
    BY <1>1
  <2> QED BY <1>1, <2>1 DEF Following
<1>4. s \in L
  BY <1>3
<1>5. Visits(head, s)
  <2>1. s[1] = head /\ mem.next[s[n]] = head
    BY <1>1, <1>2, <1>3
  <2>2. ASSUME NEW k \in 1..(n - 1) PROVE mem.next[s[k]] = s[k + 1] /\ s[k + 1] # head
    <3>1. s[k] = a + k /\ s[k + 1] = a + k + 1 /\ a + k \in (a + 1)..(a + n - 1)
      BY <1>1, <1>3
    <3> QED BY <1>1, <1>2, <3>1
  <2> HIDE DEF s
  <2> QED BY <1>3, <2>1, <2>2 DEF Visits
<1>6. ASSUME NEW t \in L, Visits(head, t) PROVE t = s
  <2>1. PICK m \in Addr : t \in [1..m -> valid]
    OBVIOUS
  <2>2. m \in Nat \ {0} /\ Len(t) = m
    BY <2>1 DEF Addr
  <2>3. /\ t[1] = head /\ mem.next[t[m]] = head
        /\ \A k \in 1..(m - 1) : mem.next[t[k]] = t[k + 1] /\ t[k + 1] # head
    BY <1>6, <2>2 DEF Visits
  <2> DEFINE T == {k \in 1..m : k <= n /\ t[k] # a + k}
  <2>4. T = {}
    <3> SUFFICES ASSUME T # {} PROVE FALSE
      OBVIOUS
    <3>1. T \subseteq Nat
      OBVIOUS
    <3>2. PICK x \in T : \A y \in T : x <= y
      <4> HIDE DEF T
      <4> QED BY <3>1, LeastNat, Zenon
    <3>3. x # 1
      BY <1>2, <2>3
    <3>4. x - 1 \in 1..(m - 1) /\ x - 1 \in 1..m /\ x - 1 <= n /\ x - 1 \notin T
      BY <2>2, <3>2, <3>3
    <3>5. t[x - 1] = a + (x - 1)
      BY <3>4
    <3>6. mem.next[t[x - 1]] = t[(x - 1) + 1] /\ (x - 1) + 1 = x
      BY <2>3, <3>2, <3>4
    <3>7. a + (x - 1) \in (a + 1)..(a + n - 1) /\ (a + (x - 1)) + 1 = a + x
      BY <1>1, <3>2, <3>4
    <3>8. mem.next[a + (x - 1)] = a + x
      BY <1>2, <3>7
    <3> QED BY <3>2, <3>5, <3>6, <3>8
  <2>5. \A k \in 1..m : k <= n => t[k] = a + k
    BY <2>4
  <2>6. ~(n < m)
    <3> SUFFICES ASSUME n < m PROVE FALSE
      OBVIOUS
    <3>1. n \in 1..(m - 1) /\ n \in 1..m
      BY <1>1, <2>2
    <3>2. t[n] = a + n
      BY <2>5, <3>1
    <3> QED BY <1>2, <2>3, <3>1, <3>2, SMTT(30)
  <2>7. ~(m < n)
    <3> SUFFICES ASSUME m < n PROVE FALSE
      OBVIOUS
    <3>1. m \in 1..m /\ m <= n /\ a + m \in (a + 1)..(a + n - 1) /\ a + m + 1 # a + 1
      BY <1>1, <2>2
    <3>2. t[m] = a + m
      BY <2>5, <3>1
    <3> QED BY <1>2, <2>3, <3>1, <3>2
  <2>8. m = n
    BY <1>1, <2>2, <2>6, <2>7, SMTT(30)
  <2>9. t = [k \in 1..n |-> a + k]
    BY <2>1, <2>5, <2>8
  <2> QED BY <2>9 DEF Following
<1>7. (CHOOSE t \in L : Visits(head, t)) = s
  <2> HIDE DEF L, s
  <2> QED BY <1>4, <1>5, <1>6
<1> QED BY <1>7 DEF Visited

\* The tickets of TicketCache at the addresses in s.
Tickets(timestamp, s) ==
  [k \in DOMAIN s |->
     [timestamp |-> timestamp[s[k]], identifier |-> "object", operation |-> {"open"}]]

\* The tickets 1..n that have been issued.
Issued(timestamp, n) ==
  {[timestamp |-> timestamp[a], identifier |-> "object", operation |-> {"open"}] :
     a \in 1..n}

\* The lists of the refinement mapping are the history variables.
Mapped ==
  /\ ListOf(res_head, want_res) = ForProcess(Tickets(mem.timestamp, want_res))
  /\ ListOf(task_head, want_task) = ForProcess(Tickets(mem.timestamp, want_task))
  /\ ForProcess({TicketAt(a) : a \in 1..allocated})
       = ForProcess(Issued(mem.timestamp, allocated))

LEMMA MappingHolds == IInv => Mapped
<1> SUFFICES ASSUME IInv PROVE Mapped
  OBVIOUS
<1>1. CASE ~Idle
  BY <1>1 DEF Mapped, ListOf, Tickets, Issued, TicketAt
<1>2. CASE Idle
  <2>1. /\ allocated \in Nat /\ Claimed \in Nat /\ Gone \in Nat
        /\ Gone <= Claimed /\ Claimed <= allocated /\ allocated <= MaxTickets
        /\ Len(want_res) = allocated - Claimed /\ Len(want_task) = Claimed - Gone
    BY Bounds
  <2>2. PICK n \in Nat : n = allocated - Claimed
    BY <2>1
  <2>3. PICK m \in Nat : m = Claimed - Gone
    BY <2>1
  <2>4. want_res = Following(Claimed, n) /\ want_task = Following(Gone, m)
    BY <2>1, <2>2, <2>3 DEF IInv, Numbered, Following
  <2>5. Claimed + n = allocated /\ Gone + m = Claimed
    BY <2>1, <2>2, <2>3
  <2>6. valid = (Gone + 1)..allocated
    BY <1>2, BetweenCalls
  <2>7. (Claimed + 1)..(Claimed + n) \subseteq valid /\ (Gone + 1)..(Gone + m) \subseteq valid
    BY <2>1, <2>5, <2>6
  <2>8. Visited(res_head) = want_res
    <3>1. List(mem, res_head, Claimed + 1, Claimed + n)
      BY <1>2, <2>5, BetweenCalls
    <3>2. CASE n = 0
      <4>1. res_head = NULL
        BY <2>1, <3>1, <3>2 DEF List
      <4>2. want_res = <<>>
        BY <2>4, <3>2 DEF Following
      <4> QED BY <4>1, <4>2 DEF Visited
    <3>3. CASE n # 0
      <4>1. n \in Addr
        BY <2>1, <2>2, <3>3 DEF Addr
      <4>2. res_head # NULL
        BY <2>1, <3>1, <3>3 DEF List, NULL
      <4> QED BY <2>1, <2>4, <2>7, <3>1, <4>1, <4>2, VisitsInOrder, SMTT(30)
    <3> QED BY <3>2, <3>3
  <2>9. Visited(task_head) = want_task
    <3>1. List(mem, task_head, Gone + 1, Gone + m)
      BY <1>2, <2>5, BetweenCalls, SMTT(30)
    <3>2. CASE m = 0
      <4>1. task_head = NULL
        BY <2>1, <3>1, <3>2 DEF List
      <4>2. want_task = <<>>
        BY <2>4, <3>2 DEF Following
      <4> QED BY <4>1, <4>2 DEF Visited
    <3>3. CASE m # 0
      <4>1. m \in Addr
        BY <2>1, <2>3, <3>3 DEF Addr
      <4>2. task_head # NULL
        BY <2>1, <3>1, <3>3 DEF List, NULL
      <4> QED BY <2>1, <2>4, <2>7, <3>1, <4>1, <4>2, VisitsInOrder, SMTT(30)
    <3> QED BY <3>2, <3>3
  <2> QED BY <1>2, <2>8, <2>9 DEF Mapped, ListOf, Tickets, Issued, TicketAt
<1> QED BY <1>1, <1>2

\* Among the n tickets after g, in the order of their timestamps, the first k
\* are not after the threshold.
ExpireFirst(f, g, n, k, threshold) ==
  /\ \A i \in 1..n : f[g + i] \in Nat
  /\ \A i, j \in 1..n : i < j => f[g + i] < f[g + j]
  /\ \A i \in 1..n : f[g + i] > threshold <=> k < i

\* The expiry loop of TicketCache on an interval of tickets of which the first
\* k have expired.
LEMMA RemovesPrefix ==
  ASSUME NEW f, NEW g \in Nat, NEW n \in Nat, NEW k \in 0..n, now \in Nat,
         ExpireFirst(f, g, n, k, now - Expiry)
  PROVE  Cache!RemoveExpired(Tickets(f, Following(g, n)))
           = Tickets(f, Following(g + k, n - k))
<1>0. /\ \A i \in 1..n : f[g + i] \in Nat
      /\ \A i, j \in 1..n : i < j => f[g + i] < f[g + j]
      /\ \A i \in 1..n : f[g + i] > now - Expiry <=> k < i
  BY DEF ExpireFirst
<1>1. PICK s : s = Tickets(f, Following(g, n))
  OBVIOUS
<1>2. /\ s = [i \in 1..n |-> s[i]] /\ Len(s) = n /\ DOMAIN s = 1..n
      /\ \A i \in 1..n : /\ s[i].timestamp = f[g + i]
                         /\ s[i] = [timestamp |-> f[g + i], identifier |-> "object",
                                    operation |-> {"open"}]
  BY <1>1 DEF Tickets, Following
<1>3. \A i \in 1..n : Cache!Expired(s[i]) <=> i <= k
  BY <1>0, <1>2 DEF Cache!Expired
<1>4. \A i \in 1..n : i < n => (Cache!Continue(s, i) <=> i <= k)
  <2> SUFFICES ASSUME NEW i \in 1..n, i < n
               PROVE  Cache!Continue(s, i) <=> i <= k
    OBVIOUS
  <2>1. Cache!NextOf(s, i) = s[i + 1] /\ i + 1 \in 1..n /\ i < i + 1
    BY <1>2 DEF Cache!NextOf
  <2>2. s[i].timestamp < s[i + 1].timestamp
    BY <1>0, <1>2, <2>1, SMTT(30)
  <2> QED BY <1>3, <2>1, <2>2 DEF Cache!Continue
<1>5. n # 0 => ~Cache!Continue(s, n)
  <2> SUFFICES ASSUME n # 0 PROVE ~(s[n].timestamp < Cache!NextOf(s, n).timestamp)
    BY DEF Cache!Continue
  <2>1. Cache!NextOf(s, n) = s[1] /\ 1 \in 1..n /\ n \in 1..n /\ (1 = n \/ 1 < n)
    BY <1>2 DEF Cache!NextOf
  <2>2. s[n].timestamp \in Nat /\ s[1].timestamp \in Nat
        /\ (1 < n => s[1].timestamp < s[n].timestamp)
    BY <1>0, <1>2, <2>1
  <2> QED BY <2>1, <2>2
<1>6. CASE n = 0
  <2>1. s = <<>>
    BY <1>2, <1>6
  <2>2. Tickets(f, Following(g + k, n - k)) = <<>>
    BY <1>6 DEF Tickets, Following
  <2> QED BY <1>1, <2>1, <2>2 DEF Cache!RemoveExpired
<1>7. CASE n # 0
  <2>1. PICK x : x = IF k = n THEN n ELSE k + 1
    OBVIOUS
  <2>2. x \in 1..n /\ (x # n => x = k + 1) /\ (k = n => x = n) /\ (k # n => x = k + 1)
    BY <1>7, <2>1
  <2>3. Cache!StopsAt(s, x)
    <3>1. ~Cache!Continue(s, x)
      <4>1. CASE x = n
        BY <1>5, <1>7, <4>1
      <4>2. CASE x # n
        BY <1>4, <2>2, <4>2
      <4> QED BY <4>1, <4>2
    <3>2. \A j \in 1..(x - 1) : j \in 1..n /\ j < n /\ j <= k
      BY <2>2
    <3> QED BY <1>4, <3>1, <3>2 DEF Cache!StopsAt
  <2>4. ASSUME NEW y \in DOMAIN s, Cache!StopsAt(s, y) PROVE y = x
    <3>1. ~(y < x)
      <4> SUFFICES ASSUME y < x PROVE FALSE
        OBVIOUS
      <4>1. y \in 1..(x - 1)
        BY <1>2, <2>2
      <4> QED BY <2>3, <2>4, <4>1 DEF Cache!StopsAt
    <3>2. ~(x < y)
      <4> SUFFICES ASSUME x < y PROVE FALSE
        OBVIOUS
      <4>1. x \in 1..(y - 1)
        BY <1>2, <2>2
      <4> QED BY <2>3, <2>4, <4>1 DEF Cache!StopsAt
    <3> QED BY <1>2, <2>2, <3>1, <3>2
  <2>5. Cache!Stop(s) = x
    BY <1>2, <2>2, <2>3, <2>4 DEF Cache!Stop
  <2>6. s # <<>>
    BY <1>2, <1>7
  <2>7. CASE k = n
    <3>1. Cache!RemoveExpired(s) = <<>>
      BY <1>3, <2>2, <2>5, <2>7 DEF Cache!RemoveExpired
    <3>2. Tickets(f, Following(g + k, n - k)) = <<>>
      BY <2>7 DEF Tickets, Following
    <3> QED BY <1>1, <3>1, <3>2
  <2>8. CASE k # n
    <3>1. Len(s) = n /\ Cache!Stop(s) = k + 1 /\ ~Cache!Expired(s[k + 1])
      BY <1>2, <1>3, <2>2, <2>5, <2>8, SMTT(30)
    <3>2. Cache!RemoveExpired(s) = SubSeq(s, k + 1, n)
      BY <2>6, <3>1, Zenon DEF Cache!RemoveExpired
    <3> DEFINE r == SubSeq(s, k + 1, n)
               T == {s[i] : i \in 1..n}
    <3>3. \A i \in (k + 1)..n : s[i] \in T
      OBVIOUS
    <3>4. k + 1 \in Int /\ n \in Int /\ k + 1 <= n /\ n - (k + 1) + 1 = n - k
      BY <2>8
    <3>5. r \in Seq(T) /\ Len(r) = n - k
          /\ \A i \in 1..(n - k) : r[i] = s[k + 1 + i - 1]
      <4> HIDE DEF T
      <4> QED BY <3>3, <3>4, SubSeqProperties
    <3> HIDE DEF T, r
    <3>6. r = [i \in 1..(n - k) |-> r[i]]
      BY <3>5
    <3>7. \A i \in 1..(n - k) :
            r[i] = [timestamp |-> f[g + k + i], identifier |-> "object",
                    operation |-> {"open"}]
      <4> SUFFICES ASSUME NEW i \in 1..(n - k)
                   PROVE  r[i] = [timestamp |-> f[g + k + i], identifier |-> "object",
                                  operation |-> {"open"}]
        BY Zenon
      <4>1. k + 1 + i - 1 = k + i /\ k + i \in 1..n /\ g + (k + i) = g + k + i
        OBVIOUS
      <4>2. r[i] = s[k + i]
        BY <3>5, <4>1
      <4> QED BY <1>2, <4>1, <4>2, Zenon
    <3>8. Tickets(f, Following(g + k, n - k)) =
            [i \in 1..(n - k) |-> [timestamp |-> f[g + k + i], identifier |-> "object",
                                   operation |-> {"open"}]]
      BY DEF Tickets, Following
    <3> QED BY <1>1, <3>2, <3>6, <3>7, <3>8, Zenon DEF r
  <2> QED BY <2>7, <2>8
<1> QED BY <1>6, <1>7

LEMMA RefinesInit == Init /\ Mapped => Cache!Init
<1> SUFFICES ASSUME Init, Mapped PROVE Cache!Init
  OBVIOUS
<1>1. now = 0 /\ allocated = 0 /\ want_res = <<>> /\ want_task = <<>>
  BY DEF Init
<1>2. \A f : Tickets(f, <<>>) = <<>>
  BY DEF Tickets
<1>3. /\ ListOf(res_head, want_res) = ForProcess(<<>>)
      /\ ListOf(task_head, want_task) = ForProcess(<<>>)
  BY <1>1, <1>2 DEF Mapped
<1>4. {TicketAt(a) : a \in 1..allocated} = {}
  BY <1>1
<1>5. {1} \in (SUBSET {1}) \ {{}}
  OBVIOUS
<1> QED BY <1>1, <1>3, <1>4, <1>5, Zenon DEF Cache!Init, ForProcess

\* A step that moves pointers only does not change a variable of TicketCache.
LEMMA PointersStutter ==
  ASSUME Mapped, Mapped', now' = now, allocated' = allocated,
         want_res' = want_res, want_task' = want_task,
         mem'.timestamp = mem.timestamp
  PROVE  UNCHANGED Cache!vars
<1>1. UNCHANGED <<ListOf(res_head, want_res), ListOf(task_head, want_task),
                  ForProcess({TicketAt(a) : a \in 1..allocated})>>
  BY DEF Mapped
<1> QED BY <1>1 DEF Cache!vars, ForProcess

LEMMA ForProcessUpdate ==
  ASSUME NEW v, NEW w
  PROVE  /\ ForProcess(v)[1] = v
         /\ [ForProcess(v) EXCEPT ![1] = w] = ForProcess(w)
BY DEF ForProcess

LEMMA AppendTo ==
  ASSUME NEW n \in Nat, NEW r, r = [i \in 1..n |-> r[i]], NEW t
  PROVE  Append(r, t) = [i \in 1..(n + 1) |-> IF i = n + 1 THEN t ELSE r[i]]
<1> DEFINE T == {r[i] : i \in 1..n} \union {t}
<1>1. t \in T /\ \A i \in 1..n : r[i] \in T
  OBVIOUS
<1> HIDE DEF T
<1>2. r \in [1..n -> T]
  BY <1>1
<1>3. r \in Seq(T) /\ Len(r) = n
  BY <1>2
<1>4. /\ Append(r, t) \in Seq(T) /\ Len(Append(r, t)) = n + 1
      /\ \A i \in 1..n : Append(r, t)[i] = r[i]
      /\ Append(r, t)[n + 1] = t
  BY <1>1, <1>3, AppendProperties
<1>5. Append(r, t) = [i \in 1..(n + 1) |-> Append(r, t)[i]]
  BY <1>4
<1>6. \A i \in 1..(n + 1) : Append(r, t)[i] = IF i = n + 1 THEN t ELSE r[i]
  BY <1>4
<1> QED BY <1>5, <1>6

LEMMA RefinesTick == Tick /\ Mapped /\ Mapped' => Cache!Tick
<1> SUFFICES ASSUME Tick, Mapped, Mapped' PROVE Cache!Tick
  OBVIOUS
<1>1. /\ now < MaxClock /\ now' = now + 1
      /\ allocated' = allocated /\ mem' = mem
      /\ want_res' = want_res /\ want_task' = want_task
  BY DEF Tick, want
<1>2. UNCHANGED <<ListOf(res_head, want_res), ListOf(task_head, want_task),
                  ForProcess({TicketAt(a) : a \in 1..allocated})>>
  BY <1>1 DEF Mapped
<1> QED BY <1>1, <1>2 DEF Cache!Tick, ForProcess

\* The allocation of a ticket is the step that files it.
LEMMA RefinesInsert ==
  IInv /\ insert_ticket /\ Mapped /\ Mapped'
    => Cache!insert_ticket(1, "object", {"open"}, TRUE)
<1> SUFFICES ASSUME IInv, insert_ticket, Mapped, Mapped'
             PROVE  Cache!insert_ticket(1, "object", {"open"}, TRUE)
  BY Zenon
<1>1. /\ now < MaxClock /\ allocated < MaxTickets
      /\ now' = now + 1 /\ allocated' = allocated + 1
      /\ mem' = [mem EXCEPT !.timestamp[allocated + 1] = now + 1]
      /\ want_res' = Append(want_res, allocated + 1)
      /\ want_task' = want_task
  BY DEF insert_ticket
<1>2. /\ allocated \in Nat /\ Claimed \in Nat /\ Gone \in Nat
      /\ Gone <= Claimed /\ Claimed <= allocated /\ mem \in Memory
      /\ Len(want_res) = allocated - Claimed /\ Len(want_task) = Claimed - Gone
  BY Bounds
<1>3. allocated + 1 \in Ptr
  BY <1>1, <1>2 DEF Ptr, Addr
<1>4. /\ mem'.timestamp[allocated + 1] = now + 1
      /\ \A a \in 1..allocated : mem'.timestamp[a] = mem.timestamp[a]
  <2>1. \A a \in 1..allocated : a \in Ptr /\ a # allocated + 1
    BY <1>1, <1>2 DEF Ptr, Addr
  <2> QED BY <1>1, <1>2, <1>3, <2>1 DEF Memory
<1>5. PICK t : t = [timestamp |-> now + 1, identifier |-> "object", operation |-> {"open"}]
  BY Zenon
<1>6. PICK n \in Nat : n = Len(want_res)
  BY <1>2
<1>7. /\ want_res = [i \in 1..n |-> Claimed + i]
      /\ want_task = [i \in 1..Len(want_task) |-> Gone + i]
      /\ want_res \in Seq(Addr) /\ want_task \in Seq(Addr)
  BY <1>6 DEF IInv, Numbered, TypeOK
<1>8. /\ \A i \in 1..n : want_res[i] \in 1..allocated
      /\ \A i \in 1..Len(want_task) : want_task[i] \in 1..allocated
  BY <1>2, <1>6, <1>7
<1>9. Tickets(mem'.timestamp, want_res') = Append(Tickets(mem.timestamp, want_res), t)
  <2>1. PICK r : r = Tickets(mem.timestamp, want_res)
    OBVIOUS
  <2>2. r = [i \in 1..n |-> [timestamp |-> mem.timestamp[want_res[i]],
                             identifier |-> "object", operation |-> {"open"}]]
    BY <1>6, <1>7, <2>1 DEF Tickets
  <2>3. Append(r, t) = [i \in 1..(n + 1) |-> IF i = n + 1 THEN t ELSE r[i]]
    <3>1. r = [i \in 1..n |-> r[i]]
      BY <2>2
    <3> QED BY <3>1, AppendTo
  <2>4. /\ want_res' = [i \in 1..(n + 1) |-> IF i = n + 1 THEN allocated + 1 ELSE want_res[i]]
        /\ DOMAIN want_res' = 1..(n + 1)
    BY <1>1, <1>6, <1>7
  <2>5. Tickets(mem'.timestamp, want_res') =
          [i \in 1..(n + 1) |-> [timestamp |-> mem'.timestamp[want_res'[i]],
                                 identifier |-> "object", operation |-> {"open"}]]
    BY <2>4 DEF Tickets
  <2>6. ASSUME NEW i \in 1..(n + 1)
        PROVE  [timestamp |-> mem'.timestamp[want_res'[i]],
                identifier |-> "object", operation |-> {"open"}]
                 = IF i = n + 1 THEN t ELSE r[i]
    <3>1. CASE i = n + 1
      BY <1>4, <1>5, <2>4, <3>1, Zenon
    <3>2. CASE i # n + 1
      <4>1. i \in 1..n /\ want_res'[i] = want_res[i]
        BY <2>4, <3>2
      <4>2. mem'.timestamp[want_res[i]] = mem.timestamp[want_res[i]]
        BY <1>4, <1>8, <4>1
      <4> QED BY <2>2, <3>2, <4>1, <4>2, SMTT(30)
    <3> QED BY <3>1, <3>2
  <2> QED BY <2>1, <2>3, <2>5, <2>6
<1>10. Tickets(mem'.timestamp, want_task') = Tickets(mem.timestamp, want_task)
  <2>1. DOMAIN want_task = 1..Len(want_task)
    BY <1>7
  <2> QED BY <1>1, <1>4, <1>8, <2>1, Zenon DEF Tickets
<1>11. Issued(mem'.timestamp, allocated') = Issued(mem.timestamp, allocated) \union {t}
  <2>1. 1..(allocated + 1) = (1..allocated) \union {allocated + 1}
    BY <1>2
  <2> DEFINE R(x) == [timestamp |-> x, identifier |-> "object", operation |-> {"open"}]
  <2>2. PICK f, g : f = mem.timestamp /\ g = mem'.timestamp
    OBVIOUS
  <2>3. t = R(g[allocated + 1]) /\ \A a \in 1..allocated : R(g[a]) = R(f[a])
    BY <1>4, <1>5, <2>2, Zenon
  <2>4. /\ Issued(mem.timestamp, allocated) = {R(f[a]) : a \in 1..allocated}
        /\ Issued(mem'.timestamp, allocated') = {R(g[a]) : a \in 1..(allocated + 1)}
    BY <1>1, <2>2 DEF Issued
  <2> HIDE DEF R
  <2>5. {R(g[a]) : a \in 1..(allocated + 1)} = {R(f[a]) : a \in 1..allocated} \union {t}
    BY <2>1, <2>3, Zenon
  <2> QED BY <2>4, <2>5
<1>12. ListOf(res_head, want_res)' =
         [ListOf(res_head, want_res) EXCEPT ![1] = Append(@, t)]
  <2>1. PICK v : v = Tickets(mem.timestamp, want_res)
    OBVIOUS
  <2>2. ListOf(res_head, want_res) = ForProcess(v)
        /\ ListOf(res_head, want_res)' = ForProcess(Append(v, t))
    BY <1>9, <2>1 DEF Mapped
  <2>3. [ForProcess(v) EXCEPT ![1] = Append(@, t)] = ForProcess(Append(v, t))
    BY DEF ForProcess
  <2> QED BY <2>2, <2>3
<1>13. ForProcess({TicketAt(a) : a \in 1..allocated})' =
         [ForProcess({TicketAt(a) : a \in 1..allocated}) EXCEPT ![1] = @ \union {t}]
  <2> DEFINE d == ForProcess({TicketAt(a) : a \in 1..allocated})
  <2>1. PICK v : v = Issued(mem.timestamp, allocated)
    OBVIOUS
  <2>2. d = ForProcess(v) /\ d' = ForProcess(v \union {t})
    BY <1>11, <2>1 DEF Mapped
  <2>3. [ForProcess(v) EXCEPT ![1] = @ \union {t}] = ForProcess(v \union {t})
    BY DEF ForProcess
  <2> HIDE DEF d
  <2>4. d' = [d EXCEPT ![1] = @ \union {t}]
    BY <2>2, <2>3
  <2> QED BY <2>4 DEF d
<1>14. ListOf(task_head, want_task)' = ListOf(task_head, want_task)
  BY <1>10, Zenon DEF Mapped
<1>15. Cache!NewTicket("object", {"open"}) = t
  BY <1>5 DEF Cache!NewTicket
<1>16. {"open"} # {"pty"} /\ "pty" \notin {"open"} /\ 1 \in {1}
  OBVIOUS
<1>17. ForProcess(FALSE)' = [ForProcess(FALSE) EXCEPT ![1] = @ \/ "pty" \in {"open"}]
  BY <1>16 DEF ForProcess
<1> QED BY <1>1, <1>12, <1>13, <1>14, <1>15, <1>16, <1>17, Zenon
        DEF Cache!insert_ticket

LEMMA TicketsOfConcat ==
  ASSUME NEW f, NEW r \in Seq(Addr), NEW s \in Seq(Addr)
  PROVE  Tickets(f, r) \o Tickets(f, s) = Tickets(f, r \o s)
<1> DEFINE R(x) == [timestamp |-> f[x], identifier |-> "object", operation |-> {"open"}]
           T == {R(x) : x \in Addr}
<1>1. PICK m \in Nat, n \in Nat : m = Len(r) /\ n = Len(s)
  BY LenProperties
<1>2. /\ DOMAIN r = 1..m /\ \A i \in 1..m : r[i] \in Addr
      /\ DOMAIN s = 1..n /\ \A i \in 1..n : s[i] \in Addr
  BY <1>1
<1>3. PICK p, q : p = Tickets(f, r) /\ q = Tickets(f, s)
  OBVIOUS
<1>4. p = [i \in 1..m |-> R(r[i])] /\ q = [i \in 1..n |-> R(s[i])]
  BY <1>2, <1>3 DEF Tickets
<1>5. \A x \in Addr : R(x) \in T
  BY Zenon
<1> HIDE DEF R, T
<1>6. p \in [1..m -> T] /\ q \in [1..n -> T]
  BY <1>2, <1>4, <1>5
<1>7. p \in Seq(T) /\ q \in Seq(T) /\ Len(p) = m /\ Len(q) = n
  BY <1>6
<1>8. /\ p \o q \in Seq(T) /\ Len(p \o q) = m + n
      /\ \A i \in 1..(m + n) : (p \o q)[i] = IF i <= m THEN p[i] ELSE q[i - m]
  BY <1>7, ConcatProperties
<1>9. /\ r \o s \in Seq(Addr) /\ Len(r \o s) = m + n
      /\ \A i \in 1..(m + n) : (r \o s)[i] = IF i <= m THEN r[i] ELSE s[i - m]
  BY <1>1, ConcatProperties
<1>10. p \o q = [i \in 1..(m + n) |-> (p \o q)[i]]
  <2>1. PICK z : z = p \o q
    BY Zenon
  <2>2. z \in Seq(T) /\ Len(z) = m + n
    BY <1>8, <2>1
  <2>3. z = [i \in 1..(m + n) |-> z[i]]
    BY <2>2
  <2> QED BY <2>1, <2>3, Zenon
<1>11. Tickets(f, r \o s) = [i \in 1..(m + n) |-> R((r \o s)[i])]
  <2>1. DOMAIN (r \o s) = 1..(m + n)
    BY <1>9
  <2> QED BY <2>1 DEF Tickets, R
<1>12. \A i \in 1..(m + n) : (p \o q)[i] = R((r \o s)[i])
  <2> SUFFICES ASSUME NEW i \in 1..(m + n) PROVE (p \o q)[i] = R((r \o s)[i])
    BY Zenon
  <2>1. CASE i <= m
    <3>1. i \in 1..m
      BY <2>1
    <3>2. p[i] = R(r[i])
      BY <1>4, <3>1
    <3>3. (p \o q)[i] = p[i] /\ (r \o s)[i] = r[i]
      BY <1>8, <1>9, <2>1, Zenon
    <3> QED BY <3>2, <3>3, Zenon
  <2>2. CASE ~(i <= m)
    <3>1. i - m \in 1..n
      BY <2>2
    <3>2. q[i - m] = R(s[i - m])
      BY <1>4, <3>1
    <3>3. (p \o q)[i] = q[i - m] /\ (r \o s)[i] = s[i - m]
      BY <1>8, <1>9, <2>2, Zenon
    <3> QED BY <3>2, <3>3, Zenon
  <2> QED BY <2>1, <2>2
<1> QED BY <1>3, <1>10, <1>11, <1>12, Zenon

\* The start of the expiry is the step that claims the reserved tickets and
\* drops the expired ones.
LEMMA RefinesExpiry ==
  IInv /\ start_expiry /\ Mapped /\ Mapped' => Cache!check_ticket_cache(1)
<1> SUFFICES ASSUME IInv, start_expiry, Mapped, Mapped'
             PROVE  Cache!check_ticket_cache(1)
  OBVIOUS
<1>1. /\ want_task' = SelectUnexpired(want_task \o want_res)
      /\ want_res' = <<>> /\ now' = now /\ mem' = mem /\ allocated' = allocated
  BY DEF start_expiry
<1>2. allocated \in Nat /\ Gone \in Nat /\ now \in Nat
  BY Bounds
<1>3. PICK n \in Nat : \E k \in 0..n :
        /\ n = allocated - Gone
        /\ want_task \o want_res = Following(Gone, n)
        /\ \A i \in 1..n : mem.timestamp[Gone + i] > now - Expiry <=> k < i
  BY ExpiryInterval, Zenon
<1>4. PICK k \in 0..n :
        /\ n = allocated - Gone
        /\ want_task \o want_res = Following(Gone, n)
        /\ \A i \in 1..n : mem.timestamp[Gone + i] > now - Expiry <=> k < i
  BY <1>3, Zenon
<1>5. want_task' = Following(Gone + k, n - k)
  <2>1. SelectUnexpired(Following(Gone, n)) = Following(Gone + k, n - k)
    BY <1>2, <1>4, SelectSuffix, Zenon
  <2> QED BY <1>1, <1>4, <2>1
<1>6. PICK f : f = mem.timestamp
  OBVIOUS
<1>7. Cache!RemoveExpired(Tickets(f, Following(Gone, n)))
        = Tickets(f, Following(Gone + k, n - k))
  <2>1. \A i \in 1..n : Gone + i \in 1..allocated
    BY <1>2, <1>4
  <2>2. /\ \A a \in 1..allocated : mem.timestamp[a] \in Nat
        /\ \A a, b \in 1..allocated : a < b => mem.timestamp[a] < mem.timestamp[b]
    BY DEF IInv, Stamped
  <2>3. \A i, j \in 1..n : i < j => Gone + i < Gone + j
    BY <1>2
  <2>4. /\ \A i \in 1..n : f[Gone + i] \in Nat
        /\ \A i, j \in 1..n : i < j => f[Gone + i] < f[Gone + j]
    BY <1>6, <2>1, <2>2, <2>3
  <2>5. \A i \in 1..n : f[Gone + i] > now - Expiry <=> k < i
    BY <1>4, <1>6
  <2>6. PICK g \in Nat : g = Gone
    BY <1>2
  <2>7. ExpireFirst(f, g, n, k, now - Expiry)
    BY <2>4, <2>5, <2>6 DEF ExpireFirst
  <2>8. Cache!RemoveExpired(Tickets(f, Following(g, n))) = Tickets(f, Following(g + k, n - k))
    BY <1>2, <2>7, RemovesPrefix
  <2> QED BY <2>6, <2>8
<1>8. Tickets(f, want_task) \o Tickets(f, want_res) = Tickets(f, Following(Gone, n))
  <2>1. want_task \in Seq(Addr) /\ want_res \in Seq(Addr)
    BY DEF IInv, TypeOK
  <2>2. Tickets(f, want_task) \o Tickets(f, want_res) = Tickets(f, want_task \o want_res)
    BY <2>1, TicketsOfConcat
  <2> QED BY <1>4, <2>2
<1>9. /\ ListOf(res_head, want_res) = ForProcess(Tickets(f, want_res))
      /\ ListOf(task_head, want_task) = ForProcess(Tickets(f, want_task))
  BY <1>6 DEF Mapped
<1>10. ListOf(res_head, want_res)' = ForProcess(<<>>)
  <2>1. Tickets(f, <<>>) = <<>>
    BY DEF Tickets
  <2> QED BY <1>1, <1>6, <2>1 DEF Mapped
<1>11. ListOf(task_head, want_task)' = ForProcess(Tickets(f, Following(Gone + k, n - k)))
  BY <1>1, <1>5, <1>6 DEF Mapped
<1>12. Cache!Spliced(1) = Tickets(f, Following(Gone, n))
  BY <1>8, <1>9, ForProcessUpdate, Zenon DEF Cache!Spliced
<1>13. ListOf(task_head, want_task)' =
         [ListOf(task_head, want_task) EXCEPT ![1] = Cache!RemoveExpired(Cache!Spliced(1))]
  BY <1>7, <1>9, <1>11, <1>12, ForProcessUpdate, SMTT(30)
<1>14. ListOf(res_head, want_res)' = [ListOf(res_head, want_res) EXCEPT ![1] = <<>>]
  BY <1>9, <1>10, ForProcessUpdate
<1>15. UNCHANGED ForProcess({TicketAt(a) : a \in 1..allocated})
  BY <1>1 DEF Mapped
<1>16. /\ ForProcess(FALSE)' = [ForProcess(FALSE) EXCEPT ![1] = @ \/ ForProcess(FALSE)[1]]
       /\ ForProcess(FALSE)' = [ForProcess(FALSE) EXCEPT ![1] = FALSE]
  BY Zenon DEF ForProcess
<1>17. 1 \in {1}
  OBVIOUS
<1> QED BY <1>1, <1>13, <1>14, <1>15, <1>16, <1>17, Zenon DEF Cache!check_ticket_cache

LEMMA RefinesNext ==
  IInv /\ Mapped /\ Mapped' /\ [Next]_vars => [Cache!Next]_(Cache!vars)
<1> SUFFICES ASSUME IInv, Mapped, Mapped', [Next]_vars
             PROVE  Cache!Next \/ UNCHANGED Cache!vars
  OBVIOUS
<1> DEFINE Still == /\ UNCHANGED <<now, allocated>>
                    /\ want_res' = want_res /\ want_task' = want_task
                    /\ mem'.timestamp = mem.timestamp
<1>1. Still => UNCHANGED Cache!vars
  BY PointersStutter
<1>2. mem \in Memory
  BY Bounds
<1>3. \A p, v : /\ [mem EXCEPT !.next[p] = v].timestamp = mem.timestamp
                /\ [mem EXCEPT !.prev[p] = v].timestamp = mem.timestamp
  BY <1>2 DEF Memory
<1>4. \A p, q, v, w :
        [mem EXCEPT !.next[p] = v, !.prev[q] = w].timestamp = mem.timestamp
  BY <1>2 DEF Memory
<1>5. CASE insert_ticket
  <2>1. Cache!insert_ticket(1, "object", {"open"}, TRUE)
    BY <1>5, RefinesInsert, Zenon
  <2>2. /\ 1 \in {1} /\ "object" \in {"object"} /\ TRUE \in BOOLEAN
        /\ {"open"} \in (SUBSET {"open", "pty"}) \ {{}}
    OBVIOUS
  <2> QED BY <2>1, <2>2, Zenon DEF Cache!Next
<1>6. CASE start_expiry
  <2>1. Cache!check_ticket_cache(1)
    BY <1>6, RefinesExpiry
  <2> QED BY <2>1, Zenon DEF Cache!Next
<1>7. CASE Tick
  BY <1>7, RefinesTick, Zenon DEF Cache!Next
<1>8. CASE first_head
  BY <1>1, <1>8 DEF first_head, want
<1>9. CASE first_next
  BY <1>1, <1>3, <1>9 DEF first_next, InsertStep, want
<1>10. CASE first_prev
  BY <1>1, <1>3, <1>10 DEF first_prev, InsertStep, want
<1>11. CASE tail_prev
  BY <1>1, <1>3, <1>11 DEF tail_prev, want
<1>12. CASE wire_new
  BY <1>1, <1>4, <1>12, SMTT(30) DEF wire_new, InsertStep, want
<1>13. CASE wire_tail
  BY <1>1, <1>3, <1>13 DEF wire_tail, InsertStep, want
<1>14. CASE check_ticket_cache
  BY <1>1, <1>14 DEF check_ticket_cache, want
<1>15. CASE count_tickets
  BY <1>1, <1>15 DEF count_tickets, CheckStep, want
<1>16. CASE take_list
  BY <1>1, <1>16 DEF take_list, want
<1>17. CASE splice_prev
  BY <1>1, <1>3, <1>17 DEF splice_prev, want
<1>18. CASE splice_c \/ splice_e \/ splice_d
  <2>1. CASE splice_c
    BY <1>1, <1>3, <2>1 DEF splice_c, SpliceStep, want
  <2>2. CASE splice_e
    BY <1>1, <1>3, <2>2 DEF splice_e, SpliceStep, want
  <2>3. CASE splice_d
    BY <1>1, <1>3, <2>3 DEF splice_d, SpliceStep, want
  <2> QED BY <1>18, <2>1, <2>2, <2>3
<1>19. CASE clear_head
  BY <1>1, <1>19 DEF clear_head, want
<1>20. CASE walk_expired \/ keep_rest
  BY <1>1, <1>20 DEF walk_expired, keep_rest, CheckStep, want
<1>21. CASE drop_list
  BY <1>1, <1>21 DEF drop_list, want
<1>22. CASE relink_prev \/ relink_next
  <2>1. CASE relink_prev
    BY <1>1, <1>3, <2>1 DEF relink_prev, SpliceStep, want
  <2>2. CASE relink_next
    BY <1>1, <1>3, <2>2 DEF relink_next, SpliceStep, want
  <2> QED BY <1>22, <2>1, <2>2
<1>23. CASE relink_head
  BY <1>1, <1>23 DEF relink_head, want
<1>24. CASE free_ticket
  BY <1>1, <1>24 DEF free_ticket, want
<1>25. CASE UNCHANGED vars
  BY <1>1, <1>25 DEF vars, want
<1> QED BY <1>5, <1>6, <1>7, <1>8, <1>9, <1>10, <1>11, <1>12, <1>13, <1>14, <1>15, <1>16,
           <1>17, <1>18, <1>19, <1>20, <1>21, <1>22, <1>23, <1>24, <1>25, Zenon
        DEF Next, insert_steps, check_steps

\* Run one after the other, insert_ticket and check_ticket_cache on linked
\* tickets do what module TicketCache says of sequences of tickets.
THEOREM ListsImplementCache ==
  ASSUME ~Interleaved
  PROVE  Spec => ImplementsCache
<1>1. Init => IInv
  BY InvariantInit
<1>2. IInv /\ [Next]_vars => IInv'
  BY InvariantNext
<1>3. IInv => Mapped
  BY MappingHolds
<1>4. Init /\ Mapped => Cache!Init
  BY RefinesInit
<1>5. IInv /\ Mapped /\ Mapped' /\ [Next]_vars => [Cache!Next]_(Cache!vars)
  BY RefinesNext
<1> QED BY <1>1, <1>2, <1>3, <1>4, <1>5, PTL DEF Spec, ImplementsCache, Cache!Spec
=============================================================================
