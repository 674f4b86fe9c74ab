------------------------- MODULE TicketCacheProofs -------------------------
(***************************************************************************)
(* Proofs about TicketCache, for every set of processes and identifiers,   *)
(* every expiry time and every bound on the clock.                         *)
(*                                                                         *)
(* The argument rests on the order of the timestamps: on an ordered list   *)
(* the expiry loop keeps exactly the tickets that have not expired and the *)
(* search sees every ticket (RemoveExpiredSpec, FoundSpec), and all steps  *)
(* preserve the order.                                                     *)
(***************************************************************************)
EXTENDS TicketCache, SequenceTheorems, WellFoundedInduction, TLAPS

USE ConstantsAssumption

-----------------------------------------------------------------------------
(* Sequences.                                                              *)

\* A non-empty set of naturals has a least element.
LEMMA LeastNat ==
  ASSUME NEW T, T \subseteq Nat, T # {}
  PROVE  \E x \in T : \A y \in T : x <= y
<1> DEFINE R == {ss \in Nat \X Nat : ss[1] < ss[2]}
<1>1. IsWellFoundedOn(R, Nat)
  BY NatLessThanWellFounded DEF OpToRel
<1> HIDE DEF R
<1>2. PICK x \in T : \A y \in T : ~(<<y, x>> \in R)
  BY <1>1, WFMin, Zenon
<1>3. ASSUME NEW y \in T, y < x PROVE FALSE
  <2>1. <<y, x>> \in R
    BY <1>3 DEF R
  <2> QED BY <2>1, <1>2
<1> QED BY <1>3

\* The elements of a concatenation, and of a sequence with one more element.
LEMMA ConcatElements ==
  ASSUME NEW S, NEW s \in Seq(S), NEW r \in Seq(S)
  PROVE  /\ s \o r \in Seq(S)
         /\ Elements(s \o r) = Elements(s) \union Elements(r)
<1>1. s \o r \in Seq(S)
  OBVIOUS
<1>2. ASSUME NEW x \in Elements(s \o r)
      PROVE  x \in Elements(s) \union Elements(r)
  BY DEF Elements
<1>3. ASSUME NEW i \in DOMAIN s
      PROVE  s[i] \in Elements(s \o r)
  <2>1. i \in DOMAIN (s \o r) /\ (s \o r)[i] = s[i]
    OBVIOUS
  <2> QED BY <2>1 DEF Elements
<1>4. ASSUME NEW i \in DOMAIN r
      PROVE  r[i] \in Elements(s \o r)
  <2>1. Len(s) + i \in DOMAIN (s \o r) /\ (s \o r)[Len(s) + i] = r[i]
    OBVIOUS
  <2> QED BY <2>1 DEF Elements
<1> QED BY <1>1, <1>2, <1>3, <1>4, SMTT(30) DEF Elements

LEMMA AppendElements ==
  ASSUME NEW S, NEW s \in Seq(S), NEW x \in S
  PROVE  /\ Append(s, x) \in Seq(S)
         /\ Elements(Append(s, x)) = Elements(s) \union {x}
<1>1. Append(s, x) \in Seq(S) /\ DOMAIN Append(s, x) = 1..(Len(s) + 1)
  OBVIOUS
<1>2. /\ \A i \in DOMAIN s : i \in DOMAIN Append(s, x) /\ Append(s, x)[i] = s[i]
      /\ Append(s, x)[Len(s) + 1] = x
  OBVIOUS
<1> QED BY <1>1, <1>2 DEF Elements

\* A concatenation is ordered when its parts are, and the first part is older
\* than the second.
LEMMA ConcatOrdered ==
  ASSUME NEW s \in Seq(Ticket), NEW r \in Seq(Ticket)
  PROVE  Ordered(s \o r) <=>
           /\ Ordered(s)
           /\ Ordered(r)
           /\ \A a \in Elements(s), b \in Elements(r) :
                a.timestamp < b.timestamp
<1> DEFINE c == s \o r
<1>1. /\ DOMAIN c = 1..(Len(s) + Len(r))
      /\ \A i \in DOMAIN s : i \in DOMAIN c /\ c[i] = s[i]
      /\ \A i \in DOMAIN r : Len(s) + i \in DOMAIN c /\ c[Len(s) + i] = r[i]
      /\ \A i \in DOMAIN c : i \notin DOMAIN s =>
           i - Len(s) \in DOMAIN r /\ c[i] = r[i - Len(s)]
  OBVIOUS
<1> HIDE DEF c
<1>2. /\ DOMAIN s = 1..Len(s) /\ Len(s) \in Nat
      /\ DOMAIN r = 1..Len(r) /\ Len(r) \in Nat
  OBVIOUS
<1>3. ASSUME Ordered(c)
      PROVE  /\ Ordered(s)
             /\ Ordered(r)
             /\ \A a \in Elements(s), b \in Elements(r) :
                  a.timestamp < b.timestamp
  <2>1. Ordered(s)
    BY <1>1, <1>2, <1>3 DEF Ordered
  <2>2. Ordered(r)
    <3> SUFFICES ASSUME NEW i \in DOMAIN r, NEW j \in DOMAIN r, i < j
                 PROVE  r[i].timestamp < r[j].timestamp
      BY DEF Ordered
    <3>1. /\ Len(s) + i \in DOMAIN c /\ Len(s) + j \in DOMAIN c
          /\ Len(s) + i < Len(s) + j
      BY <1>1, <1>2
    <3> QED BY <3>1, <1>1, <1>3 DEF Ordered
  <2>3. ASSUME NEW i \in DOMAIN s, NEW j \in DOMAIN r
        PROVE  s[i].timestamp < r[j].timestamp
    <3>1. i \in DOMAIN c /\ Len(s) + j \in DOMAIN c /\ i < Len(s) + j
      BY <1>1, <1>2
    <3> QED BY <3>1, <1>1, <1>3 DEF Ordered
  <2> QED BY <2>1, <2>2, <2>3 DEF Elements
<1>4. ASSUME Ordered(s), Ordered(r),
             \A a \in Elements(s), b \in Elements(r) : a.timestamp < b.timestamp
      PROVE  Ordered(c)
  <2> SUFFICES ASSUME NEW i \in DOMAIN c, NEW j \in DOMAIN c, i < j
               PROVE  c[i].timestamp < c[j].timestamp
    BY DEF Ordered
  <2>1. CASE j \in DOMAIN s
    BY <2>1, <1>1, <1>2, <1>4 DEF Ordered
  <2>2. CASE i \in DOMAIN s /\ j \notin DOMAIN s
    BY <2>2, <1>1, <1>4, ZenonT(30) DEF Elements
  <2>3. CASE i \notin DOMAIN s /\ j \notin DOMAIN s
    <3>1. i - Len(s) < j - Len(s)
      BY <1>1, <1>2
    <3> QED BY <3>1, <2>3, <1>1, <1>4 DEF Ordered
  <2> QED BY <2>1, <2>2, <2>3, <1>1, <1>2
<1> QED BY <1>3, <1>4 DEF c

-----------------------------------------------------------------------------
(* The expiry loop and the search.                                         *)

\* The timestamp of a ticket is a natural number.
LEMMA TicketTimestamp == \A t \in Ticket : t.timestamp \in Nat
BY DEF Ticket

\* On an ordered list the expiry loop stops, at the latest at the last ticket.
LEMMA StopSpec ==
  ASSUME NEW s \in Seq(Ticket), s # <<>>, Ordered(s), now \in Nat
  PROVE  Stop(s) \in DOMAIN s /\ StopsAt(s, Stop(s))
<1> DEFINE T == {i \in DOMAIN s : ~Continue(s, i)}
<1>1. DOMAIN s = 1..Len(s) /\ Len(s) \in Nat \ {0}
  OBVIOUS
<1>2. \A i \in DOMAIN s : s[i].timestamp \in Nat
  BY ElementOfSeq, TicketTimestamp
<1>3. s[1].timestamp <= s[Len(s)].timestamp
  BY <1>1, <1>2 DEF Ordered
<1>4. Len(s) \in T
  BY <1>1, <1>2, <1>3 DEF Continue, NextOf
<1>5. PICK i \in T : \A j \in T : i <= j
  <2>1. T \subseteq Nat /\ T # {}
    BY <1>1, <1>4
  <2> HIDE DEF T
  <2> QED BY <2>1, LeastNat, Zenon
<1>6. \A j \in 1..(i - 1) : Continue(s, j)
  BY <1>1, <1>5
<1>7. StopsAt(s, i)
  BY <1>5, <1>6 DEF StopsAt
<1> QED BY <1>5, <1>7 DEF Stop

\* On an ordered list the expiry loop keeps exactly the tickets that have not
\* expired, in their order.
LEMMA RemoveExpiredSpec ==
  ASSUME NEW s \in Seq(Ticket), Ordered(s), now \in Nat
  PROVE  /\ RemoveExpired(s) \in Seq(Ticket)
         /\ Ordered(RemoveExpired(s))
         /\ Elements(RemoveExpired(s)) = {t \in Elements(s) : ~Expired(t)}
<1>1. CASE s = <<>>
  BY <1>1 DEF RemoveExpired, Elements, Ordered
<1>2. CASE s # <<>>
  <2>1. PICK e \in DOMAIN s : e = Stop(s) /\ StopsAt(s, e)
    BY <1>2, StopSpec
  <2>2. /\ DOMAIN s = 1..Len(s) /\ Len(s) \in Nat
        /\ e \in 1..Len(s)
        /\ \A i \in DOMAIN s : s[i] \in Ticket /\ s[i].timestamp \in Nat
    BY <2>1, TicketTimestamp
  <2>3. \A i \in 1..(e - 1) : Expired(s[i])
    BY <2>1 DEF StopsAt, Continue
  <2>4. CASE Expired(s[e])
    <3>1. ~(s[e].timestamp < NextOf(s, e).timestamp)
      BY <2>1, <2>4 DEF StopsAt, Continue
    <3>2. e = Len(s)
      <4> SUFFICES ASSUME e # Len(s) PROVE FALSE
        OBVIOUS
      <4>1. e + 1 \in DOMAIN s /\ NextOf(s, e) = s[e + 1]
        BY <2>2 DEF NextOf
      <4> QED BY <4>1, <3>1, <2>2 DEF Ordered
    <3>3. \A i \in DOMAIN s : Expired(s[i])
      BY <3>2, <2>2, <2>3, <2>4
    <3>4. RemoveExpired(s) = <<>>
      BY <2>1, <2>4 DEF RemoveExpired
    <3> QED BY <3>3, <3>4 DEF Elements, Ordered
  <2>5. CASE ~Expired(s[e])
    <3> DEFINE r == SubSeq(s, e, Len(s))
    <3>1. RemoveExpired(s) = r
      BY <1>2, <2>1, <2>5 DEF RemoveExpired
    <3>2. /\ r \in Seq(Ticket)
          /\ DOMAIN r = 1..(Len(s) - e + 1)
          /\ \A i \in DOMAIN r : r[i] = s[e + i - 1]
      BY <2>2
    <3>3. \A i \in e..Len(s) : i - e + 1 \in DOMAIN r /\ r[i - e + 1] = s[i]
      BY <2>2, SMTT(30)
    <3> HIDE DEF r
    <3>4. Ordered(r)
      <4> SUFFICES ASSUME NEW i \in DOMAIN r, NEW j \in DOMAIN r, i < j
                   PROVE  r[i].timestamp < r[j].timestamp
        BY DEF Ordered
      <4>1. /\ e + i - 1 \in DOMAIN s /\ e + j - 1 \in DOMAIN s
            /\ e + i - 1 < e + j - 1
        BY <2>2, <3>2
      <4> QED BY <4>1, <3>2 DEF Ordered
    <3>5. \A i \in e..Len(s) : ~Expired(s[i])
      <4>1. \A i \in e..Len(s) : s[e].timestamp <= s[i].timestamp
        BY <2>2 DEF Ordered
      <4> QED BY <4>1, <2>2, <2>5 DEF Expired
    <3>6. ASSUME NEW t \in Elements(r)
          PROVE  t \in Elements(s) /\ ~Expired(t)
      <4>1. PICK i \in DOMAIN r : t = r[i]
        BY DEF Elements
      <4>2. e + i - 1 \in e..Len(s) /\ t = s[e + i - 1]
        BY <4>1, <2>2, <3>2
      <4> QED BY <4>2, <2>2, <3>5 DEF Elements
    <3>7. ASSUME NEW t \in Elements(s), ~Expired(t)
          PROVE  t \in Elements(r)
      <4>1. PICK i \in DOMAIN s : t = s[i]
        BY DEF Elements
      <4>2. i \in e..Len(s)
        BY <4>1, <3>7, <2>2, <2>3
      <4> QED BY <4>1, <4>2, <3>3 DEF Elements
    <3> QED BY <3>1, <3>2, <3>4, <3>6, <3>7
  <2> QED BY <2>4, <2>5
<1> QED BY <1>1, <1>2

\* The search of an ordered list sees every ticket.
LEMMA FoundSpec ==
  ASSUME NEW s \in Seq(Ticket), Ordered(s),
         \A t \in Elements(s) : t.timestamp > 0,
         NEW i, NEW op
  PROVE  Found(s, i, op) <=> \E t \in Elements(s) : Matches(t, i, op)
<1>1. DOMAIN s = 1..Len(s) /\ Len(s) \in Nat
  OBVIOUS
<1>2. \A k \in DOMAIN s : Reaches(s, k)
  BY <1>1 DEF Reaches, Ordered, Elements
<1> QED BY <1>2 DEF Found, Elements

-----------------------------------------------------------------------------
(* The order of the lists.                                                 *)

\* RingOrdered for one process, list by list.
OrderedLists(p) ==
  /\ Ordered(ticket_head[p])
  /\ Ordered(reservation[p])
  /\ \A a \in Elements(ticket_head[p]), b \in Elements(reservation[p]) :
       a.timestamp < b.timestamp
  /\ \A t \in Elements(ticket_head[p]) \union Elements(reservation[p]) :
       t.timestamp \in 1..now

ListInv == TypeOK /\ \A p \in Pids : OrderedLists(p)

LEMMA ListInvRing == ListInv => RingOrdered
<1> SUFFICES ASSUME ListInv, NEW p \in Pids
             PROVE  /\ Ordered(Spliced(p))
                    /\ \A t \in Elements(Spliced(p)) : t.timestamp \in 1..now
  BY Zenon DEF RingOrdered
<1>1. ticket_head[p] \in Seq(Ticket) /\ reservation[p] \in Seq(Ticket)
  BY DEF ListInv, TypeOK
<1> QED BY <1>1, ConcatElements, ConcatOrdered DEF ListInv, OrderedLists, Spliced

\* What the housekeeping of a hook makes of the lists of a process.
LEMMA HousekeepingSpec ==
  ASSUME ListInv, NEW p \in Pids
  PROVE  /\ Held(p) \in Seq(Ticket)
         /\ Ordered(Held(p))
         /\ Elements(Held(p)) = {t \in Elements(ticket_head[p])
                                       \union Elements(reservation[p]) : ~Expired(t)}
         /\ RemoveExpired(ticket_head[p]) \in Seq(Ticket)
         /\ Ordered(RemoveExpired(ticket_head[p]))
         /\ Elements(RemoveExpired(ticket_head[p])) =
              {t \in Elements(ticket_head[p]) : ~Expired(t)}
<1>1. /\ ticket_head[p] \in Seq(Ticket) /\ reservation[p] \in Seq(Ticket)
      /\ now \in Nat /\ Ordered(ticket_head[p])
  BY DEF ListInv, TypeOK, OrderedLists
<1>2. /\ Spliced(p) \in Seq(Ticket)
      /\ Elements(Spliced(p)) = Elements(ticket_head[p]) \union Elements(reservation[p])
  BY <1>1, ConcatElements DEF Spliced
<1>3. Ordered(Spliced(p))
  BY ListInvRing DEF RingOrdered
<1> HIDE DEF Spliced
<1>4. /\ Held(p) \in Seq(Ticket) /\ Ordered(Held(p))
      /\ Elements(Held(p)) = {t \in Elements(Spliced(p)) : ~Expired(t)}
  BY <1>1, <1>2, <1>3, RemoveExpiredSpec DEF Held
<1>5. /\ RemoveExpired(ticket_head[p]) \in Seq(Ticket)
      /\ Ordered(RemoveExpired(ticket_head[p]))
      /\ Elements(RemoveExpired(ticket_head[p])) =
           {t \in Elements(ticket_head[p]) : ~Expired(t)}
  BY <1>1, RemoveExpiredSpec
<1> QED BY <1>2, <1>4, <1>5

LEMMA EmptyList ==
  /\ <<>> \in Seq(Ticket)
  /\ Ordered(<<>>)
  /\ Elements(<<>>) = {}
BY DEF Ordered, Elements

LEMMA ListInvInit == Init => ListInv
<1> SUFFICES ASSUME Init PROVE ListInv
  OBVIOUS
<1>1. TypeOK
  BY EmptyList DEF Init, TypeOK
<1>2. ASSUME NEW p \in Pids PROVE OrderedLists(p)
  BY EmptyList DEF Init, OrderedLists
<1> QED BY <1>1, <1>2 DEF ListInv

\* Every step preserves the order of the lists.
LEMMA ListInvNext == ListInv /\ [Next]_vars => ListInv'
<1> SUFFICES ASSUME ListInv, [Next]_vars PROVE ListInv'
  OBVIOUS
<1> USE DEF ListInv
<1>1. ASSUME NEW p \in Pids, NEW i \in Identifiers,
             NEW op \in (SUBSET Operations) \ {{}}, NEW ok \in BOOLEAN,
             insert_ticket(p, i, op, ok)
      PROVE  ListInv'
  <2> DEFINE t == [timestamp |-> now + 1, identifier |-> i, operation |-> op]
  <2>1. t \in Ticket /\ t.timestamp = now + 1
    BY DEF TypeOK, Ticket
  <2> HIDE DEF t
  <2>2. /\ reservation[p] \in Seq(Ticket)
        /\ Append(reservation[p], t) \in Seq(Ticket)
        /\ Elements(Append(reservation[p], t)) = Elements(reservation[p]) \union {t}
    BY <2>1, AppendElements DEF TypeOK
  <2>3. /\ now' = now + 1
        /\ \/ reservation' = [reservation EXCEPT ![p] = Append(@, t)]
           \/ reservation' = reservation
        /\ due' \in [Pids -> SUBSET Ticket]
    BY <1>1, <2>1, Zenon DEF insert_ticket, NewTicket, t, TypeOK
  <2>4. TypeOK'
    BY <1>1, <2>2, <2>3 DEF insert_ticket, NewTicket, TypeOK
  <2>5. Ordered(Append(reservation[p], t))
    <3>1. /\ DOMAIN Append(reservation[p], t) = 1..(Len(reservation[p]) + 1)
          /\ DOMAIN reservation[p] = 1..Len(reservation[p])
          /\ Len(reservation[p]) \in Nat
          /\ \A j \in DOMAIN reservation[p] :
               Append(reservation[p], t)[j] = reservation[p][j]
          /\ Append(reservation[p], t)[Len(reservation[p]) + 1] = t
      BY <2>2
    <3>2. \A j \in DOMAIN reservation[p] :
            reservation[p][j].timestamp < t.timestamp
      <4>1. \A j \in DOMAIN reservation[p] :
              reservation[p][j].timestamp \in 1..now
        BY DEF OrderedLists, Elements
      <4>2. now \in Nat
        BY DEF TypeOK
      <4> QED BY <2>1, <4>1, <4>2
    <3>3. Ordered(reservation[p])
      BY DEF OrderedLists
    <3> SUFFICES ASSUME NEW j \in 1..(Len(reservation[p]) + 1),
                        NEW k \in 1..(Len(reservation[p]) + 1), j < k
                 PROVE  Append(reservation[p], t)[j].timestamp
                          < Append(reservation[p], t)[k].timestamp
      BY <3>1 DEF Ordered
    <3>4. j \in DOMAIN reservation[p]
      BY <3>1
    <3>5. CASE k \in DOMAIN reservation[p]
      BY <3>1, <3>3, <3>4, <3>5 DEF Ordered
    <3>6. CASE k = Len(reservation[p]) + 1
      BY <3>1, <3>2, <3>4, <3>6
    <3> QED BY <3>1, <3>5, <3>6
  <2>6. ASSUME NEW q \in Pids PROVE OrderedLists(q)'
    <3>1. ticket_head'[q] = ticket_head[q] /\ now' = now + 1 /\ now \in Nat
      BY <1>1 DEF insert_ticket, NewTicket, TypeOK
    <3>2. CASE q = p /\ reservation' = [reservation EXCEPT ![p] = Append(@, t)]
      <4>1. reservation'[q] = Append(reservation[p], t)
        BY <3>2 DEF TypeOK
      <4> QED BY <3>1, <3>2, <4>1, <2>1, <2>2, <2>5 DEF OrderedLists
    <3>3. CASE q # p \/ reservation' = reservation
      <4>1. reservation'[q] = reservation[q]
        BY <2>3, <3>3 DEF TypeOK
      <4> QED BY <3>1, <4>1 DEF OrderedLists
    <3> QED BY <2>3, <3>2, <3>3
  <2> QED BY <2>4, <2>6
<1>2. ASSUME NEW p \in Pids, check_ticket_cache(p)
      PROVE  ListInv'
  <2>1. TypeOK'
    BY <1>2, HousekeepingSpec, EmptyList DEF check_ticket_cache, Held, TypeOK
  <2>2. ASSUME NEW q \in Pids PROVE OrderedLists(q)'
    <3>1. now' = now
      BY <1>2 DEF check_ticket_cache
    <3>2. CASE q = p
      <4>1. ticket_head'[q] = Held(p) /\ reservation'[q] = <<>>
        BY <1>2, <3>2 DEF check_ticket_cache, Held, TypeOK
      <4> QED BY <3>1, <3>2, <4>1, HousekeepingSpec, EmptyList DEF OrderedLists
    <3>3. CASE q # p
      <4>1. ticket_head'[q] = ticket_head[q] /\ reservation'[q] = reservation[q]
        BY <1>2, <3>3 DEF check_ticket_cache, TypeOK
      <4> QED BY <3>1, <4>1 DEF OrderedLists
    <3> QED BY <3>2, <3>3
  <2> QED BY <2>1, <2>2
<1>3. ASSUME NEW p \in Pids, check_ticket_cache_thread(p)
      PROVE  ListInv'
  <2>1. TypeOK'
    BY <1>3, HousekeepingSpec DEF check_ticket_cache_thread, TypeOK
  <2>2. ASSUME NEW q \in Pids PROVE OrderedLists(q)'
    <3>1. now' = now /\ reservation' = reservation
      BY <1>3 DEF check_ticket_cache_thread
    <3>2. CASE q = p
      <4>1. ticket_head'[q] = RemoveExpired(ticket_head[p])
        BY <1>3, <3>2 DEF check_ticket_cache_thread, TypeOK
      <4> QED BY <3>1, <3>2, <4>1, HousekeepingSpec, ZenonT(30) DEF OrderedLists
    <3>3. CASE q # p
      <4>1. ticket_head'[q] = ticket_head[q]
        BY <1>3, <3>3 DEF check_ticket_cache_thread, TypeOK
      <4> QED BY <3>1, <4>1 DEF OrderedLists
    <3> QED BY <3>2, <3>3
  <2> QED BY <2>1, <2>2
<1>4. ASSUME \/ \E p \in Pids : replace_cred(p) \/ exit(p)
             \/ \E p, c \in Pids : fork(p, c)
             \/ Tick
             \/ UNCHANGED vars
      PROVE  ListInv'
  <2>1. TypeOK'
    <3>1. ASSUME NEW p \in Pids, replace_cred(p) PROVE TypeOK'
      BY <3>1, EmptyList DEF replace_cred, TypeOK
    <3>2. ASSUME NEW p \in Pids, exit(p) PROVE TypeOK'
      BY <3>2, EmptyList DEF exit, TypeOK
    <3>3. ASSUME NEW p \in Pids, NEW c \in Pids, fork(p, c) PROVE TypeOK'
      BY <3>3, EmptyList DEF fork, TypeOK
    <3>4. CASE Tick
      BY <3>4 DEF Tick, TypeOK
    <3>5. CASE UNCHANGED vars
      BY <3>5 DEF vars, TypeOK
    <3> QED BY <1>4, <3>1, <3>2, <3>3, <3>4, <3>5
  <2>2. /\ reservation' = reservation
        /\ now' \in {now, now + 1}
        /\ \A q \in Pids : ticket_head'[q] \in {ticket_head[q], <<>>}
    BY <1>4 DEF replace_cred, exit, fork, Tick, vars, TypeOK
  <2>3. ASSUME NEW q \in Pids PROVE OrderedLists(q)'
    <3>1. now \in Nat /\ 1..now \subseteq 1..now'
      BY <2>2 DEF TypeOK
    <3>2. CASE ticket_head'[q] = ticket_head[q]
      BY <2>2, <3>1, <3>2 DEF OrderedLists
    <3>3. CASE ticket_head'[q] = <<>>
      BY <2>2, <3>1, <3>3, EmptyList DEF OrderedLists
    <3> QED BY <2>2, <3>2, <3>3
  <2> QED BY <2>1, <2>3
<1> QED BY <1>1, <1>2, <1>3, <1>4 DEF Next

\* Every reachable state has its type.
THEOREM TypeCorrect == Spec => []TypeOK
<1>1. ListInv => TypeOK
  BY DEF ListInv
<1> QED BY <1>1, ListInvInit, ListInvNext, PTL DEF Spec

\* The lists of check_ticket_cache, insert_ticket and can_access are ordered
\* by their timestamps, whether or not PIDs are reused.
THEOREM RingsOrdered == Spec => []RingOrdered
BY ListInvInit, ListInvNext, ListInvRing, PTL DEF Spec

-----------------------------------------------------------------------------
(* What a process holds is what the enclave issued to it.                  *)

\* Every unexpired ticket issued to p is on one of its lists.
KeepsInv ==
  \A p \in live : {t \in due[p] : ~Expired(t)}
                    \subseteq Elements(ticket_head[p]) \union Elements(reservation[p])

\* Unless PIDs are reused, p has no other ticket and no PTY but its own.  A
\* PID that was never used has nothing reserved, which is what a fork needs.
OwnInv ==
  /\ pty_owners \subseteq live
  /\ live \subseteq born
  /\ \A p \in live : Elements(ticket_head[p]) \union Elements(reservation[p])
                       \subseteq due[p]
  /\ \A p \in live : (granted_pty[p] \/ reserved_pty[p]) <=> p \in pty_owners
  /\ \A p \in Pids \ born : reservation[p] = <<>> /\ ~reserved_pty[p]

\* A ticket that has not expired after a step had not expired before it.
LEMMA ExpiredStays ==
  ASSUME ListInv, now' \in {now, now + 1}, NEW t \in Ticket, ~Expired(t)'
  PROVE  ~Expired(t)
<1>1. now \in Nat
  BY DEF ListInv, TypeOK
<1> QED BY <1>1, TicketTimestamp DEF Expired

\* The tickets in N are added to the list reserved for p and, when p runs, to
\* what it is due.
Adds(p, N) ==
  /\ \A q \in Pids : Elements(reservation'[q]) =
       IF q = p THEN Elements(reservation[p]) \union N ELSE Elements(reservation[q])
  /\ \A q \in Pids : due'[q] =
       IF q = p /\ p \in live THEN due[p] \union N ELSE due[q]

\* The lists after an insertion, in terms of their elements.
LEMMA InsertSpec ==
  ASSUME ListInv, NEW p \in Pids, NEW i \in Identifiers,
         NEW op \in (SUBSET Operations) \ {{}}, NEW ok \in BOOLEAN,
         insert_ticket(p, i, op, ok)
  PROVE  \E N \in SUBSET Ticket : Adds(p, N)
<1> DEFINE t == [timestamp |-> now + 1, identifier |-> i, operation |-> op]
           N == IF op # {PTY} /\ ok THEN {t} ELSE {}
<1>1. t \in Ticket /\ N \in SUBSET Ticket
  BY DEF ListInv, TypeOK, Ticket
<1>2. /\ reservation' = [reservation EXCEPT
              ![p] = IF op # {PTY} /\ ok THEN Append(@, t) ELSE @]
      /\ due' = [due EXCEPT
              ![p] = IF (op # {PTY} /\ ok) /\ p \in live THEN @ \union {t} ELSE @]
  BY DEF insert_ticket, NewTicket
<1> HIDE DEF t
<1>3. reservation[p] \in Seq(Ticket) /\ reservation \in [Pids -> Seq(Ticket)]
  BY DEF ListInv, TypeOK
<1>4. Elements(Append(reservation[p], t)) = Elements(reservation[p]) \union {t}
  BY <1>1, <1>3, AppendElements
<1>5. \A q \in Pids : Elements(reservation'[q]) =
        IF q = p THEN Elements(reservation[p]) \union N ELSE Elements(reservation[q])
  BY <1>2, <1>3, <1>4, Zenon
<1>6. \A q \in Pids : due'[q] =
        IF q = p /\ p \in live THEN due[p] \union N ELSE due[q]
  BY <1>2, Zenon DEF ListInv, TypeOK
<1> QED BY <1>1, <1>5, <1>6, Zenon DEF Adds

LEMMA KeepsInvNext == ListInv /\ KeepsInv /\ [Next]_vars => KeepsInv'
<1> SUFFICES ASSUME ListInv, KeepsInv, [Next]_vars,
                    NEW q \in live', NEW t \in due'[q], ~Expired(t)'
             PROVE  t \in Elements(ticket_head'[q]) \union Elements(reservation'[q])
  BY DEF KeepsInv
<1>0. ListInv' /\ q \in Pids /\ t \in Ticket
  BY ListInvNext DEF ListInv, TypeOK
<1>1. ASSUME NEW p \in Pids, NEW i \in Identifiers,
             NEW op \in (SUBSET Operations) \ {{}}, NEW ok \in BOOLEAN,
             insert_ticket(p, i, op, ok)
      PROVE  t \in Elements(ticket_head'[q]) \union Elements(reservation'[q])
  <2>1. ticket_head' = ticket_head /\ live' = live /\ now' = now + 1
    BY <1>1 DEF insert_ticket, NewTicket
  <2>2. ~Expired(t)
    BY <1>0, <2>1, ExpiredStays
  <2>3. PICK N \in SUBSET Ticket : Adds(p, N)
    BY <1>1, InsertSpec, SMTT(30)
  <2> QED BY <1>0, <2>1, <2>2, <2>3 DEF KeepsInv, Adds
<1>2. ASSUME NEW p \in Pids, check_ticket_cache(p)
      PROVE  t \in Elements(ticket_head'[q]) \union Elements(reservation'[q])
  <2>1. /\ due' = due /\ live' = live /\ now' = now
        /\ ticket_head' = [ticket_head EXCEPT ![p] = Held(p)]
        /\ reservation' = [reservation EXCEPT ![p] = <<>>]
    BY <1>2 DEF check_ticket_cache, Held
  <2>2. ~Expired(t)
    BY <1>0, <2>1, ExpiredStays
  <2>3. CASE q = p
    BY <1>0, <2>1, <2>2, <2>3, HousekeepingSpec, ZenonT(30) DEF KeepsInv, ListInv, TypeOK
  <2>4. CASE q # p
    BY <1>0, <2>1, <2>2, <2>4, Zenon DEF KeepsInv, ListInv, TypeOK
  <2> QED BY <2>3, <2>4
<1>3. ASSUME NEW p \in Pids, check_ticket_cache_thread(p)
      PROVE  t \in Elements(ticket_head'[q]) \union Elements(reservation'[q])
  <2>1. /\ due' = due /\ live' = live /\ now' = now /\ reservation' = reservation
        /\ ticket_head' = [ticket_head EXCEPT ![p] = RemoveExpired(@)]
    BY <1>3 DEF check_ticket_cache_thread
  <2>2. ~Expired(t)
    BY <1>0, <2>1, ExpiredStays
  <2>3. CASE q = p
    BY <1>0, <2>1, <2>2, <2>3, HousekeepingSpec, ZenonT(30) DEF KeepsInv, ListInv, TypeOK
  <2>4. CASE q # p
    BY <1>0, <2>1, <2>2, <2>4, Zenon DEF KeepsInv, ListInv, TypeOK
  <2> QED BY <2>3, <2>4
<1>4. ASSUME \/ \E p \in Pids : replace_cred(p) \/ exit(p)
             \/ \E p, c \in Pids : fork(p, c)
             \/ Tick
             \/ UNCHANGED vars
      PROVE  t \in Elements(ticket_head'[q]) \union Elements(reservation'[q])
  <2>1. now' \in {now, now + 1} /\ reservation' = reservation
    BY <1>4 DEF replace_cred, exit, fork, Tick, vars
  <2>2. ~Expired(t)
    BY <1>0, <2>1, ExpiredStays
  <2>3. \/ /\ q \in live /\ t \in due[q]
           /\ ticket_head'[q] = ticket_head[q]
        \/ t \in Elements(reservation[q])
    BY <1>0, <1>4 DEF replace_cred, exit, fork, Tick, vars, ListInv, TypeOK
  <2> QED BY <1>0, <2>1, <2>2, <2>3 DEF KeepsInv
<1> QED BY <1>1, <1>2, <1>3, <1>4 DEF Next

LEMMA OwnInvNext ==
  ASSUME ~PidReuse
  PROVE  ListInv /\ OwnInv /\ [Next]_vars => OwnInv'
<1> SUFFICES ASSUME ListInv, OwnInv, [Next]_vars PROVE OwnInv'
  OBVIOUS
<1>0. live \subseteq Pids /\ born \subseteq Pids
  BY DEF ListInv, TypeOK
<1>1. ASSUME NEW p \in Pids, NEW i \in Identifiers,
             NEW op \in (SUBSET Operations) \ {{}}, NEW ok \in BOOLEAN,
             insert_ticket(p, i, op, ok)
      PROVE  OwnInv'
  <2>1. /\ ticket_head' = ticket_head /\ live' = live /\ born' = born
        /\ p \in born /\ granted_pty' = granted_pty
        /\ reserved_pty' = [reserved_pty EXCEPT ![p] = @ \/ PTY \in op]
        /\ pty_owners' = IF PTY \in op /\ p \in live
                           THEN pty_owners \union {p} ELSE pty_owners
    BY <1>1 DEF insert_ticket, NewTicket
  <2>2. \A q \in live : Elements(ticket_head'[q]) \union Elements(reservation'[q])
                          \subseteq due'[q]
    <3>1. PICK N \in SUBSET Ticket : Adds(p, N)
      BY <1>1, InsertSpec
    <3> SUFFICES ASSUME NEW q \in live
                 PROVE  Elements(ticket_head[q]) \union Elements(reservation'[q])
                          \subseteq due'[q]
      BY <2>1
    <3>2. Elements(ticket_head[q]) \union Elements(reservation[q]) \subseteq due[q]
      BY DEF OwnInv
    <3> QED BY <1>0, <3>1, <3>2 DEF Adds
  <2>3. \A q \in Pids \ born : reservation'[q] = reservation[q]
    BY <1>1, <2>1 DEF insert_ticket, NewTicket, ListInv, TypeOK
  <2>4. \A q \in live : (granted_pty'[q] \/ reserved_pty'[q]) <=> q \in pty_owners'
    BY <1>0, <2>1, Zenon DEF OwnInv, ListInv, TypeOK
  <2>5. \A q \in Pids \ born : ~reserved_pty'[q]
    BY <2>1 DEF OwnInv, ListInv, TypeOK
  <2> QED BY <2>1, <2>2, <2>3, <2>4, <2>5 DEF OwnInv
<1>2. ASSUME NEW p \in Pids, check_ticket_cache(p)
      PROVE  OwnInv'
  <2>1. /\ due' = due /\ live' = live /\ born' = born /\ pty_owners' = pty_owners
        /\ p \in live
        /\ ticket_head' = [ticket_head EXCEPT ![p] = Held(p)]
        /\ reservation' = [reservation EXCEPT ![p] = <<>>]
        /\ granted_pty' = [granted_pty EXCEPT ![p] = @ \/ reserved_pty[p]]
        /\ reserved_pty' = [reserved_pty EXCEPT ![p] = FALSE]
    BY <1>2 DEF check_ticket_cache, Held
  <2>2. ASSUME NEW q \in live
        PROVE  Elements(ticket_head'[q]) \union Elements(reservation'[q]) \subseteq due[q]
    <3>1. CASE q = p
      BY <1>0, <2>1, <3>1, HousekeepingSpec, EmptyList DEF OwnInv, ListInv, TypeOK
    <3>2. CASE q # p
      BY <1>0, <2>1, <3>2 DEF OwnInv, ListInv, TypeOK
    <3> QED BY <3>1, <3>2
  <2>3. \A q \in live : (granted_pty'[q] \/ reserved_pty'[q])
                          <=> (granted_pty[q] \/ reserved_pty[q])
    BY <1>0, <2>1 DEF ListInv, TypeOK
  <2>4. \A q \in Pids \ born : reservation'[q] = <<>> /\ ~reserved_pty'[q]
    BY <2>1 DEF OwnInv, ListInv, TypeOK
  <2> QED BY <2>1, <2>2, <2>3, <2>4 DEF OwnInv
<1>3. ASSUME NEW p \in Pids, check_ticket_cache_thread(p)
      PROVE  OwnInv'
  <2>1. /\ UNCHANGED <<due, live, born, pty_owners, reservation, granted_pty,
                       reserved_pty>>
        /\ ticket_head' = [ticket_head EXCEPT ![p] = RemoveExpired(@)]
    BY <1>3 DEF check_ticket_cache_thread
  <2>2. ASSUME NEW q \in live
        PROVE  Elements(ticket_head'[q]) \subseteq Elements(ticket_head[q])
    <3>1. CASE q = p
      BY <1>0, <2>1, <3>1, HousekeepingSpec DEF ListInv, TypeOK
    <3>2. CASE q # p
      BY <1>0, <2>1, <3>2 DEF ListInv, TypeOK
    <3> QED BY <3>1, <3>2
  <2> QED BY <2>1, <2>2 DEF OwnInv
<1>4. ASSUME NEW p \in Pids, replace_cred(p)
      PROVE  OwnInv'
  <2>1. /\ UNCHANGED <<live, born, pty_owners, reservation, granted_pty, reserved_pty>>
        /\ ticket_head' = [ticket_head EXCEPT ![p] = <<>>]
        /\ due' = [due EXCEPT ![p] = @ \intersect Elements(reservation[p])]
    BY <1>4 DEF replace_cred
  <2>2. ASSUME NEW q \in live
        PROVE  Elements(ticket_head'[q]) \union Elements(reservation[q]) \subseteq due'[q]
    <3>1. CASE q = p
      BY <1>0, <2>1, <3>1, EmptyList DEF OwnInv, ListInv, TypeOK
    <3>2. CASE q # p
      BY <1>0, <2>1, <3>2, SMTT(30) DEF OwnInv, ListInv, TypeOK
    <3> QED BY <3>1, <3>2
  <2> QED BY <2>1, <2>2 DEF OwnInv
<1>5. ASSUME NEW p \in Pids, exit(p)
      PROVE  OwnInv'
  <2>1. /\ UNCHANGED <<born, reservation, reserved_pty>>
        /\ live' = live \ {p} /\ pty_owners' = pty_owners \ {p}
        /\ \A q \in live' : /\ ticket_head'[q] = ticket_head[q]
                            /\ granted_pty'[q] = granted_pty[q]
                            /\ due'[q] = due[q]
    BY <1>0, <1>5 DEF exit, ListInv, TypeOK
  <2> QED BY <2>1 DEF OwnInv
<1>6. ASSUME NEW p \in Pids, NEW c \in Pids, fork(p, c)
      PROVE  OwnInv'
  <2>1. /\ UNCHANGED <<reservation, reserved_pty>>
        /\ live' = live \union {c} /\ born' = born \union {c}
        /\ c \notin born
        /\ pty_owners' = IF granted_pty[p] THEN pty_owners \union {c} ELSE pty_owners
        /\ ticket_head'[c] = <<>> /\ granted_pty'[c] = granted_pty[p]
        /\ \A q \in live : /\ ticket_head'[q] = ticket_head[q]
                           /\ granted_pty'[q] = granted_pty[q]
                           /\ due'[q] = due[q]
    BY <1>0, <1>6 DEF fork, ListInv, TypeOK
  <2>2. reservation[c] = <<>> /\ ~reserved_pty[c] /\ c \notin live /\ c \notin pty_owners
    BY <2>1 DEF OwnInv
  <2>3. \A q \in live' : Elements(ticket_head'[q]) \union Elements(reservation[q])
                           \subseteq due'[q]
    BY <2>1, <2>2, EmptyList DEF OwnInv
  <2>4. \A q \in live' : (granted_pty'[q] \/ reserved_pty[q]) <=> q \in pty_owners'
    BY <2>1, <2>2 DEF OwnInv
  <2> QED BY <2>1, <2>3, <2>4 DEF OwnInv
<1>7. CASE Tick \/ UNCHANGED vars
  BY <1>7 DEF Tick, vars, OwnInv
<1> QED BY <1>1, <1>2, <1>3, <1>4, <1>5, <1>6, <1>7 DEF Next

\* The search at a hook succeeds exactly when an unexpired ticket on one of
\* the process's lists matches.
LEMMA FoundHeld ==
  ASSUME ListInv, NEW p \in Pids, NEW i, NEW op
  PROVE  Found(Held(p), i, op) <=>
           \E t \in Elements(ticket_head[p]) \union Elements(reservation[p]) :
             ~Expired(t) /\ Matches(t, i, op)
<1>1. \A t \in Elements(Held(p)) : t.timestamp > 0
  BY HousekeepingSpec, SMTT(30) DEF ListInv, OrderedLists
<1>2. Found(Held(p), i, op) <=> \E t \in Elements(Held(p)) : Matches(t, i, op)
  BY <1>1, HousekeepingSpec, FoundSpec
<1> QED BY <1>2, HousekeepingSpec

\* A ticket issued to a running process is honoured by every access check
\* until it expires, whether or not PIDs are reused.
THEOREM NoTicketIsLost == Spec => []NoTicketLost
<1>1. Init => KeepsInv
  BY Zenon DEF Init, KeepsInv
<1>2. ListInv /\ KeepsInv => NoTicketLost
  <2> SUFFICES ASSUME ListInv, KeepsInv, NEW p \in live, NEW i \in Identifiers,
                      NEW op \in Operations, NEW t \in due[p],
                      ~Expired(t), Matches(t, i, op)
               PROVE  Found(Held(p), i, op)
    BY DEF NoTicketLost
  <2>1. p \in Pids
    BY DEF ListInv, TypeOK
  <2>2. t \in Elements(ticket_head[p]) \union Elements(reservation[p])
    BY DEF KeepsInv
  <2> QED BY <2>1, <2>2, FoundHeld
<1> QED BY <1>1, <1>2, ListInvInit, ListInvNext, KeepsInvNext, PTL DEF Spec

\* As long as no PID is handed out twice, an access check succeeds exactly
\* when the enclave issued this process a matching ticket that has not expired.
THEOREM DecisionIsExact ==
  ASSUME ~PidReuse
  PROVE  Spec => []DecisionExact
<1>1. Init => KeepsInv /\ OwnInv
  BY EmptyList, SMTT(30) DEF Init, KeepsInv, OwnInv
<1>2. ListInv /\ KeepsInv /\ OwnInv => DecisionExact
  <2> SUFFICES ASSUME ListInv, KeepsInv, OwnInv, NEW p \in live,
                      NEW i \in Identifiers, NEW op \in Operations
               PROVE  Found(Held(p), i, op) <=>
                        \E t \in due[p] : ~Expired(t) /\ Matches(t, i, op)
    BY DEF DecisionExact
  <2>1. p \in Pids
    BY DEF ListInv, TypeOK
  <2>2. {t \in due[p] : ~Expired(t)} =
          {t \in Elements(ticket_head[p]) \union Elements(reservation[p]) : ~Expired(t)}
    BY DEF KeepsInv, OwnInv
  <2> QED BY <2>1, <2>2, FoundHeld
<1>3. ListInv /\ OwnInv /\ [Next]_vars => OwnInv'
  BY OwnInvNext
<1> QED BY <1>1, <1>2, <1>3, ListInvInit, ListInvNext, KeepsInvNext, PTL DEF Spec

LEMMA OwnInvInit == Init => OwnInv
BY EmptyList DEF Init, OwnInv

\* As long as no PID is handed out twice, the tickets of a process were issued
\* to it (check_ticket_cache).
THEOREM HoldsOnlyItsOwn ==
  ASSUME ~PidReuse
  PROVE  Spec => []HoldsOnlyOwn
<1>1. ListInv /\ OwnInv => HoldsOnlyOwn
  BY DEF OwnInv, HoldsOnlyOwn
<1> QED BY <1>1, OwnInvInit, OwnInvNext, ListInvInit, ListInvNext, PTL DEF Spec

\* As long as no PID is handed out twice, a process has the right to its
\* terminal only when it was granted to it or to a process it descends from,
\* and no such right is lost (check_ticket_cache, trm_cred_prepare).
THEOREM PtyIsExact ==
  ASSUME ~PidReuse
  PROVE  Spec => []PtyExact
<1>1. ListInv /\ OwnInv => PtyExact
  BY DEF OwnInv, PtyExact
<1> QED BY <1>1, OwnInvInit, OwnInvNext, ListInvInit, ListInvNext, PTL DEF Spec
=============================================================================
