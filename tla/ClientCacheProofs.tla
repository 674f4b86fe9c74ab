-------------------------- MODULE ClientCacheProofs --------------------------
(***************************************************************************)
(* Proofs about ClientCache, for every set of files, descriptors and       *)
(* labels, every expiry time, latency and clock, and any number of forks   *)
(* and entries.                                                            *)
(*                                                                         *)
(* The invariant is one on sessions, so that an operation of the library   *)
(* is shown once to keep it, whatever calls it.  Entries of the cache of   *)
(* names are in the order of their times, so what cleanup_cache_group      *)
(* leaves is in date.  An entry that records an opened file rests on a     *)
(* ticket, or was made for a file outside the realm and can then not be    *)
(* for the file or the socket in the realm that has its descriptor later.  *)
(***************************************************************************)
EXTENDS ClientCache, TLAPS

Lifetime == TicketExpiry * Second

\* Sessions, whose clock can be past the bound on the runs.
NameEntries == [path : Files, ops : SUBSET {"claim", "open"}, time : Nat, of : Ids]
FdEntries == [fd : Fds, op : TicketOps \union {"nop", "parent"}, time : Nat, data : Ids,
              by : 0..MaxForks, issued : Nat \union {NONE}]
Sessions == [clock : Nat, names : Seq(NameEntries), fds : Seq(FdEntries),
             file : [Files -> Inode], sock : [Fds -> Ids \union {NONE}],
             granted : [Ids -> Nat \union {NONE}]]

\* The ticket for l was issued no more than age before time.
Covers(s, l, time, age) == s.granted[l] # NONE /\ time <= s.granted[l] + age

\* A name is out of date or rests on a ticket.
NameOK(s, e) == e.time <= s.clock /\ (e.time = 0 \/ Covers(s, e.of, e.time, Latency))

\* The descriptor of e has not come to stand for an object in the realm with
\* the identifier in e, nor can it by what process p creates.
Idle(s, e, o, p) ==
  /\ e.data \notin p..MaxForks
  /\ s.sock[e.fd] # e.data
  /\ o[e.fd] \in Files /\ s.file[o[e.fd]].id = e.data => ~s.file[o[e.fd]].realm

\* What the entry e for a descriptor rests on, when o tells what descriptors
\* refer to in process p.
FdOK(s, e, o, p) ==
  /\ e.time <= s.clock /\ (e.issued # NONE => e.issued <= s.clock) /\ e.by <= p
  /\ e.op = "nop" => e.by = p
  /\ e.op = "parent" => e.by < p
  /\ e.op \in {"internal", "external"} =>
       e.time = 0 \/ (e.by = p /\ e.issued # NONE /\ e.time <= e.issued + Latency)
  /\ e.op = "open" =>
       e.time = 0 \/ Covers(s, e.data, e.time, Lifetime - 1) \/ Idle(s, e, o, p)

\* Sessions of process p, in the realm or not.
OK(s, o, realm, p) ==
  /\ s \in Sessions /\ s.clock >= Boot
  /\ \A l \in Ids : s.granted[l] # NONE => s.granted[l] <= s.clock
  /\ \A i \in DOMAIN s.names : NameOK(s, s.names[i])
  /\ \A i, j \in DOMAIN s.names : i <= j => s.names[i].time <= s.names[j].time
  /\ \A i \in DOMAIN s.fds : FdOK(s, s.fds[i], o, p)
  /\ \A f \in Files : /\ s.file[f].id \notin (p + 1)..MaxForks
                      /\ ~realm => s.file[f].id \notin p..MaxForks
  /\ \A fd \in Fds : o[fd] # SOCKET => s.sock[fd] = NONE

IInv ==
  /\ OK(Session, opened, in_realm, pid)
  /\ now <= MaxClock /\ pid \in 0..MaxForks
  /\ known_taint \in BOOLEAN /\ in_realm \in BOOLEAN
  /\ opened \in [Fds -> Files \union {SOCKET, ACCEPTED, NONE}]

-----------------------------------------------------------------------------
(* Constants and seconds.                                                  *)

LEMMA Constants ==
  /\ Lifetime \in Nat /\ Lifetime > 0 /\ Latency \in Nat /\ Latency < Lifetime
  /\ Boot \in Nat /\ Boot >= Lifetime
  /\ MaxClock \in Nat /\ MaxClock >= Boot /\ MaxForks \in Nat
<1>1. Second \in Nat /\ Second > 0 /\ TicketExpiry \in Nat /\ TicketExpiry > 0
  BY ClockAssumption
<1>2. Lifetime \in Nat /\ Lifetime > 0
  BY <1>1 DEF Lifetime
<1>3. Latency \in 0..(Lifetime - 1) /\ Boot >= Lifetime
  BY ClockAssumption DEF Lifetime
<1> QED BY <1>2, <1>3, ClockAssumption

LEMMA Names ==
  /\ NONE \notin Nat /\ NONE \notin Ids /\ NONE \notin Files
  /\ SOCKET \notin Files /\ ACCEPTED \notin Files
  /\ SOCKET # NONE /\ ACCEPTED # NONE /\ SOCKET # ACCEPTED
  /\ \A p \in Nat : Labels \intersect p..MaxForks = {}
BY NamesAssumption, Constants DEF Ids

\* A product with n of a smaller number is smaller by n at least.
LEMMA Times ==
  ASSUME NEW n \in Nat, NEW a \in Int, NEW b \in Int, a < b
  PROVE  n * a + n <= n * b
<1>1. n * (b - a - 1) >= 0
  OBVIOUS
<1>2. n * (b - a - 1) = n * b - n * a - n
  OBVIOUS
<1> QED BY <1>1, <1>2

LEMMA Rounding ==
  ASSUME NEW t \in Nat
  PROVE  /\ Seconds(t) \in Nat
         /\ Second * Seconds(t) <= t /\ t < Second * Seconds(t) + Second
BY ClockAssumption DEF Seconds

\* A number n of seconds, rounded, is less than n seconds of ticks.
LEMMA Elapsed ==
  ASSUME NEW a \in Nat, NEW b \in Nat, NEW n \in Int, Seconds(a) - Seconds(b) < n
  PROVE  a - b < Second * n
<1>1. Second \in Nat
  BY ClockAssumption
<1>2. PICK p \in Nat : p = Seconds(a) /\ Second * p <= a /\ a < Second * p + Second
  BY Rounding
<1>3. PICK q \in Nat : q = Seconds(b) /\ Second * q <= b /\ b < Second * q + Second
  BY Rounding
<1>4. Second * p + Second <= Second * (q + n)
  BY <1>1, <1>2, <1>3, Times
<1>5. Second * (q + n) = Second * q + Second * n
  BY <1>1, <1>2, <1>3
<1> QED BY <1>1, <1>2, <1>3, <1>4, <1>5

-----------------------------------------------------------------------------
(* Changes of one part of a session that keep it good.                     *)

LEMMA Fields ==
  ASSUME NEW s \in Sessions
  PROVE  /\ s.clock \in Nat /\ s.names \in Seq(NameEntries) /\ s.fds \in Seq(FdEntries)
         /\ s.file \in [Files -> Inode] /\ s.sock \in [Fds -> Ids \union {NONE}]
         /\ s.granted \in [Ids -> Nat \union {NONE}]
         /\ s = [clock |-> s.clock, names |-> s.names, fds |-> s.fds, file |-> s.file,
                 sock |-> s.sock, granted |-> s.granted]
BY DEF Sessions

LEMMA SessionFields ==
  /\ Session.clock = now /\ Session.names = file_names /\ Session.fds = fd_cache
  /\ Session.file = file /\ Session.sock = sock /\ Session.granted = granted
BY DEF Session

\* Time has passed or tickets were issued between s and t.
Later(s, t) ==
  /\ s.clock <= t.clock
  /\ \A l \in Ids : s.granted[l] # NONE =>
                      t.granted[l] # NONE /\ s.granted[l] <= t.granted[l]

LEMMA NameStays ==
  ASSUME NEW s \in Sessions, NEW t \in Sessions, Later(s, t),
         NEW e \in NameEntries, NameOK(s, e)
  PROVE  NameOK(t, e)
<1>1. e.time \in Nat /\ e.of \in Ids
  BY DEF NameEntries
<1>2. /\ s.clock \in Nat /\ t.clock \in Nat
      /\ s.granted \in [Ids -> Nat \union {NONE}] /\ t.granted \in [Ids -> Nat \union {NONE}]
  BY Fields
<1> QED BY <1>1, <1>2, Constants DEF NameOK, Covers, Later

LEMMA FdStays ==
  ASSUME NEW s \in Sessions, NEW t \in Sessions, Later(s, t),
         NEW e \in FdEntries, NEW o, NEW o2, NEW p \in Nat, FdOK(s, e, o, p),
         Idle(s, e, o, p) => Idle(t, e, o2, p) \/ Covers(t, e.data, e.time, Lifetime - 1)
  PROVE  FdOK(t, e, o2, p)
<1>1. /\ e.time \in Nat /\ e.data \in Ids /\ e.by \in Nat /\ e.issued \in Nat \union {NONE}
  BY Constants DEF FdEntries
<1>2. /\ s.clock \in Nat /\ t.clock \in Nat /\ s.clock <= t.clock
      /\ s.granted[e.data] \in Nat \union {NONE} /\ t.granted[e.data] \in Nat \union {NONE}
      /\ s.granted[e.data] # NONE =>
           t.granted[e.data] # NONE /\ s.granted[e.data] <= t.granted[e.data]
  BY <1>1, Fields DEF Later
<1>3. Covers(s, e.data, e.time, Lifetime - 1) => Covers(t, e.data, e.time, Lifetime - 1)
  BY <1>1, <1>2, Constants DEF Covers
<1>4. e.time <= t.clock /\ (e.issued # NONE => e.issued <= t.clock)
  BY <1>1, <1>2 DEF FdOK
<1> QED BY <1>3, <1>4, Zenon DEF FdOK

\* Only the clock, the tickets, the sockets and the files count.
LEMMA FdSame ==
  ASSUME NEW s, NEW t, NEW e, NEW o, NEW p, FdOK(s, e, o, p),
         t.clock = s.clock, t.granted = s.granted, t.sock = s.sock, t.file = s.file
  PROVE  FdOK(t, e, o, p)
<1>1. \A l, time, age : Covers(s, l, time, age) <=> Covers(t, l, time, age)
  BY Zenon DEF Covers
<1>2. Idle(s, e, o, p) <=> Idle(t, e, o, p)
  BY Zenon DEF Idle
<1> QED BY <1>1, <1>2, Zenon DEF FdOK

LEMMA Advances ==
  ASSUME NEW s, NEW o, NEW realm, NEW p \in Nat, OK(s, o, realm, p),
         NEW t \in Sessions, Later(s, t),
         t.names = s.names, t.fds = s.fds, t.file = s.file, t.sock = s.sock,
         \A l \in Ids : t.granted[l] # NONE => t.granted[l] <= t.clock
  PROVE  OK(t, o, realm, p)
<1>1. /\ s \in Sessions /\ s.clock >= Boot
      /\ \A i \in DOMAIN s.names : NameOK(s, s.names[i])
      /\ \A i, j \in DOMAIN s.names : i <= j => s.names[i].time <= s.names[j].time
      /\ \A i \in DOMAIN s.fds : FdOK(s, s.fds[i], o, p)
      /\ \A f \in Files : /\ s.file[f].id \notin (p + 1)..MaxForks
                          /\ ~realm => s.file[f].id \notin p..MaxForks
      /\ \A fd \in Fds : o[fd] # SOCKET => s.sock[fd] = NONE
  BY Zenon DEF OK
<1>2. t.clock >= Boot
  BY <1>1, Fields, Constants DEF Later
<1>3. ASSUME NEW i \in DOMAIN t.names PROVE NameOK(t, t.names[i])
  <2>1. s.names[i] \in NameEntries
    BY <1>1, Fields
  <2> QED BY <1>1, <2>1, NameStays
<1>4. ASSUME NEW i \in DOMAIN t.fds PROVE FdOK(t, t.fds[i], o, p)
  <2>1. s.fds[i] \in FdEntries
    BY <1>1, Fields
  <2>2. Idle(s, s.fds[i], o, p) => Idle(t, s.fds[i], o, p)
    BY Zenon DEF Idle
  <2> QED BY <1>1, <2>1, <2>2, FdStays
<1> QED BY <1>1, <1>2, <1>3, <1>4, Zenon DEF OK

LEMMA Waits ==
  ASSUME NEW s, NEW o, NEW realm, NEW p \in Nat, OK(s, o, realm, p), NEW late \in Nat
  PROVE  OK([s EXCEPT !.clock = @ + late], o, realm, p)
<1> DEFINE t == [s EXCEPT !.clock = @ + late]
<1> SUFFICES OK(t, o, realm, p)
  OBVIOUS
<1>1. s \in Sessions /\ \A l \in Ids : s.granted[l] # NONE => s.granted[l] <= s.clock
  BY DEF OK
<1>2. /\ t \in Sessions /\ t.clock = s.clock + late /\ t.granted = s.granted
      /\ t.names = s.names /\ t.fds = s.fds /\ t.file = s.file /\ t.sock = s.sock
  BY <1>1, SMTT(30) DEF Sessions
<1> HIDE DEF t
<1>3. /\ s.clock \in Nat /\ s.granted \in [Ids -> Nat \union {NONE}]
  BY <1>1, Fields
<1>4. Later(s, t) /\ \A l \in Ids : t.granted[l] # NONE => t.granted[l] <= t.clock
  BY <1>1, <1>2, <1>3 DEF Later
<1> QED BY <1>2, <1>4, Advances, Zenon

LEMMA GetsTicket ==
  ASSUME NEW s, NEW o, NEW realm, NEW p \in Nat, OK(s, o, realm, p), NEW l \in Ids
  PROVE  /\ OK(WithTicket(s, l), o, realm, p)
         /\ Covers(WithTicket(s, l), l, s.clock, 0)
         /\ WithTicket(s, l) = [s EXCEPT !.granted[l] = s.clock]
<1> DEFINE t == [s EXCEPT !.granted[l] = s.clock]
<1>1. s \in Sessions /\ \A k \in Ids : s.granted[k] # NONE => s.granted[k] <= s.clock
  BY DEF OK
<1>2. /\ t \in Sessions /\ t.clock = s.clock
      /\ t.granted = [s.granted EXCEPT ![l] = s.clock]
      /\ t.names = s.names /\ t.fds = s.fds /\ t.file = s.file /\ t.sock = s.sock
  BY <1>1, SMTT(30) DEF Sessions
<1>3. t = WithTicket(s, l)
  BY DEF WithTicket
<1> HIDE DEF t
<1>4. /\ s.clock \in Nat /\ s.granted \in [Ids -> Nat \union {NONE}]
  BY <1>1, Fields
<1>5. Later(s, t) /\ \A k \in Ids : t.granted[k] # NONE => t.granted[k] <= t.clock
  BY <1>1, <1>2, <1>4, Names DEF Later
<1>6. OK(t, o, realm, p)
  BY <1>2, <1>5, Advances, Zenon
<1>7. Covers(t, l, s.clock, 0)
  BY <1>2, <1>4, Names DEF Covers
<1>8. WithTicket(s, l) = [s EXCEPT !.granted[l] = s.clock]
  BY Zenon DEF WithTicket
<1> QED BY <1>3, <1>6, <1>7, <1>8, Zenon

LEMMA AddsName ==
  ASSUME NEW s, NEW o, NEW realm, NEW p \in Nat, OK(s, o, realm, p),
         NEW e \in NameEntries, e.time = s.clock, Covers(s, e.of, s.clock, Latency)
  PROVE  OK([s EXCEPT !.names = Append(@, e)], o, realm, p)
<1> DEFINE t == [s EXCEPT !.names = Append(@, e)]
<1> SUFFICES OK(t, o, realm, p)
  OBVIOUS
<1>1. /\ s \in Sessions /\ s.clock >= Boot
      /\ \A l \in Ids : s.granted[l] # NONE => s.granted[l] <= s.clock
      /\ \A i \in DOMAIN s.names : NameOK(s, s.names[i])
      /\ \A i, j \in DOMAIN s.names : i <= j => s.names[i].time <= s.names[j].time
      /\ \A i \in DOMAIN s.fds : FdOK(s, s.fds[i], o, p)
      /\ \A f \in Files : /\ s.file[f].id \notin (p + 1)..MaxForks
                          /\ ~realm => s.file[f].id \notin p..MaxForks
      /\ \A fd \in Fds : o[fd] # SOCKET => s.sock[fd] = NONE
  BY Zenon DEF OK
<1>2. s.names \in Seq(NameEntries) /\ s.clock \in Nat
  BY <1>1, Fields
<1>3. PICK q : q = Append(s.names, e)
  OBVIOUS
<1>4. /\ q \in Seq(NameEntries) /\ DOMAIN q = 1..(Len(s.names) + 1) /\ Len(s.names) \in Nat
      /\ DOMAIN s.names = 1..Len(s.names)
      /\ \A i \in DOMAIN s.names : q[i] = s.names[i]
      /\ q[Len(s.names) + 1] = e
  BY <1>2, <1>3
<1>5. /\ t \in Sessions /\ t.clock = s.clock /\ t.granted = s.granted
      /\ t.names = q /\ t.fds = s.fds /\ t.file = s.file /\ t.sock = s.sock
  BY <1>1, <1>3, <1>4 DEF Sessions
<1> HIDE DEF t
<1>6. ASSUME NEW i \in DOMAIN q PROVE NameOK(t, q[i])
  <2>1. NameOK(s, q[i])
    <3>1. CASE i \in DOMAIN s.names
      BY <1>1, <1>4, <3>1
    <3>2. CASE i \notin DOMAIN s.names
      <4>1. q[i] = e
        BY <1>4, <3>2
      <4>2. e.time <= s.clock
        BY <1>2
      <4> QED BY <4>1, <4>2 DEF NameOK
    <3> QED BY <3>1, <3>2
  <2> QED BY <1>5, <2>1 DEF NameOK, Covers
<1>7. ASSUME NEW i \in DOMAIN q, NEW j \in DOMAIN q, i <= j PROVE q[i].time <= q[j].time
  <2>1. CASE j \in DOMAIN s.names
    <3>1. i \in DOMAIN s.names
      BY <1>4, <1>7, <2>1
    <3> QED BY <1>1, <1>4, <1>7, <2>1, <3>1
  <2>2. CASE j \notin DOMAIN s.names
    <3>1. q[j].time = s.clock
      BY <1>4, <2>2
    <3>2. q[i].time <= s.clock
      BY <1>5, <1>6 DEF NameOK
    <3> QED BY <3>1, <3>2
  <2> QED BY <2>1, <2>2
<1>8. ASSUME NEW i \in DOMAIN s.fds PROVE FdOK(t, s.fds[i], o, p)
  BY <1>1, <1>5, FdSame, Zenon
<1> QED BY <1>1, <1>5, <1>6, <1>7, <1>8, Zenon DEF OK

\* The entries for descriptors become those in q, which are good.
LEMMA SetsFds ==
  ASSUME NEW s, NEW o, NEW realm, NEW p \in Nat, OK(s, o, realm, p),
         NEW q \in Seq(FdEntries), \A i \in DOMAIN q : FdOK(s, q[i], o, p)
  PROVE  OK([s EXCEPT !.fds = q], o, realm, p)
<1> DEFINE t == [s EXCEPT !.fds = q]
<1> SUFFICES OK(t, o, realm, p)
  OBVIOUS
<1>1. /\ s \in Sessions /\ s.clock >= Boot
      /\ \A l \in Ids : s.granted[l] # NONE => s.granted[l] <= s.clock
      /\ \A i \in DOMAIN s.names : NameOK(s, s.names[i])
      /\ \A i, j \in DOMAIN s.names : i <= j => s.names[i].time <= s.names[j].time
      /\ \A f \in Files : /\ s.file[f].id \notin (p + 1)..MaxForks
                          /\ ~realm => s.file[f].id \notin p..MaxForks
      /\ \A fd \in Fds : o[fd] # SOCKET => s.sock[fd] = NONE
  BY Zenon DEF OK
<1>2. /\ t \in Sessions /\ t.clock = s.clock /\ t.granted = s.granted
      /\ t.names = s.names /\ t.fds = q /\ t.file = s.file /\ t.sock = s.sock
  BY <1>1 DEF Sessions
<1> HIDE DEF t
<1>3. ASSUME NEW i \in DOMAIN q PROVE FdOK(t, q[i], o, p)
  BY <1>2, FdSame, Zenon
<1>4. ASSUME NEW i \in DOMAIN s.names PROVE NameOK(t, s.names[i])
  BY <1>1, <1>2, Zenon DEF NameOK, Covers
<1> QED BY <1>1, <1>2, <1>3, <1>4, Zenon DEF OK

LEMMA AddsFd ==
  ASSUME NEW s, NEW o, NEW realm, NEW p \in Nat, OK(s, o, realm, p),
         NEW e \in FdEntries, FdOK(s, e, o, p)
  PROVE  OK([s EXCEPT !.fds = Append(@, e)], o, realm, p)
<1>1. s \in Sessions /\ \A i \in DOMAIN s.fds : FdOK(s, s.fds[i], o, p)
  BY Zenon DEF OK
<1>2. s.fds \in Seq(FdEntries)
  BY <1>1, Fields
<1>3. PICK q : q = Append(s.fds, e)
  OBVIOUS
<1>4. /\ q \in Seq(FdEntries) /\ DOMAIN q = 1..(Len(s.fds) + 1) /\ Len(s.fds) \in Nat
      /\ DOMAIN s.fds = 1..Len(s.fds)
      /\ \A i \in DOMAIN s.fds : q[i] = s.fds[i]
      /\ q[Len(s.fds) + 1] = e
  BY <1>2, <1>3
<1>5. ASSUME NEW i \in DOMAIN q PROVE FdOK(s, q[i], o, p)
  <2>1. i \in DOMAIN s.fds \/ i = Len(s.fds) + 1
    BY <1>4
  <2> QED BY <1>1, <1>4, <2>1, Zenon
<1>6. OK([s EXCEPT !.fds = q], o, realm, p)
  BY <1>4, <1>5, SetsFds, Zenon
<1> QED BY <1>3, <1>6, Zenon

\* A file is created, given an identifier, taken out of the realm or unlinked.
\* If it is in the realm then, its identifier is new or the one of the process.
LEMMA SetsFile ==
  ASSUME NEW s, NEW o, NEW realm, NEW p \in Nat, OK(s, o, realm, p),
         NEW f \in Files, NEW v \in Inode,
         v.id \notin (p + 1)..MaxForks, ~realm => v.id \notin p..MaxForks,
         v.realm => v.id \in p..MaxForks \/ \A i \in DOMAIN s.fds : s.fds[i].data # v.id
  PROVE  OK([s EXCEPT !.file[f] = v], o, realm, p)
<1> DEFINE t == [s EXCEPT !.file[f] = v]
<1> SUFFICES OK(t, o, realm, p)
  OBVIOUS
<1>1. /\ s \in Sessions /\ s.clock >= Boot
      /\ \A l \in Ids : s.granted[l] # NONE => s.granted[l] <= s.clock
      /\ \A i \in DOMAIN s.names : NameOK(s, s.names[i])
      /\ \A i, j \in DOMAIN s.names : i <= j => s.names[i].time <= s.names[j].time
      /\ \A i \in DOMAIN s.fds : FdOK(s, s.fds[i], o, p)
      /\ \A g \in Files : /\ s.file[g].id \notin (p + 1)..MaxForks
                          /\ ~realm => s.file[g].id \notin p..MaxForks
      /\ \A fd \in Fds : o[fd] # SOCKET => s.sock[fd] = NONE
  BY Zenon DEF OK
<1>2. /\ t \in Sessions /\ t.clock = s.clock /\ t.granted = s.granted
      /\ t.names = s.names /\ t.fds = s.fds /\ t.sock = s.sock
      /\ t.file[f] = v /\ \A g \in Files : g # f => t.file[g] = s.file[g]
  BY <1>1 DEF Sessions
<1> HIDE DEF t
<1>3. Later(s, t)
  BY <1>1, <1>2, Fields DEF Later
<1>4. ASSUME NEW i \in DOMAIN s.fds PROVE FdOK(t, s.fds[i], o, p)
  <2>1. s.fds[i] \in FdEntries
    BY <1>1, Fields
  <2>2. Idle(s, s.fds[i], o, p) => Idle(t, s.fds[i], o, p)
    BY <1>2, Zenon DEF Idle
  <2> QED BY <1>1, <1>2, <1>3, <2>1, <2>2, FdStays
<1>5. ASSUME NEW i \in DOMAIN s.names PROVE NameOK(t, s.names[i])
  BY <1>1, <1>2, Zenon DEF NameOK, Covers
<1>6. \A g \in Files : /\ t.file[g].id \notin (p + 1)..MaxForks
                       /\ ~realm => t.file[g].id \notin p..MaxForks
  BY <1>1, <1>2, Zenon
<1> QED BY <1>1, <1>2, <1>4, <1>5, <1>6, Zenon DEF OK

\* Sockets are made, closed or brought into the realm by the process.
LEMMA SetsSock ==
  ASSUME NEW s, NEW o, NEW realm, NEW p \in 0..MaxForks, OK(s, o, realm, p),
         NEW o2, NEW q \in [Fds -> Ids \union {NONE}],
         \A d \in Fds : /\ o2[d] = o[d] \/ o2[d] \notin Files
                        /\ q[d] \in {s.sock[d], p, NONE}
                        /\ o2[d] # SOCKET => q[d] = NONE
  PROVE  OK([s EXCEPT !.sock = q], o2, realm, p)
<1> DEFINE t == [s EXCEPT !.sock = q]
<1> SUFFICES OK(t, o2, realm, p)
  OBVIOUS
<1>1. /\ s \in Sessions /\ s.clock >= Boot
      /\ \A l \in Ids : s.granted[l] # NONE => s.granted[l] <= s.clock
      /\ \A i \in DOMAIN s.names : NameOK(s, s.names[i])
      /\ \A i, j \in DOMAIN s.names : i <= j => s.names[i].time <= s.names[j].time
      /\ \A i \in DOMAIN s.fds : FdOK(s, s.fds[i], o, p)
      /\ \A g \in Files : /\ s.file[g].id \notin (p + 1)..MaxForks
                          /\ ~realm => s.file[g].id \notin p..MaxForks
  BY Zenon DEF OK
<1>2. /\ t \in Sessions /\ t.clock = s.clock /\ t.granted = s.granted
      /\ t.names = s.names /\ t.fds = s.fds /\ t.sock = q /\ t.file = s.file
  BY <1>1, SMTT(30) DEF Sessions
<1> HIDE DEF t
<1>3. Later(s, t) /\ p \in p..MaxForks /\ p \in Nat
  BY <1>1, <1>2, Fields, Constants DEF Later
<1>4. ASSUME NEW i \in DOMAIN s.fds PROVE FdOK(t, s.fds[i], o2, p)
  <2>1. PICK e \in FdEntries : e = s.fds[i]
    BY <1>1, Fields
  <2>2. e.fd \in Fds /\ e.data # NONE
    BY <2>1, Names DEF FdEntries
  <2>3. Idle(s, e, o, p) => Idle(t, e, o2, p)
    <3> SUFFICES ASSUME Idle(s, e, o, p) PROVE Idle(t, e, o2, p)
      OBVIOUS
    <3>1. e.data # p /\ q[e.fd] # e.data
      BY <1>3, <2>2, Zenon DEF Idle
    <3> QED BY <1>2, <2>2, <3>1, Zenon DEF Idle
  <2> QED BY <1>1, <1>2, <1>3, <2>1, <2>3, FdStays
<1>5. ASSUME NEW i \in DOMAIN s.names PROVE NameOK(t, s.names[i])
  BY <1>1, <1>2, Zenon DEF NameOK, Covers
<1> QED BY <1>1, <1>2, <1>4, <1>5, Zenon DEF OK

\* The process enters the realm, or not.
LEMMA Enters ==
  ASSUME NEW s, NEW o, NEW realm, NEW realm2, NEW p \in Nat, OK(s, o, realm, p),
         realm => realm2
  PROVE  OK(s, o, realm2, p)
BY Zenon DEF OK

\* f is opened under the number fd.  If it is in the realm then the process has
\* made it or has a ticket.
LEMMA Opens ==
  ASSUME NEW s, NEW o, NEW realm, NEW p \in Nat, OK(s, o, realm, p),
         DOMAIN o = Fds, NEW fd \in Fds, o[fd] = NONE, NEW f \in Files,
         s.file[f].realm =>
           \/ s.file[f].id \in p..MaxForks
           \/ s.file[f].id \in Ids /\ Covers(s, s.file[f].id, s.clock, Lifetime - 1)
  PROVE  OK(s, [o EXCEPT ![fd] = f], realm, p)
<1>1. /\ s \in Sessions /\ s.clock >= Boot
      /\ \A l \in Ids : s.granted[l] # NONE => s.granted[l] <= s.clock
      /\ \A i \in DOMAIN s.names : NameOK(s, s.names[i])
      /\ \A i, j \in DOMAIN s.names : i <= j => s.names[i].time <= s.names[j].time
      /\ \A i \in DOMAIN s.fds : FdOK(s, s.fds[i], o, p)
      /\ \A g \in Files : /\ s.file[g].id \notin (p + 1)..MaxForks
                          /\ ~realm => s.file[g].id \notin p..MaxForks
      /\ \A d \in Fds : o[d] # SOCKET => s.sock[d] = NONE
  BY Zenon DEF OK
<1>2. PICK o2 : o2 = [o EXCEPT ![fd] = f]
  OBVIOUS
<1>3. o2[fd] = f /\ \A d \in Fds : d # fd => o2[d] = o[d]
  BY <1>2
<1>4. \A d \in Fds : o2[d] # SOCKET => s.sock[d] = NONE
  BY <1>1, <1>3, Names
<1>5. Later(s, s)
  BY <1>1, Fields DEF Later
<1>6. ASSUME NEW i \in DOMAIN s.fds PROVE FdOK(s, s.fds[i], o2, p)
  <2>1. PICK e \in FdEntries : e = s.fds[i]
    BY <1>1, Fields
  <2>2. e.fd \in Fds /\ e.data \in Ids /\ e.time \in Nat /\ e.time <= s.clock
    BY <1>1, <2>1 DEF FdEntries, FdOK
  <2>3. Idle(s, e, o, p) => Idle(s, e, o2, p) \/ Covers(s, e.data, e.time, Lifetime - 1)
    <3> SUFFICES ASSUME Idle(s, e, o, p), ~Idle(s, e, o2, p)
                 PROVE  Covers(s, e.data, e.time, Lifetime - 1)
      OBVIOUS
    <3>1. e.fd = fd /\ s.file[f].id = e.data /\ s.file[f].realm /\ e.data \notin p..MaxForks
      BY <1>3, <2>2, Zenon DEF Idle
    <3>2. s.granted[e.data] # NONE /\ s.clock <= s.granted[e.data] + (Lifetime - 1)
      BY <3>1, Zenon DEF Covers
    <3>3. s.granted[e.data] \in Nat \union {NONE} /\ s.clock \in Nat
      BY <1>1, <2>2, Fields
    <3>4. e.time <= s.granted[e.data] + (Lifetime - 1)
      BY <2>2, <3>2, <3>3, Constants
    <3> QED BY <3>2, <3>4 DEF Covers
  <2> QED BY <1>1, <1>5, <2>1, <2>3, FdStays
<1>7. OK(s, o2, realm, p)
  BY <1>1, <1>4, <1>6, Zenon DEF OK
<1> QED BY <1>2, <1>7

\* The session of a new process, whose caches hold nothing that is in date.
LEMMA NewProcess ==
  ASSUME NEW s, NEW o, NEW realm, NEW p \in Nat, OK(s, o, realm, p),
         NEW t \in Sessions, NEW o2, NEW realm2,
         t.clock = s.clock, t.file = s.file,
         \A l \in Ids : t.granted[l] = NONE,
         \A i \in DOMAIN t.names : t.names[i].time = 0,
         \A i \in DOMAIN t.fds :
           /\ t.fds[i].time = 0 /\ t.fds[i].op # "nop" /\ t.fds[i].by <= p
           /\ t.fds[i].issued # NONE => t.fds[i].issued <= s.clock,
         \A fd \in Fds : o2[fd] # SOCKET => t.sock[fd] = NONE
  PROVE  OK(t, o2, realm2, p + 1)
<1>1. s.clock \in Nat /\ s.clock >= Boot
  BY Fields DEF OK
<1>2. \A i \in DOMAIN t.names : NameOK(t, t.names[i])
  BY <1>1 DEF NameOK
<1>3. \A i, j \in DOMAIN t.names : i <= j => t.names[i].time <= t.names[j].time
  OBVIOUS
<1>4. ASSUME NEW i \in DOMAIN t.fds PROVE FdOK(t, t.fds[i], o2, p + 1)
  <2>1. PICK e \in FdEntries : e = t.fds[i]
    BY Fields
  <2>2. e.by \in Nat /\ e.by <= p
    BY <2>1 DEF FdEntries
  <2>3. e.by < p + 1
    BY <2>2
  <2>4. FdOK(t, e, o2, p + 1)
    BY <1>1, <2>1, <2>2, <2>3 DEF FdOK
  <2> QED BY <2>1, <2>4
<1>5. \A f \in Files : t.file[f].id \notin (p + 1)..MaxForks
  BY DEF OK
<1>6. (p + 1 + 1)..MaxForks \subseteq (p + 1)..MaxForks
  BY Constants
<1>7. \A f \in Files : /\ t.file[f].id \notin (p + 1 + 1)..MaxForks
                       /\ ~realm2 => t.file[f].id \notin (p + 1)..MaxForks
  BY <1>5, <1>6, Zenon
<1> QED BY <1>1, <1>2, <1>3, <1>4, <1>7, Zenon DEF OK

-----------------------------------------------------------------------------
(* Operations of the library and of the kernel.                            *)

\* The sessions that the process can be in, and the outcomes that lead to them.
GoodSessions == {s \in Sessions : OK(s, opened, in_realm, pid)}
Outcomes == [s : GoodSessions, ok : BOOLEAN]

Process ==
  /\ pid \in 0..MaxForks /\ in_realm \in BOOLEAN
  /\ opened \in [Fds -> Files \union {SOCKET, ACCEPTED, NONE}]

LEMMA Good ==
  \A s : s \in GoodSessions <=> OK(s, opened, in_realm, pid)
BY Zenon DEF GoodSessions, OK

LEMMA Outcome ==
  ASSUME NEW s \in GoodSessions, NEW ok \in BOOLEAN
  PROVE  [s |-> s, ok |-> ok] \in Outcomes
BY DEF Outcomes

LEMMA PidIsNat == Process => pid \in Nat
BY Constants DEF Process

LEMMA Transaction ==
  ASSUME Process, NEW s \in GoodSessions, NEW done \in GoodSessions,
         NEW partial \in SUBSET GoodSessions, NEW r \in ipc_transaction(s, partial, done)
  PROVE  /\ r \in Outcomes
         /\ r.ok => \E late \in 0..Latency : r.s = [done EXCEPT !.clock = @ + late]
<1>1. CASE r \in {[s |-> [done EXCEPT !.clock = @ + late], ok |-> TRUE] : late \in 0..Latency}
  <2>1. PICK late \in 0..Latency : r = [s |-> [done EXCEPT !.clock = @ + late], ok |-> TRUE]
    BY <1>1
  <2>2. PICK t : t = [done EXCEPT !.clock = @ + late]
    OBVIOUS
  <2>3. late \in Nat
    BY Constants
  <2>4. t \in GoodSessions
    BY <2>2, <2>3, Good, PidIsNat, Waits, Zenon
  <2>5. r = [s |-> t, ok |-> TRUE]
    BY <2>1, <2>2, Zenon
  <2>6. r \in Outcomes /\ r.s = t
    BY <2>4, <2>5 DEF Outcomes
  <2> QED BY <2>2, <2>6, Zenon
<1>2. CASE r \in {[s |-> t, ok |-> FALSE] : t \in partial \union {s, done}}
  <2>1. PICK t \in GoodSessions : r = [s |-> t, ok |-> FALSE]
    BY <1>2
  <2> QED BY <2>1 DEF Outcomes
<1> QED BY <1>1, <1>2 DEF ipc_transaction

\* An approved outcome leads to another session.
LEMMA ApprovedOutcome ==
  ASSUME NEW r \in Outcomes, NEW t, r.ok => t \in GoodSessions
  PROVE  (IF r.ok THEN [r EXCEPT !.s = t] ELSE r) \in Outcomes
BY DEF Outcomes

LEMMA NamesEntry ==
  ASSUME Process, NEW s \in GoodSessions, NEW f \in Files, NEW ops \in SUBSET {"claim", "open"},
         NEW l \in Ids, Covers(s, l, s.clock, Latency)
  PROVE  NewName(s, f, ops, l) \in GoodSessions
<1>1. PICK e : e = [path |-> f, ops |-> ops, time |-> s.clock, of |-> l]
  OBVIOUS
<1>2. s \in Sessions /\ OK(s, opened, in_realm, pid)
  BY Good DEF GoodSessions
<1>3. e \in NameEntries /\ e.time = s.clock /\ e.of = l
  BY <1>1, <1>2, Fields DEF NameEntries
<1>4. OK([s EXCEPT !.names = Append(@, e)], opened, in_realm, pid)
  BY <1>2, <1>3, PidIsNat, AddsName
<1> QED BY <1>1, <1>4, Good, Zenon DEF NewName

LEMMA ApprovalGood ==
  ASSUME Process, NEW s \in GoodSessions, NEW f \in Files, NEW ops \in SUBSET {"claim", "open"},
         NEW l \in Ids,
         s.file[f].id # l => l \in Labels /\ \A i \in DOMAIN s.fds : s.fds[i].data # l
  PROVE  Approval(s, f, l, ops) \subseteq Outcomes
<1>0. /\ s \in Sessions /\ OK(s, opened, in_realm, pid) /\ pid \in Nat
  BY Good, PidIsNat DEF GoodSessions
<1>1. CASE ~s.file[f].exists
  BY <1>1, Outcome DEF Approval
<1>2. CASE s.file[f].exists
  <2>1. PICK v : v = [exists |-> TRUE, id |-> l, realm |-> TRUE]
    OBVIOUS
  <2>2. PICK named : named = IF s.file[f].id = l THEN s ELSE [s EXCEPT !.file[f] = v]
    OBVIOUS
  <2>3. named \in GoodSessions
    <3>1. CASE s.file[f].id = l
      BY <2>2, <3>1
    <3>2. CASE s.file[f].id # l
      <4>1. v \in Inode /\ v.id = l
        BY <2>1 DEF Inode
      <4>2. v.id \notin (pid + 1)..MaxForks /\ v.id \notin pid..MaxForks
        BY <1>0, <3>2, <4>1, Names
      <4> QED BY <1>0, <2>2, <3>2, <4>1, <4>2, SetsFile, Good
    <3> QED BY <3>1, <3>2
  <2>4. PICK done : done = WithTicket(named, l)
    OBVIOUS
  <2>5. /\ done \in GoodSessions /\ named \in Sessions
        /\ Covers(done, l, named.clock, 0) /\ done.clock = named.clock
    <3>1. /\ OK(done, opened, in_realm, pid) /\ Covers(done, l, named.clock, 0)
          /\ done = [named EXCEPT !.granted[l] = named.clock]
      BY <1>0, <2>3, <2>4, Good, GetsTicket, Zenon
    <3>2. named \in Sessions
      BY <2>3 DEF GoodSessions
    <3>3. done.clock = named.clock
      BY <3>1, <3>2 DEF Sessions
    <3> QED BY <3>1, <3>2, <3>3, Good
  <2>6. PICK R : R = ipc_transaction(s, {named}, done)
    OBVIOUS
  <2>7. Approval(s, f, l, ops) = {IF r.ok THEN [r EXCEPT !.s = NewName(r.s, f, ops, l)] ELSE r : r \in R}
    BY <1>2, <2>1, <2>2, <2>4, <2>6 DEF Approval, IfApproved
  <2>8. ASSUME NEW r \in R
        PROVE  r \in Outcomes /\ (r.ok => NewName(r.s, f, ops, l) \in GoodSessions)
    <3>1. /\ r \in Outcomes
          /\ r.ok => \E late \in 0..Latency : r.s = [done EXCEPT !.clock = @ + late]
      BY <2>3, <2>5, <2>6, Transaction
    <3> SUFFICES ASSUME r.ok PROVE NewName(r.s, f, ops, l) \in GoodSessions
      BY <3>1
    <3>2. r.s \in GoodSessions
      BY <3>1 DEF Outcomes
    <3>3. PICK late \in 0..Latency : r.s = [done EXCEPT !.clock = @ + late]
      BY <3>1
    <3>4. r.s.clock = named.clock + late /\ r.s.granted = done.granted
      BY <2>5, <3>3 DEF GoodSessions, Sessions
    <3>5. named.clock \in Nat /\ done.granted[l] \in Nat \union {NONE}
      BY <2>5, Fields DEF GoodSessions
    <3>6. Covers(r.s, l, r.s.clock, Latency)
      BY <2>5, <3>4, <3>5, Constants DEF Covers
    <3> QED BY <3>2, <3>6, NamesEntry
  <2> QED BY <2>7, <2>8, ApprovedOutcome
<1> QED BY <1>1, <1>2

LEMMA IdentifierType ==
  ASSUME Process, NEW s \in GoodSessions, NEW fd \in Fds
  PROVE  get_fd_identifier(s, fd) \in Ids \union {NONE}
<1>1. s.file \in [Files -> Inode] /\ s.sock \in [Fds -> Ids \union {NONE}]
  BY Fields DEF GoodSessions
<1> QED BY <1>1 DEF get_fd_identifier, Inode

\* A ticket for a socket, and the entry for it.
LEMMA RecordsSocket ==
  ASSUME Process, NEW s \in GoodSessions, NEW fd \in Fds, NEW op \in {"internal", "external"},
         NEW l \in Ids, NEW issued \in Nat, issued <= s.clock, s.clock <= issued + Latency
  PROVE  NewFd(s, fd, op, l, issued) \in GoodSessions
<1>1. PICK e : e = [fd |-> fd, op |-> op, time |-> s.clock, data |-> l,
                    by |-> pid, issued |-> issued]
  OBVIOUS
<1>2. s \in Sessions /\ OK(s, opened, in_realm, pid) /\ pid \in Nat
  BY Good, PidIsNat DEF GoodSessions
<1>3. s.clock \in Nat /\ issued # NONE
  BY <1>2, Fields, Names
<1>4. /\ e \in FdEntries /\ e.time = s.clock /\ e.issued = issued /\ e.op = op /\ e.by = pid
  BY <1>1, <1>3 DEF FdEntries, Process, TicketOps
<1>5. FdOK(s, e, opened, pid)
  BY <1>2, <1>3, <1>4 DEF FdOK
<1>6. OK([s EXCEPT !.fds = Append(@, e)], opened, in_realm, pid)
  BY <1>2, <1>4, <1>5, AddsFd
<1> QED BY <1>1, <1>6, Good, Zenon DEF NewFd

\* A session after a request for op on l.
LEMMA Asks ==
  ASSUME Process, NEW s \in GoodSessions, NEW l \in Ids, NEW op, NEW r \in Ask(s, l, op)
  PROVE  /\ r \in Outcomes
         /\ r.ok => /\ r.s \in GoodSessions /\ r.s.fds = s.fds
                    /\ s.clock <= r.s.clock /\ r.s.clock <= s.clock + Latency
                    /\ op = "open" => Covers(r.s, l, r.s.clock, Lifetime - 1)
<1>1. PICK done : done = IF op = "open" THEN WithTicket(s, l) ELSE s
  OBVIOUS
<1>2. s \in Sessions /\ OK(s, opened, in_realm, pid) /\ pid \in Nat /\ s.clock \in Nat
  BY Good, PidIsNat, Fields DEF GoodSessions
<1>3. /\ done \in GoodSessions /\ done.fds = s.fds /\ done.clock = s.clock
      /\ op = "open" => Covers(done, l, s.clock, 0)
  <2>1. CASE op = "open"
    <3>1. /\ OK(done, opened, in_realm, pid) /\ Covers(done, l, s.clock, 0)
          /\ done = [s EXCEPT !.granted[l] = s.clock]
      BY <1>1, <1>2, <2>1, GetsTicket, Zenon
    <3>2. done.fds = s.fds /\ done.clock = s.clock
      BY <1>2, <3>1 DEF Sessions
    <3> QED BY <3>1, <3>2, Good
  <2>2. CASE op # "open"
    BY <1>1, <2>2
  <2> QED BY <2>1, <2>2
<1>4. r \in ipc_transaction(s, {}, done)
  BY <1>1 DEF Ask
<1>5. /\ r \in Outcomes
      /\ r.ok => \E late \in 0..Latency : r.s = [done EXCEPT !.clock = @ + late]
  BY <1>3, <1>4, Transaction
<1>6. SUFFICES ASSUME r.ok
      PROVE  /\ r.s \in GoodSessions /\ r.s.fds = s.fds
             /\ s.clock <= r.s.clock /\ r.s.clock <= s.clock + Latency
             /\ op = "open" => Covers(r.s, l, r.s.clock, Lifetime - 1)
  BY <1>5, Zenon
<1>7. PICK late \in 0..Latency : r.s = [done EXCEPT !.clock = @ + late]
  BY <1>5, <1>6
<1>8. /\ r.s \in GoodSessions /\ r.s.fds = s.fds /\ r.s.clock = s.clock + late
      /\ r.s.granted = done.granted
  BY <1>3, <1>5, <1>7 DEF Outcomes, GoodSessions, Sessions
<1>9. done.granted[l] \in Nat \union {NONE}
  BY <1>3, Fields DEF GoodSessions
<1>10. op = "open" => Covers(r.s, l, r.s.clock, Lifetime - 1)
  BY <1>2, <1>3, <1>8, <1>9, Constants DEF Covers
<1> QED BY <1>2, <1>8, <1>10, Constants

LEMMA CreatedGood ==
  ASSUME Process, NEW s \in GoodSessions, NEW f \in Files
  PROVE  /\ Created(s, f) \in GoodSessions
         /\ Created(s, f).file[f].realm => Created(s, f).file[f].id \in pid..MaxForks
<1>1. s \in Sessions /\ OK(s, opened, in_realm, pid) /\ pid \in Nat /\ pid \in 0..MaxForks
  BY Good, PidIsNat DEF GoodSessions, Process
<1>2. PICK v : v = IF in_realm THEN [exists |-> TRUE, id |-> pid, realm |-> TRUE] ELSE Plain
  OBVIOUS
<1>3. v \in Inode
  BY <1>1, <1>2 DEF Inode, Plain, Ids
<1>4. /\ v.id \notin (pid + 1)..MaxForks /\ (~in_realm => v.id \notin pid..MaxForks)
      /\ v.realm => v.id \in pid..MaxForks
  <2>1. CASE in_realm
    BY <1>1, <1>2, <2>1, Constants
  <2>2. CASE ~in_realm
    <3>1. v.id = NONE /\ v.realm = FALSE
      BY <1>2, <2>2 DEF Plain
    <3> QED BY <1>1, <2>2, <3>1, Names, Constants
  <2> QED BY <2>1, <2>2
<1>5. OK([s EXCEPT !.file[f] = v], opened, in_realm, pid)
  BY <1>1, <1>3, <1>4, SetsFile
<1>6. [s EXCEPT !.file[f] = v].file[f] = v
  BY <1>1 DEF Sessions
<1>7. Created(s, f) = [s EXCEPT !.file[f] = v]
  BY <1>2, Zenon DEF Created
<1> QED BY <1>4, <1>5, <1>6, <1>7, Good, Zenon

LEMMA UnlinkGood ==
  ASSUME Process, NEW s \in GoodSessions, NEW f \in Files
  PROVE  [s EXCEPT !.file[f] = NoFile] \in GoodSessions
<1>1. OK(s, opened, in_realm, pid) /\ pid \in Nat
  BY Good, PidIsNat
<1>2. NoFile \in Inode /\ NoFile.id = NONE /\ ~NoFile.realm
  BY DEF NoFile, Inode
<1>3. NONE \notin pid..MaxForks /\ NONE \notin (pid + 1)..MaxForks
  BY <1>1, Names, Constants
<1>4. OK([s EXCEPT !.file[f] = NoFile], opened, in_realm, pid)
  BY <1>1, <1>2, <1>3, SetsFile
<1> QED BY <1>4, Good, Zenon

LEMMA RealmSocketGood ==
  ASSUME Process, NEW s \in GoodSessions, NEW fd \in Fds
  PROVE  realm_init_socket(s, fd) \in GoodSessions
<1>1. CASE opened[fd] = SOCKET /\ in_realm /\ s.sock[fd] = NONE
  <2>1. /\ s \in Sessions /\ OK(s, opened, in_realm, pid) /\ pid \in 0..MaxForks
        /\ s.sock \in [Fds -> Ids \union {NONE}]
    BY Good, Fields DEF GoodSessions, Process
  <2>2. PICK q : q = [s.sock EXCEPT ![fd] = pid]
    OBVIOUS
  <2>3. /\ q \in [Fds -> Ids \union {NONE}]
        /\ \A d \in Fds : q[d] = IF d = fd THEN pid ELSE s.sock[d]
    BY <2>1, <2>2 DEF Ids
  <2>4. \A d \in Fds : opened[d] # SOCKET => s.sock[d] = NONE
    BY <2>1 DEF OK
  <2>5. OK([s EXCEPT !.sock = q], opened, in_realm, pid)
    BY <1>1, <2>1, <2>3, <2>4, SetsSock
  <2>6. realm_init_socket(s, fd) = [s EXCEPT !.sock = q]
    BY <1>1, <2>2, Zenon DEF realm_init_socket
  <2> QED BY <2>5, <2>6, Good, Zenon
<1>2. CASE ~(opened[fd] = SOCKET /\ in_realm /\ s.sock[fd] = NONE)
  BY <1>2, Zenon DEF realm_init_socket
<1> QED BY <1>1, <1>2

LEMMA UsedGood ==
  ASSUME Process, NEW outcomes \in SUBSET Outcomes, NEW fd \in Fds
  PROVE  Used(outcomes, fd) \subseteq Outcomes
<1> SUFFICES ASSUME NEW r \in outcomes
             PROVE  (IF r.ok THEN [r EXCEPT !.s = realm_init_socket(r.s, fd)] ELSE r) \in Outcomes
  BY Zenon DEF Used, IfApproved
<1>1. r \in Outcomes /\ r.s \in GoodSessions
  BY DEF Outcomes
<1>2. realm_init_socket(r.s, fd) \in GoodSessions
  BY <1>1, RealmSocketGood
<1> QED BY <1>1, <1>2, ApprovedOutcome

\* The kernel opens a file in the realm only for a process with a ticket.
LEMMA PermitsCovers ==
  ASSUME Process, NEW s \in GoodSessions, NEW f \in Files, Permits(s, f),
         s.file[f].realm \/ in_realm
  PROVE  s.file[f].id \in Ids /\ Covers(s, s.file[f].id, s.clock, Lifetime - 1)
<1>1. PICK l : l = s.file[f].id
  OBVIOUS
<1>2. /\ s.clock \in Nat /\ s.file \in [Files -> Inode]
      /\ s.granted \in [Ids -> Nat \union {NONE}]
  BY Fields DEF GoodSessions
<1>3. l # NONE /\ Valid(s, l)
  BY <1>1, Zenon DEF Permits
<1>4. l \in Ids
  BY <1>1, <1>2, <1>3 DEF Inode
<1>5. s.granted[l] \in Nat /\ s.clock - s.granted[l] < Lifetime
  BY <1>2, <1>3, <1>4 DEF Valid, Lifetime
<1>6. s.granted[l] # NONE /\ s.clock <= s.granted[l] + (Lifetime - 1)
  BY <1>2, <1>3, <1>5, Constants DEF Valid
<1> QED BY <1>1, <1>4, <1>6 DEF Covers

-----------------------------------------------------------------------------
(* Steps that look nothing up in a cache.                                  *)

Openings == [Fds -> Files \union {SOCKET, ACCEPTED, NONE}]

LEMMA Starts ==
  ASSUME IInv
  PROVE  /\ Process /\ Session \in GoodSessions /\ OK(Session, opened, in_realm, pid)
         /\ pid \in Nat /\ known_taint \in BOOLEAN /\ opened \in Openings
BY Good, Constants DEF IInv, Process, Openings

\* The state is the one of the session s.
LEMMA Arrives ==
  ASSUME NEW s, OK(s, opened', in_realm', pid'),
         now' = s.clock, now' <= MaxClock, file_names' = s.names, fd_cache' = s.fds,
         file' = s.file, sock' = s.sock, granted' = s.granted,
         pid' \in 0..MaxForks, known_taint' \in BOOLEAN, in_realm' \in BOOLEAN,
         opened' \in Openings
  PROVE  IInv'
<1>1. s \in Sessions
  BY DEF OK
<1>2. s = Session'
  BY <1>1, Fields DEF Session
<1>3. OK(Session', opened', in_realm', pid')
  BY <1>2, Zenon
<1> QED BY <1>3 DEF IInv, Openings

LEMMA Settles ==
  ASSUME NEW s, OK(s, opened', in_realm', pid'), Becomes(s),
         pid' \in 0..MaxForks, known_taint' \in BOOLEAN, in_realm' \in BOOLEAN,
         opened' \in Openings
  PROVE  IInv'
<1>1. /\ now' = s.clock /\ now' <= MaxClock /\ file_names' = s.names /\ fd_cache' = s.fds
      /\ file' = s.file /\ sock' = s.sock /\ granted' = s.granted
  BY DEF Becomes
<1> QED BY <1>1, Arrives

LEMMA SessionKeeps ==
  ASSUME IInv, NEW outcomes \in SUBSET Outcomes, InSession(outcomes)
  PROVE  IInv'
<1>1. PICK r \in outcomes : Becomes(r.s)
  BY DEF InSession
<1>2. /\ UNCHANGED pid /\ UNCHANGED known_taint /\ UNCHANGED opened /\ UNCHANGED in_realm
  BY DEF InSession
<1>3. r.s \in GoodSessions
  BY DEF Outcomes
<1>4. OK(r.s, opened, in_realm, pid)
  BY <1>3, Good
<1>5. OK(r.s, opened', in_realm', pid')
  BY <1>2, <1>4
<1>6. pid' \in 0..MaxForks /\ known_taint' \in BOOLEAN /\ in_realm' \in BOOLEAN
      /\ opened' \in Openings
  BY <1>2 DEF IInv, Openings
<1> QED BY <1>1, <1>5, <1>6, Settles

\* The process is in the realm after the step, or where it was before.
LEMMA RealmKeeps ==
  ASSUME IInv, NEW s \in GoodSessions, Becomes(s), in_realm' \in BOOLEAN,
         in_realm => in_realm', UNCHANGED <<pid, known_taint, opened>>
  PROVE  IInv'
<1>1. OK(s, opened, in_realm', pid)
  BY Good, Starts, Enters
<1>2. OK(s, opened', in_realm', pid')
  BY <1>1
<1>3. pid' \in 0..MaxForks /\ known_taint' \in BOOLEAN /\ opened' \in Openings
  BY DEF IInv, Openings
<1> QED BY <1>2, <1>3, Settles

LEMMA TickKeeps == IInv /\ Tick => IInv'
<1> SUFFICES ASSUME IInv, Tick PROVE IInv'
  OBVIOUS
<1>1. PICK s : s = Session
  OBVIOUS
<1>2. PICK t : t = [s EXCEPT !.clock = @ + 1]
  OBVIOUS
<1>3. OK(t, opened, in_realm, pid)
  BY <1>1, <1>2, Starts, Waits
<1>4. s \in Sessions /\ s.clock = now
  BY <1>1, Starts, SessionFields DEF OK
<1>5. /\ t.clock = now + 1 /\ t.names = file_names /\ t.fds = fd_cache
      /\ t.file = file /\ t.sock = sock /\ t.granted = granted
  BY <1>1, <1>2, <1>4, SessionFields DEF Sessions
<1>6. /\ now \in Nat /\ now < MaxClock /\ now' = now + 1
      /\ UNCHANGED <<pid, known_taint, file_names, fd_cache, file, sock,
                     opened, in_realm, granted>>
  BY <1>4, Fields DEF Tick
<1>7. OK(t, opened', in_realm', pid') /\ now' = t.clock /\ now' <= MaxClock
  BY <1>3, <1>5, <1>6, Constants
<1>8. pid' \in 0..MaxForks /\ known_taint' \in BOOLEAN /\ in_realm' \in BOOLEAN
      /\ opened' \in Openings
  BY <1>6 DEF IInv, Openings
<1> QED BY <1>5, <1>6, <1>7, <1>8, Arrives

LEMMA DeclassifyKeeps ==
  ASSUME IInv, NEW f \in Files, citadel_declassify(f)
  PROVE  IInv'
<1>1. PICK s : s = Session
  OBVIOUS
<1>2. Process /\ s \in GoodSessions /\ OK(s, opened, in_realm, pid) /\ pid \in Nat
      /\ s.file \in [Files -> Inode]
  BY <1>1, Starts, Fields DEF OK
<1>3. PICK v : v = [s.file[f] EXCEPT !.realm = FALSE]
  OBVIOUS
<1>4. v \in Inode /\ v.id = s.file[f].id /\ ~v.realm
  BY <1>2, <1>3 DEF Inode
<1>5. s.file[f].id \notin (pid + 1)..MaxForks /\ (~in_realm => s.file[f].id \notin pid..MaxForks)
  BY <1>2, Zenon DEF OK
<1>6. PICK done : done = [s EXCEPT !.file[f] = v]
  OBVIOUS
<1>7. done \in GoodSessions
  <2>1. OK(done, opened, in_realm, pid)
    BY <1>2, <1>4, <1>5, <1>6, SetsFile
  <2> QED BY <2>1, Good
<1>8. done = [s EXCEPT !.file[f].realm = FALSE]
  BY <1>3, <1>6
<1>9. ipc_transaction(s, {}, done) \subseteq Outcomes
  BY <1>2, <1>7, Transaction
<1>10. InSession(ipc_transaction(s, {}, done))
  BY <1>1, <1>8 DEF citadel_declassify
<1> QED BY <1>9, <1>10, SessionKeeps

LEMMA OpenedType ==
  ASSUME opened \in Openings, NEW fd \in Fds, NEW x \in Files \union {SOCKET, ACCEPTED, NONE}
  PROVE  /\ [opened EXCEPT ![fd] = x] \in Openings
         /\ \A d \in Fds : [opened EXCEPT ![fd] = x][d] = IF d = fd THEN x ELSE opened[d]
BY DEF Openings

LEMMA UntaintedKeeps ==
  ASSUME IInv, NEW f \in Files, NEW fd \in Fds, c_open_untainted(f, fd)
  PROVE  IInv'
<1>1. /\ Process /\ Session \in GoodSessions /\ pid \in Nat /\ opened \in Openings
      /\ known_taint \in BOOLEAN /\ Session.file = file
  BY Starts, SessionFields
<1>2. /\ opened[fd] = NONE
      /\ ~file[f].exists \/ Permits(Session, f)
      /\ Becomes(IF file[f].exists THEN Session ELSE Created(Session, f))
      /\ opened' = [opened EXCEPT ![fd] = f]
      /\ in_realm' = (in_realm \/ Taints(Session, f))
      /\ pid' = pid /\ known_taint' = known_taint
  BY DEF c_open_untainted
<1>3. PICK s : s = IF file[f].exists THEN Session ELSE Created(Session, f)
  OBVIOUS
<1>4. /\ s \in GoodSessions
      /\ s.file[f].realm =>
           \/ s.file[f].id \in pid..MaxForks
           \/ s.file[f].id \in Ids /\ Covers(s, s.file[f].id, s.clock, Lifetime - 1)
  <2>1. CASE file[f].exists
    <3>1. s = Session /\ Permits(s, f)
      BY <1>2, <1>3, <2>1, Zenon
    <3> QED BY <1>1, <3>1, PermitsCovers, Zenon
  <2>2. CASE ~file[f].exists
    <3>1. s = Created(Session, f)
      BY <1>3, <2>2, Zenon
    <3> QED BY <1>1, <3>1, CreatedGood, Zenon
  <2> QED BY <2>1, <2>2
<1>5. OK(s, opened, in_realm, pid) /\ DOMAIN opened = Fds
  BY <1>1, <1>4, Good, SMTT(30) DEF Openings
<1>6. OK(s, opened', in_realm, pid)
  BY <1>1, <1>2, <1>4, <1>5, Opens
<1>7. in_realm' \in BOOLEAN /\ (in_realm => in_realm')
  BY <1>2, Zenon
<1>8. OK(s, opened', in_realm', pid')
  BY <1>1, <1>2, <1>6, <1>7, Enters
<1>9. pid' \in 0..MaxForks /\ known_taint' \in BOOLEAN /\ opened' \in Openings
  BY <1>1, <1>2, OpenedType DEF Process
<1> QED BY <1>2, <1>3, <1>7, <1>8, <1>9, Settles

LEMMA SocketKeeps ==
  ASSUME IInv, NEW fd \in Fds, socket(fd)
  PROVE  IInv'
<1>1. PICK s : s = Session
  OBVIOUS
<1>2. /\ s \in Sessions /\ OK(s, opened, in_realm, pid) /\ opened \in Openings
      /\ pid \in 0..MaxForks /\ in_realm \in BOOLEAN /\ known_taint \in BOOLEAN
      /\ s.clock = now /\ s.names = file_names /\ s.fds = fd_cache
      /\ s.file = file /\ s.sock = sock /\ s.granted = granted
  BY <1>1, Starts, SessionFields DEF OK, Process
<1>3. /\ opened' = [opened EXCEPT ![fd] = SOCKET]
      /\ sock' = [sock EXCEPT ![fd] = IF in_realm THEN pid ELSE NONE]
      /\ now' = now /\ pid' = pid /\ known_taint' = known_taint /\ file_names' = file_names
      /\ fd_cache' = fd_cache /\ file' = file /\ in_realm' = in_realm /\ granted' = granted
  BY DEF socket
<1>4. PICK o, q : o = opened' /\ q = sock'
  OBVIOUS
<1>5. o \in Openings /\ \A d \in Fds : o[d] = IF d = fd THEN SOCKET ELSE opened[d]
  BY <1>2, <1>3, <1>4 DEF Openings
<1>6. /\ q \in [Fds -> Ids \union {NONE}]
      /\ \A d \in Fds : q[d] = IF d = fd THEN (IF in_realm THEN pid ELSE NONE) ELSE s.sock[d]
  BY <1>2, <1>3, <1>4, Fields, SMTT(30) DEF Ids
<1>7. \A d \in Fds : opened[d] # SOCKET => s.sock[d] = NONE
  BY <1>2 DEF OK
<1>8. \A d \in Fds : /\ o[d] = opened[d] \/ o[d] \notin Files
                     /\ q[d] \in {s.sock[d], pid, NONE}
                     /\ o[d] # SOCKET => q[d] = NONE
  BY <1>5, <1>6, <1>7, Names
<1>9. PICK t : t = [s EXCEPT !.sock = q]
  OBVIOUS
<1>10. OK(t, o, in_realm, pid)
  BY <1>2, <1>6, <1>8, <1>9, SetsSock
<1>11. /\ t.clock = s.clock /\ t.names = s.names /\ t.fds = s.fds
       /\ t.file = s.file /\ t.sock = q /\ t.granted = s.granted
  BY <1>2, <1>9 DEF Sessions
<1>12. OK(t, opened', in_realm', pid')
  BY <1>3, <1>4, <1>10
<1>13. now' <= MaxClock
  BY <1>3 DEF IInv
<1> QED BY <1>2, <1>3, <1>4, <1>5, <1>11, <1>12, <1>13, Arrives

LEMMA AcceptKeeps ==
  ASSUME IInv, NEW fd \in Fds, NEW new \in Fds, accept(fd, new)
  PROVE  IInv'
<1>1. PICK s : s = Session
  OBVIOUS
<1>2. /\ Process /\ s \in GoodSessions /\ s \in Sessions
      /\ OK(s, opened, in_realm, pid) /\ opened \in Openings
      /\ pid \in 0..MaxForks /\ in_realm \in BOOLEAN /\ known_taint \in BOOLEAN
      /\ s.clock = now /\ s.names = file_names /\ s.fds = fd_cache
      /\ s.file = file /\ s.sock = sock /\ s.granted = granted
  BY <1>1, Starts, SessionFields DEF OK, Process
<1>3. PICK t : t = realm_init_socket(s, fd)
  OBVIOUS
<1>4. t \in Sessions /\ OK(t, opened, in_realm, pid)
  BY <1>2, <1>3, RealmSocketGood, Good DEF GoodSessions
<1>5. /\ t.clock = s.clock /\ t.names = s.names /\ t.fds = s.fds
      /\ t.file = s.file /\ t.granted = s.granted
  BY <1>2, <1>3 DEF realm_init_socket, Sessions
<1>6. PICK x \in {SOCKET, ACCEPTED} : x = IF t.sock[fd] = NONE THEN SOCKET ELSE ACCEPTED
  OBVIOUS
<1>7. /\ opened[fd] = SOCKET /\ opened[new] = NONE
      /\ opened' = [opened EXCEPT ![new] = x]
      /\ sock' = t.sock
      /\ now' = now /\ pid' = pid /\ known_taint' = known_taint /\ file_names' = file_names
      /\ fd_cache' = fd_cache /\ file' = file /\ in_realm' = in_realm /\ granted' = granted
  BY <1>1, <1>3, <1>6 DEF accept
<1>8. PICK o : o = opened'
  OBVIOUS
<1>9. o \in Openings /\ \A d \in Fds : o[d] = IF d = new THEN x ELSE opened[d]
  BY <1>2, <1>6, <1>7, <1>8, SMTT(30) DEF Openings
<1>10. \A d \in Fds : opened[d] # SOCKET => t.sock[d] = NONE
  BY <1>4 DEF OK
<1>11. \A d \in Fds : /\ o[d] = opened[d] \/ o[d] \notin Files
                      /\ t.sock[d] \in {t.sock[d], pid, NONE}
                      /\ o[d] # SOCKET => t.sock[d] = NONE
  BY <1>6, <1>7, <1>9, <1>10, Names
<1>12. t.sock \in [Fds -> Ids \union {NONE}]
  BY <1>4, Fields
<1>13. OK([t EXCEPT !.sock = t.sock], o, in_realm, pid)
  BY <1>2, <1>4, <1>11, <1>12, SetsSock
<1>14. t = [t EXCEPT !.sock = t.sock]
  BY <1>4 DEF Sessions
<1>15. OK(t, opened', in_realm', pid')
  BY <1>7, <1>8, <1>13, <1>14
<1>16. now' <= MaxClock
  BY <1>7 DEF IInv
<1> QED BY <1>2, <1>5, <1>7, <1>8, <1>9, <1>15, <1>16, Arrives

\* The entry for an end of a pair of sockets.
LEMMA DeclaresNop ==
  ASSUME Process, NEW s, NEW o, NEW realm, OK(s, o, realm, pid), NEW fd \in Fds,
         NEW l \in Ids \union {NONE}
  PROVE  OK(citadel_declare_fd(s, fd, "nop", l), o, realm, pid)
<1>1. CASE l = NONE
  BY <1>1, Zenon DEF citadel_declare_fd
<1>2. CASE l # NONE
  <2>1. s \in Sessions /\ s.clock \in Nat /\ pid \in Nat /\ pid \in 0..MaxForks /\ l \in Ids
    BY <1>2, Fields, PidIsNat DEF OK, Process
  <2>2. PICK e : e = [fd |-> fd, op |-> "nop", time |-> s.clock, data |-> l,
                      by |-> pid, issued |-> NONE]
    OBVIOUS
  <2>3. e \in FdEntries /\ e.time = s.clock /\ e.issued = NONE /\ e.op = "nop" /\ e.by = pid
    BY <2>1, <2>2 DEF FdEntries
  <2>4. FdOK(s, e, o, pid)
    BY <2>1, <2>3 DEF FdOK
  <2>5. OK([s EXCEPT !.fds = Append(@, e)], o, realm, pid)
    BY <2>1, <2>3, <2>4, AddsFd
  <2>6. citadel_declare_fd(s, fd, "nop", l) = [s EXCEPT !.fds = Append(@, e)]
    BY <1>2, <2>2, Zenon DEF citadel_declare_fd, NewFd
  <2> QED BY <2>5, <2>6, Zenon
<1> QED BY <1>1, <1>2

LEMMA SocketpairKeeps ==
  ASSUME IInv, NEW a \in Fds, NEW b \in Fds, c_socketpair(a, b)
  PROVE  IInv'
<1>1. PICK s : s = Session
  OBVIOUS
<1>2. /\ Process /\ s \in Sessions /\ OK(s, opened, in_realm, pid) /\ opened \in Openings
      /\ pid \in 0..MaxForks /\ in_realm \in BOOLEAN /\ known_taint \in BOOLEAN
  BY <1>1, Starts DEF OK, Process
<1>3. PICK x \in {pid, NONE} : x = IF in_realm THEN pid ELSE NONE
  OBVIOUS
<1>4. PICK q : q = [s.sock EXCEPT ![a] = x, ![b] = x]
  OBVIOUS
<1>5. PICK o : o = [opened EXCEPT ![a] = SOCKET, ![b] = SOCKET]
  OBVIOUS
<1>6. PICK t : t = [s EXCEPT !.sock = q]
  OBVIOUS
<1>7. /\ q \in [Fds -> Ids \union {NONE}]
      /\ \A d \in Fds : q[d] = IF d \in {a, b} THEN x ELSE s.sock[d]
  <2>1. s.sock \in [Fds -> Ids \union {NONE}] /\ x \in Ids \union {NONE}
    BY <1>2, <1>3, Fields DEF Ids
  <2> QED BY <1>4, <2>1
<1>8. o \in Openings /\ \A d \in Fds : o[d] = IF d \in {a, b} THEN SOCKET ELSE opened[d]
  BY <1>2, <1>5 DEF Openings
<1>9. \A d \in Fds : opened[d] # SOCKET => s.sock[d] = NONE
  BY <1>2 DEF OK
<1>10. \A d \in Fds : /\ o[d] = opened[d] \/ o[d] \notin Files
                      /\ q[d] \in {s.sock[d], pid, NONE}
                      /\ o[d] # SOCKET => q[d] = NONE
  BY <1>3, <1>7, <1>8, <1>9, Names, SMTT(30)
<1>11. OK(t, o, in_realm, pid) /\ t.sock[a] \in Ids \union {NONE}
       /\ t.sock[b] \in Ids \union {NONE}
  <2>1. OK(t, o, in_realm, pid)
    BY <1>2, <1>6, <1>7, <1>10, SetsSock
  <2>2. t.sock = q
    BY <1>2, <1>6 DEF Sessions
  <2> QED BY <1>7, <2>1, <2>2
<1>12. PICK t2 : t2 = citadel_declare_fd(t, a, "nop", t.sock[a])
  OBVIOUS
<1>13. PICK t3 : t3 = citadel_declare_fd(t2, b, "nop", t.sock[b])
  OBVIOUS
<1>14. OK(t2, o, in_realm, pid)
  BY <1>2, <1>11, <1>12, DeclaresNop
<1>15. OK(t3, o, in_realm, pid)
  BY <1>2, <1>11, <1>13, <1>14, DeclaresNop
<1>16. t = [Session EXCEPT !.sock[a] = IF in_realm THEN pid ELSE NONE,
                           !.sock[b] = IF in_realm THEN pid ELSE NONE]
  <2>1. s = [clock |-> s.clock, names |-> s.names, fds |-> s.fds, file |-> s.file,
             sock |-> s.sock, granted |-> s.granted]
    BY <1>2, Fields
  <2>2. [s EXCEPT !.sock[a] = x, !.sock[b] = x] = [s EXCEPT !.sock = q]
    BY <1>4, <2>1
  <2> QED BY <1>1, <1>3, <1>6, <2>2
<1>17. /\ opened' = o /\ Becomes(t3)
       /\ pid' = pid /\ known_taint' = known_taint /\ in_realm' = in_realm
  BY <1>5, <1>12, <1>13, <1>16, Zenon DEF c_socketpair
<1>18. OK(t3, opened', in_realm', pid')
  BY <1>15, <1>17
<1> QED BY <1>2, <1>8, <1>17, <1>18, Settles

LEMMA CrashKeeps ==
  ASSUME IInv, NEW fd \in Fds, c_close_crash(fd)
  PROVE  IInv'
<1>1. /\ Session \in Sessions /\ OK(Session, opened, in_realm, pid) /\ pid \in Nat
      /\ Session.clock = now /\ Session.file = file
      /\ now \in Nat /\ file \in [Files -> Inode] /\ now <= MaxClock
  BY Starts, SessionFields, Fields DEF OK, IInv
<1>2. /\ pid < MaxForks /\ pid' = pid + 1 /\ known_taint' = FALSE /\ in_realm' = FALSE
      /\ file_names' = <<>> /\ fd_cache' = <<>>
      /\ sock' = [d \in Fds |-> NONE] /\ opened' = [d \in Fds |-> NONE]
      /\ granted' = [l \in Ids |-> NONE] /\ now' = now /\ file' = file
  BY DEF c_close_crash
<1>3. PICK t : t = [clock |-> now, names |-> <<>>, fds |-> <<>>, file |-> file,
                    sock |-> [d \in Fds |-> NONE], granted |-> [l \in Ids |-> NONE]]
  OBVIOUS
<1>4. /\ t.clock = now /\ t.names = <<>> /\ t.fds = <<>> /\ t.file = file
      /\ t.sock = [d \in Fds |-> NONE] /\ t.granted = [l \in Ids |-> NONE]
  BY <1>3
<1>5. t \in Sessions
  BY <1>1, <1>3 DEF Sessions
<1>6. OK(t, opened', in_realm', pid + 1)
  BY <1>1, <1>4, <1>5, NewProcess
<1>7. OK(t, opened', in_realm', pid') /\ pid' \in 0..MaxForks
  BY <1>1, <1>2, <1>6, Constants
<1>8. opened' \in Openings
  BY <1>2 DEF Openings
<1> QED BY <1>1, <1>2, <1>4, <1>7, <1>8, Arrives

\* The entries that a child starts with.
LEMMA ChildName ==
  ASSUME NEW e \in NameEntries
  PROVE  prepare_entry_for_child(e) \in NameEntries /\ prepare_entry_for_child(e).time = 0
<1>1. "op" \notin DOMAIN e
  BY DEF NameEntries
<1>2. prepare_entry_for_child(e) = [e EXCEPT !.time = 0]
  BY <1>1 DEF prepare_entry_for_child
<1> QED BY <1>2 DEF NameEntries

LEMMA ChildFd ==
  ASSUME NEW e \in FdEntries
  PROVE  LET c == prepare_entry_for_child(e)
         IN  /\ c \in FdEntries /\ c.time = 0 /\ c.op # "nop"
             /\ c.by = e.by /\ c.issued = e.issued
<1>1. "op" \in DOMAIN e
  BY DEF FdEntries
<1>2. CASE e.op = "nop"
  <2>1. prepare_entry_for_child(e) = [e EXCEPT !.time = 0, !.op = "parent"]
    BY <1>1, <1>2 DEF prepare_entry_for_child
  <2>2. PICK d : d = [e EXCEPT !.time = 0]
    OBVIOUS
  <2>3. d \in FdEntries /\ d.time = 0 /\ d.by = e.by /\ d.issued = e.issued
    BY <2>2 DEF FdEntries
  <2>4. PICK c : c = [d EXCEPT !.op = "parent"]
    OBVIOUS
  <2>5. /\ c \in FdEntries /\ c.time = d.time /\ c.by = d.by /\ c.issued = d.issued
        /\ c.op = "parent"
    BY <2>3, <2>4 DEF FdEntries
  <2>6. prepare_entry_for_child(e) = c
    BY <2>1, <2>2, <2>4 DEF FdEntries
  <2> QED BY <2>3, <2>5, <2>6
<1>3. CASE e.op # "nop"
  <2>1. prepare_entry_for_child(e) = [e EXCEPT !.time = 0]
    BY <1>3 DEF prepare_entry_for_child
  <2> QED BY <1>3, <2>1 DEF FdEntries
<1> QED BY <1>2, <1>3

LEMMA ForkKeeps ==
  ASSUME IInv, NEW orphan \in BOOLEAN, c_fork(orphan)
  PROVE  IInv'
<1>1. /\ Session \in Sessions /\ OK(Session, opened, in_realm, pid) /\ pid \in Nat
      /\ Session.clock = now /\ Session.file = file /\ Session.fds = fd_cache
      /\ Session.names = file_names /\ Session.sock = sock
      /\ known_taint \in BOOLEAN /\ in_realm \in BOOLEAN /\ opened \in Openings
      /\ now <= MaxClock
  BY Starts, SessionFields DEF OK, IInv
<1>2. /\ now \in Nat /\ file \in [Files -> Inode] /\ sock \in [Fds -> Ids \union {NONE}]
      /\ file_names \in Seq(NameEntries) /\ fd_cache \in Seq(FdEntries)
  BY <1>1, Fields
<1>3. PICK names, fds :
        /\ names = IF orphan THEN <<>> ELSE cache_on_fork(file_names)
        /\ fds = IF orphan THEN <<>> ELSE cache_on_fork(fd_cache)
  BY SMTT(30)
<1>4. names \in Seq(NameEntries) /\ \A i \in DOMAIN names : names[i].time = 0
  <2>1. CASE orphan
    BY <1>3, <2>1
  <2>2. CASE ~orphan
    <3>1. names = [i \in DOMAIN file_names |-> prepare_entry_for_child(file_names[i])]
      BY <1>3, <2>2 DEF cache_on_fork
    <3>2. \A i \in DOMAIN file_names : /\ prepare_entry_for_child(file_names[i]) \in NameEntries
                                       /\ prepare_entry_for_child(file_names[i]).time = 0
      BY <1>2, ChildName
    <3> QED BY <1>2, <3>1, <3>2, SMTT(30)
  <2> QED BY <2>1, <2>2
<1>5. /\ fds \in Seq(FdEntries)
      /\ \A i \in DOMAIN fds :
           /\ fds[i].time = 0 /\ fds[i].op # "nop" /\ fds[i].by <= pid
           /\ fds[i].issued # NONE => fds[i].issued <= now
  <2>1. CASE orphan
    BY <1>3, <2>1
  <2>2. CASE ~orphan
    <3>1. fds = [i \in DOMAIN fd_cache |-> prepare_entry_for_child(fd_cache[i])]
      BY <1>3, <2>2 DEF cache_on_fork
    <3>2. ASSUME NEW i \in DOMAIN fd_cache
          PROVE  LET c == prepare_entry_for_child(fd_cache[i])
                 IN  /\ c \in FdEntries /\ c.time = 0 /\ c.op # "nop" /\ c.by <= pid
                     /\ c.issued # NONE => c.issued <= now
      <4>1. fd_cache[i] \in FdEntries
        BY <1>2
      <4>2. fd_cache[i].by <= pid /\ (fd_cache[i].issued # NONE => fd_cache[i].issued <= now)
        BY <1>1, Zenon DEF OK, FdOK
      <4>3. PICK e \in FdEntries : e = fd_cache[i]
        BY <4>1
      <4>4. PICK c : c = prepare_entry_for_child(e)
        OBVIOUS
      <4>5. /\ c \in FdEntries /\ c.time = 0 /\ c.op # "nop"
            /\ c.by = e.by /\ c.issued = e.issued
        BY <4>4, ChildFd, Zenon
      <4> QED BY <4>2, <4>3, <4>4, <4>5, Zenon
    <3> QED BY <1>2, <3>1, <3>2, SMTT(30)
  <2> QED BY <2>1, <2>2
<1>6. PICK t : t = [clock |-> now, names |-> names, fds |-> fds, file |-> file,
                    sock |-> sock, granted |-> [l \in Ids |-> NONE]]
  BY ZenonT(30)
<1>7. /\ t.clock = now /\ t.names = names /\ t.fds = fds /\ t.file = file
      /\ t.sock = sock /\ t.granted = [l \in Ids |-> NONE]
  BY <1>6
<1>8. t \in Sessions
  BY <1>2, <1>4, <1>5, <1>6, SMTT(30) DEF Sessions
<1>9. \A d \in Fds : opened[d] # SOCKET => sock[d] = NONE
  BY <1>1 DEF OK
<1>10. OK(t, opened, in_realm, pid + 1)
  BY <1>1, <1>4, <1>5, <1>7, <1>8, <1>9, NewProcess, SMTT(30)
<1>11. /\ pid < MaxForks /\ pid' = pid + 1 /\ file_names' = names /\ fd_cache' = fds
       /\ granted' = [l \in Ids |-> NONE] /\ now' = now /\ known_taint' = known_taint
       /\ file' = file /\ sock' = sock /\ opened' = opened /\ in_realm' = in_realm
  BY <1>3 DEF c_fork
<1>12. OK(t, opened', in_realm', pid') /\ pid' \in 0..MaxForks
  BY <1>1, <1>10, <1>11, Constants
<1> QED BY <1>1, <1>7, <1>11, <1>12, Arrives, SMTT(30)

LEMMA InvariantInit == Init => IInv
<1> SUFFICES ASSUME Init PROVE IInv
  OBVIOUS
<1>1. /\ now = Boot /\ pid = 0 /\ known_taint = FALSE /\ in_realm = FALSE
      /\ file_names = <<>> /\ fd_cache = <<>> /\ file \in [Files -> {NoFile, Plain}]
      /\ sock = [fd \in Fds |-> NONE] /\ opened = [fd \in Fds |-> NONE]
      /\ granted = [l \in Ids |-> NONE]
  BY DEF Init
<1>2. file \in [Files -> Inode] /\ \A f \in Files : file[f].id = NONE
  <2>1. /\ NoFile \in Inode /\ NoFile.id = NONE
        /\ Plain \in Inode /\ Plain.id = NONE
    BY DEF NoFile, Plain, Inode
  <2> QED BY <1>1, <2>1
<1>3. PICK s : s = Session
  OBVIOUS
<1>4. /\ s.clock = Boot /\ s.names = <<>> /\ s.fds = <<>> /\ s.file = file
      /\ s.sock = sock /\ s.granted = granted
  BY <1>1, <1>3 DEF Session
<1>5. s \in Sessions
  <2>1. granted \in [Ids -> Nat \union {NONE}] /\ sock \in [Fds -> Ids \union {NONE}]
        /\ file_names \in Seq(NameEntries) /\ fd_cache \in Seq(FdEntries) /\ now \in Nat
    BY <1>1, Constants
  <2> QED BY <1>2, <1>3, <2>1 DEF Session, Sessions
<1>6. \A f \in Files : /\ s.file[f].id \notin (pid + 1)..MaxForks
                       /\ s.file[f].id \notin pid..MaxForks
  BY <1>1, <1>2, <1>4, Names, Constants, SMTT(30)
<1>7. OK(s, opened, in_realm, pid)
  BY <1>1, <1>4, <1>5, <1>6, Constants DEF OK
<1>8. opened \in [Fds -> Files \union {SOCKET, ACCEPTED, NONE}] /\ pid \in 0..MaxForks
      /\ now <= MaxClock
  BY <1>1, Constants
<1> QED BY <1>1, <1>3, <1>7, <1>8 DEF IInv

-----------------------------------------------------------------------------
(* What a good state is like.                                              *)

LEMMA TypesFollow == IInv => TypeOK
<1> SUFFICES ASSUME IInv PROVE TypeOK
  BY SMTT(30)
<1>1. /\ Session \in Sessions /\ now >= Boot /\ now <= MaxClock /\ now \in Nat
      /\ \A l \in Ids : granted[l] # NONE => granted[l] <= now
      /\ \A i \in DOMAIN file_names : file_names[i].time <= now
      /\ \A i \in DOMAIN fd_cache : /\ fd_cache[i].time <= now
                                    /\ fd_cache[i].issued # NONE => fd_cache[i].issued <= now
  BY SessionFields, Fields DEF IInv, OK, NameOK, FdOK
<1>2. /\ file_names \in Seq(NameEntries) /\ fd_cache \in Seq(FdEntries)
      /\ file \in [Files -> Inode] /\ sock \in [Fds -> Ids \union {NONE}]
      /\ granted \in [Ids -> Nat \union {NONE}]
  BY <1>1, SessionFields, Fields
<1>3. file_names \in Seq(NameEntry)
  <2>1. \A i \in DOMAIN file_names : file_names[i] \in NameEntries
    BY <1>2
  <2>2. \A i \in DOMAIN file_names : file_names[i] \in NameEntry
    BY <1>1, <2>1, Constants DEF NameEntries, NameEntry
  <2> QED BY <1>2, <2>2
<1>4. fd_cache \in Seq(FdEntry)
  <2>1. \A i \in DOMAIN fd_cache : fd_cache[i] \in FdEntries
    BY <1>2
  <2>2. \A i \in DOMAIN fd_cache : fd_cache[i] \in FdEntry
    BY <1>1, <2>1, Constants DEF FdEntries, FdEntry
  <2> QED BY <1>2, <2>2
<1>5. granted \in [Ids -> (0..MaxClock) \union {NONE}]
  BY <1>1, <1>2, Constants
<1>6. now \in Boot..MaxClock
  BY <1>1, Constants
<1> QED BY <1>2, <1>3, <1>4, <1>5, <1>6 DEF IInv, TypeOK

\* What an entry for a descriptor that is in date rests on.
LEMMA EntryBacked ==
  ASSUME IInv, NEW e \in FdEntries, FdOK(Session, e, opened, pid),
         e.data = get_fd_identifier(Session, e.fd),
         opened[e.fd] \in Files => file[opened[e.fd]].realm,
         e.op = "nop" \/ entry_in_date(Session, e)
  PROVE  /\ e.op = "nop" => e.by = pid
         /\ e.op = "parent" => e.by # pid
         /\ e.op = "open" => Within(granted[e.data], (2 * TicketExpiry - 1) * Second - 1)
         /\ e.op \in {"internal", "external"} =>
              e.by = pid /\ Within(e.issued, (TicketExpiry - 1) * Second + Latency)
<1>1. /\ Session \in Sessions /\ now \in Nat /\ now >= Boot /\ pid \in Nat
      /\ granted \in [Ids -> Nat \union {NONE}]
      /\ \A d \in Fds : opened[d] # SOCKET => sock[d] = NONE
  BY SessionFields, Fields, Constants, SMTT(30) DEF IInv, OK
<1>2. /\ e.time \in Nat /\ e.data \in Ids /\ e.by \in Nat /\ e.issued \in Nat \union {NONE}
      /\ e.fd \in Fds
  BY Constants DEF FdEntries
<1>3. /\ TicketExpiry \in Nat /\ Second \in Nat /\ Second > 0
      /\ Second * (TicketExpiry - 1) = (TicketExpiry - 1) * Second
      /\ Lifetime = (TicketExpiry - 1) * Second + Second
      /\ (2 * TicketExpiry - 1) * Second = (TicketExpiry - 1) * Second + Lifetime
  BY ClockAssumption DEF Lifetime
<1>4. PICK early : early = (TicketExpiry - 1) * Second
  BY SMTT(30)
<1>5. e.op # "nop" => now - e.time < early /\ e.time # 0
  <2> SUFFICES ASSUME e.op # "nop" PROVE now - e.time < early /\ e.time # 0
    BY SMTT(30)
  <2>1. Seconds(now) - Seconds(e.time) + 1 < TicketExpiry
    BY SessionFields, SMTT(30) DEF entry_in_date
  <2>2. Seconds(now) - Seconds(e.time) < TicketExpiry - 1
    BY <1>1, <1>2, <1>3, <2>1, Rounding, SMTT(30)
  <2>3. now - e.time < Second * (TicketExpiry - 1)
    BY <1>1, <1>2, <1>3, <2>2, Elapsed, SMTT(30)
  <2>4. now - e.time < early /\ early \in Int /\ Lifetime = early + Second
    BY <1>3, <1>4, <2>3
  <2> QED BY <1>1, <1>2, <1>3, <2>4, Constants, SMTT(30)
<1>6. early \in Int /\ Lifetime = early + Second
      /\ (2 * TicketExpiry - 1) * Second = early + Lifetime
  BY <1>3, <1>4
<1>7. ASSUME e.op = "open"
      PROVE  Within(granted[e.data], (2 * TicketExpiry - 1) * Second - 1)
  <2>1. e.time # 0 /\ now - e.time < early
    BY <1>5, <1>7, SMTT(30)
  <2>2. ~Idle(Session, e, opened, pid)
    BY <1>1, <1>2, Names, SessionFields, SMTT(30) DEF Idle, get_fd_identifier
  <2>3. granted[e.data] # NONE /\ e.time <= granted[e.data] + (Lifetime - 1)
    BY <1>7, <2>1, <2>2, SessionFields, SMTT(30) DEF FdOK, Covers
  <2>4. now - granted[e.data] < early + Lifetime - 1
    BY <1>1, <1>2, <1>6, <2>1, <2>3, Constants, SMTT(30)
  <2> QED BY <1>6, <2>3, <2>4 DEF Within
<1>8. ASSUME e.op \in {"internal", "external"}
      PROVE  e.by = pid /\ Within(e.issued, (TicketExpiry - 1) * Second + Latency)
  <2>1. e.by = pid /\ e.issued # NONE /\ e.time <= e.issued + Latency
    BY <1>5, <1>8 DEF FdOK
  <2>2. now - e.issued < early + Latency
    BY <1>1, <1>2, <1>5, <1>6, <1>8, <2>1, Constants, SMTT(30)
  <2> QED BY <1>4, <2>1, <2>2, SMTT(30) DEF Within
<1>9. /\ e.op = "nop" => e.by = pid
      /\ e.op = "parent" => e.by # pid
  BY <1>1, <1>2 DEF FdOK
<1> QED BY <1>7, <1>8, <1>9

-----------------------------------------------------------------------------
(* The cache of names, and the steps that use it.                          *)

\* The n elements of q after the first m.
After(q, m, n) == [i \in 1..n |-> q[m + i]]

\* What is needed to know of least elements, of the end of a sequence and of
\* what is left of one.  These facts rest on theorems on well-founded relations,
\* sequences and finite sets, and are proved last.
Facts ==
  /\ \A T \in SUBSET Nat : T # {} => Min(T) \in T /\ \A y \in T : Min(T) <= y
  /\ \A q \in Seq(NameEntries) : \A k \in 1..Len(q), n \in Nat :
       n = Len(q) - k + 1 => SubSeq(q, k, Len(q)) = After(q, k - 1, n)
  /\ \A group \in Seq(FdEntries) : \A gone :
       /\ Without(group, gone) \in Seq(FdEntries)
       /\ \A k \in DOMAIN Without(group, gone) :
            \E i \in DOMAIN group : Without(group, gone)[k] = group[i]

LEMMA MinIsLeast ==
  ASSUME Facts, NEW T, T \subseteq Nat, T # {}
  PROVE  Min(T) \in T /\ \A y \in T : Min(T) <= y
BY Zenon DEF Facts

LEMMA SuffixIsAfter ==
  ASSUME Facts, NEW q \in Seq(NameEntries), NEW k \in 1..Len(q), NEW n \in Nat,
         n = Len(q) - k + 1
  PROVE  SubSeq(q, k, Len(q)) = After(q, k - 1, n)
BY Zenon DEF Facts

\* What cleanup_cache_group leaves: the entries after the first m, all of them
\* in date.
LEMMA CleanNames ==
  ASSUME Facts, NEW s \in Sessions,
         \A i, j \in DOMAIN s.names : i <= j => s.names[i].time <= s.names[j].time
  PROVE  \E m \in Nat, n \in Nat :
           /\ m + n = Len(s.names)
           /\ cleanup_cache_group(s)
                = [s EXCEPT !.names = After(s.names, m, n)]
           /\ \A i \in 1..n : s.clock - s.names[m + i].time < Lifetime
<1> DEFINE good == {i \in DOMAIN s.names :
                      Seconds(s.clock) - Seconds(s.names[i].time) < TicketExpiry}
<1>1. /\ s.names \in Seq(NameEntries) /\ DOMAIN s.names = 1..Len(s.names)
      /\ Len(s.names) \in Nat /\ s.clock \in Nat
      /\ \A i \in DOMAIN s.names : s.names[i].time \in Nat
  <2>1. s.names \in Seq(NameEntries) /\ s.clock \in Nat
    BY DEF Sessions
  <2>2. \A i \in DOMAIN s.names : s.names[i] \in NameEntries
    BY <2>1
  <2> QED BY <2>1, <2>2 DEF NameEntries
<1>2. CASE good = {}
  <2>1. cleanup_cache_group(s) = [s EXCEPT !.names = <<>>]
    BY <1>2 DEF cleanup_cache_group
  <2>2. <<>> = After(s.names, Len(s.names), 0)
    BY DEF After
  <2>3. /\ Len(s.names) + 0 = Len(s.names)
        /\ \A i \in 1..0 : s.clock - s.names[Len(s.names) + i].time < Lifetime
    BY <1>1
  <2> QED BY <1>1, <2>1, <2>2, <2>3
<1>3. CASE good # {}
  <2>1. PICK k : k = Min(good)
    BY SMTT(30)
  <2>2. k \in good /\ k \in 1..Len(s.names)
    <3>1. good \subseteq Nat
      BY <1>1
    <3>2. k \in good
      BY <1>3, <2>1, <3>1, MinIsLeast
    <3> QED BY <1>1, <3>2
  <2>3. cleanup_cache_group(s) = [s EXCEPT !.names = SubSeq(s.names, k, Len(s.names))]
    BY <1>3, <2>1 DEF cleanup_cache_group
  <2>4. PICK m \in Nat : m = k - 1
    BY <2>2
  <2>5. PICK n \in Nat : n = Len(s.names) - m
    BY <1>1, <2>2, <2>4
  <2>6. SubSeq(s.names, k, Len(s.names)) = After(s.names, m, n)
    <3>1. n = Len(s.names) - k + 1
      BY <1>1, <2>2, <2>4, <2>5
    <3> QED BY <1>1, <2>2, <2>4, <3>1, SuffixIsAfter
  <2>7. ASSUME NEW i \in 1..n PROVE s.clock - s.names[m + i].time < Lifetime
    <3>1. Seconds(s.clock) - Seconds(s.names[k].time) < TicketExpiry
      BY <2>2
    <3>2. s.clock - s.names[k].time < Lifetime
      <4>1. s.clock - s.names[k].time < Second * TicketExpiry
        BY <1>1, <2>2, <3>1, Elapsed, ClockAssumption, SMTT(30)
      <4> QED BY <4>1, ClockAssumption DEF Lifetime
    <3>3. m + i \in DOMAIN s.names /\ k \in DOMAIN s.names /\ k <= m + i
      BY <1>1, <2>2, <2>4, <2>5, SMTT(30)
    <3>4. s.names[k].time <= s.names[m + i].time
      BY <3>3
    <3> QED BY <1>1, <3>2, <3>3, <3>4, Constants, SMTT(30)
  <2>8. m + n = Len(s.names)
    BY <1>1, <2>5
  <2> QED BY <2>3, <2>6, <2>7, <2>8
<1> QED BY <1>2, <1>3

\* The clock never is as low as the time that a fork gives to an entry.
LEMMA NamesFollow ==
  ASSUME Facts PROVE IInv => NamesBacked
<1> SUFFICES ASSUME IInv PROVE NamesBacked
  OBVIOUS
<1>1. /\ Session \in Sessions /\ now >= Boot /\ now \in Nat
      /\ \A i \in DOMAIN file_names : NameOK(Session, file_names[i])
      /\ \A i, j \in DOMAIN file_names : i <= j => file_names[i].time <= file_names[j].time
      /\ \A l \in Ids : granted[l] # NONE => granted[l] <= now
  BY SessionFields, Fields DEF IInv, OK
<1>2. PICK m \in Nat, n \in Nat :
        /\ m + n = Len(file_names)
        /\ cleanup_cache_group(Session) = [Session EXCEPT !.names = After(file_names, m, n)]
        /\ \A i \in 1..n : now - file_names[m + i].time < Lifetime
  BY <1>1, SessionFields, CleanNames, SMTT(30)
<1>3. cleanup_cache_group(Session).names = After(file_names, m, n)
  BY <1>1, <1>2 DEF Sessions
<1>4. file_names \in Seq(NameEntries) /\ granted \in [Ids -> Nat \union {NONE}]
  BY <1>1, SessionFields, Fields
<1>5. ASSUME NEW i \in 1..n
      PROVE  Within(granted[After(file_names, m, n)[i].of], TicketExpiry * Second + Latency)
  <2>1. PICK e \in NameEntries : e = file_names[m + i] /\ NameOK(Session, e)
    BY <1>1, <1>2, <1>4
  <2>2. After(file_names, m, n)[i] = e
    BY <2>1 DEF After
  <2>3. e.time \in Nat /\ e.of \in Ids /\ now - e.time < Lifetime
    BY <1>2, <2>1, SMTT(30) DEF NameEntries
  <2>4. e.time # 0
    BY <1>1, <2>3, Constants
  <2>5. granted[e.of] # NONE /\ e.time <= granted[e.of] + Latency
    BY <2>1, <2>4, SessionFields DEF NameOK, Covers
  <2>6. now - granted[e.of] < Lifetime + Latency
    BY <1>1, <1>4, <2>3, <2>5, Constants
  <2> QED BY <2>2, <2>5, <2>6 DEF Within, Lifetime
<1>6. DOMAIN After(file_names, m, n) = 1..n
  BY DEF After
<1> QED BY <1>3, <1>5, <1>6 DEF NamesBacked

LEMMA FdsFollow ==
  ASSUME Facts PROVE IInv => FdsBacked
<1> SUFFICES ASSUME IInv, NEW fd \in Fds, NEW op \in {NONE} \union TicketOps,
                    opened[fd] \in Files => file[opened[fd]].realm,
                    Matching(Session, fd, op) # {},
                    LET e == fd_cache[Min(Matching(Session, fd, op))]
                    IN  e.op = "nop" \/ entry_in_date(Session, e)
             PROVE  LET e == fd_cache[Min(Matching(Session, fd, op))]
                    IN  CASE e.op = "nop"    -> e.by = pid
                          [] e.op = "parent" -> e.by # pid
                          [] e.op = "open"   -> Within(granted[get_fd_identifier(Session, fd)],
                                                       (2 * TicketExpiry - 1) * Second - 1)
                          [] OTHER -> /\ e.by = pid
                                      /\ Within(e.issued,
                                                (TicketExpiry - 1) * Second + Latency)
  BY Zenon DEF FdsBacked
<1>1. PICK e : e = fd_cache[Min(Matching(Session, fd, op))]
  OBVIOUS
<1>2. /\ fd_cache \in Seq(FdEntries)
      /\ \A i \in DOMAIN fd_cache : FdOK(Session, fd_cache[i], opened, pid)
  BY SessionFields, Fields DEF IInv, OK
<1>3. Min(Matching(Session, fd, op)) \in Matching(Session, fd, op)
  <2>1. Matching(Session, fd, op) \subseteq Nat
    BY <1>2, SessionFields, SMTT(30) DEF Matching
  <2> QED BY <2>1, MinIsLeast, SMTT(30)
<1>4. /\ e \in FdEntries /\ FdOK(Session, e, opened, pid)
      /\ e.fd = fd /\ e.data = get_fd_identifier(Session, fd)
  <2>1. PICK i : i = Min(Matching(Session, fd, op))
    BY Zenon
  <2>2. /\ i \in DOMAIN fd_cache /\ fd_cache[i].fd = fd
        /\ fd_cache[i].data = get_fd_identifier(Session, fd)
    BY <1>3, <2>1, SessionFields, Zenon DEF Matching
  <2>3. fd_cache[i] \in FdEntries
    <3>1. \A q \in Seq(FdEntries) : \A j \in DOMAIN q : q[j] \in FdEntries
      OBVIOUS
    <3> QED BY <1>2, <2>2, <3>1, Zenon
  <2> QED BY <1>1, <1>2, <2>1, <2>2, <2>3, Zenon
<1>5. /\ e.op = "nop" => e.by = pid
      /\ e.op = "parent" => e.by # pid
      /\ e.op = "open" => Within(granted[e.data], (2 * TicketExpiry - 1) * Second - 1)
      /\ e.op \in {"internal", "external"} =>
           e.by = pid /\ Within(e.issued, (TicketExpiry - 1) * Second + Latency)
  BY <1>1, <1>4, EntryBacked, ZenonT(30)
<1>6. e.op \in {"open", "internal", "external", "nop", "parent"}
  BY <1>4 DEF FdEntries, TicketOps
<1> QED BY <1>1, <1>4, <1>5, <1>6, Zenon

LEMMA Cleans ==
  ASSUME Facts, NEW s, NEW o, NEW realm, NEW p \in Nat, OK(s, o, realm, p)
  PROVE  /\ OK(cleanup_cache_group(s), o, realm, p)
         /\ cleanup_cache_group(s).file = s.file
<1>1. /\ s \in Sessions /\ s.clock >= Boot
      /\ \A l \in Ids : s.granted[l] # NONE => s.granted[l] <= s.clock
      /\ \A i \in DOMAIN s.names : NameOK(s, s.names[i])
      /\ \A i, j \in DOMAIN s.names : i <= j => s.names[i].time <= s.names[j].time
      /\ \A i \in DOMAIN s.fds : FdOK(s, s.fds[i], o, p)
      /\ \A f \in Files : /\ s.file[f].id \notin (p + 1)..MaxForks
                          /\ ~realm => s.file[f].id \notin p..MaxForks
      /\ \A fd \in Fds : o[fd] # SOCKET => s.sock[fd] = NONE
  BY Zenon DEF OK
<1>2. s.names \in Seq(NameEntries)
  BY <1>1, Fields
<1>3. PICK m \in Nat, n \in Nat :
        /\ m + n = Len(s.names)
        /\ cleanup_cache_group(s) = [s EXCEPT !.names = After(s.names, m, n)]
  BY <1>1, CleanNames
<1>4. PICK q : q = After(s.names, m, n)
  OBVIOUS
<1>5. PICK t : t = [s EXCEPT !.names = q]
  OBVIOUS
<1>6. /\ DOMAIN q = 1..n
      /\ \A i \in 1..n : q[i] = s.names[m + i] /\ m + i \in DOMAIN s.names
  BY <1>2, <1>3, <1>4 DEF After
<1>7. q \in Seq(NameEntries)
  <2>1. \A i \in 1..n : s.names[m + i] \in NameEntries
    BY <1>2, <1>6
  <2> QED BY <1>4, <2>1 DEF After
<1>8. /\ t \in Sessions /\ t.clock = s.clock /\ t.granted = s.granted
      /\ t.names = q /\ t.fds = s.fds /\ t.file = s.file /\ t.sock = s.sock
  BY <1>1, <1>5, <1>7 DEF Sessions
<1>9. ASSUME NEW i \in DOMAIN q PROVE NameOK(t, q[i])
  <2>1. NameOK(s, q[i])
    BY <1>1, <1>6
  <2> QED BY <1>8, <2>1, Zenon DEF NameOK, Covers
<1>10. ASSUME NEW i \in DOMAIN q, NEW j \in DOMAIN q, i <= j PROVE q[i].time <= q[j].time
  <2>1. m + i <= m + j
    BY <1>6, <1>10
  <2> QED BY <1>1, <1>6, <2>1
<1>11. ASSUME NEW i \in DOMAIN s.fds PROVE FdOK(t, s.fds[i], o, p)
  BY <1>1, <1>8, FdSame, Zenon
<1>12. OK(t, o, realm, p)
  BY <1>1, <1>8, <1>9, <1>10, <1>11, Zenon DEF OK
<1> QED BY <1>3, <1>4, <1>5, <1>8, <1>12, Zenon

LEMMA ClaimGood ==
  ASSUME Facts, Process, NEW s0 \in GoodSessions, NEW f \in Files
  PROVE  _citadel_file_claim(s0, f) \subseteq Outcomes
<1>1. PICK s : s = cleanup_cache_group(s0)
  OBVIOUS
<1>2. s \in GoodSessions
  BY <1>1, Good, PidIsNat, Cleans, Zenon
<1>3. [s |-> s, ok |-> TRUE] \in Outcomes
  BY <1>2, Outcome
<1>4. ASSUME NEW l \in Fresh(s) PROVE Approval(s, f, l, {"claim", "open"}) \subseteq Outcomes
  <2>1. l \in Labels /\ l \in Ids /\ \A i \in DOMAIN s.fds : s.fds[i].data # l
    BY DEF Fresh, Ids
  <2> QED BY <1>2, <2>1, ApprovalGood
<1>5. _citadel_file_claim(s0, f) \subseteq
        {[s |-> s, ok |-> TRUE]} \union
        UNION {Approval(s, f, l, {"claim", "open"}) : l \in Fresh(s)}
  BY <1>1, Zenon DEF _citadel_file_claim
<1> QED BY <1>3, <1>4, <1>5, Zenon

LEMMA OpenGood ==
  ASSUME Facts, Process, NEW s0 \in GoodSessions, NEW f \in Files
  PROVE  citadel_file_open_ext(s0, f) \subseteq Outcomes
<1>1. PICK s : s = cleanup_cache_group(s0)
  OBVIOUS
<1>2. s \in GoodSessions
  BY <1>1, Good, PidIsNat, Cleans, Zenon
<1>3. [s |-> s, ok |-> TRUE] \in Outcomes
  BY <1>2, Outcome
<1>4. PICK L : L = IF s.file[f].id = NONE THEN Fresh(s) ELSE {s.file[f].id}
  OBVIOUS
<1>5. ASSUME NEW l \in L PROVE Approval(s, f, l, {"open"}) \subseteq Outcomes
  <2>1. CASE s.file[f].id = NONE
    <3>1. l \in Labels /\ l \in Ids /\ \A i \in DOMAIN s.fds : s.fds[i].data # l
      BY <1>4, <2>1 DEF Fresh, Ids
    <3> QED BY <1>2, <3>1, ApprovalGood
  <2>2. CASE s.file[f].id # NONE
    <3>1. s \in Sessions
      BY <1>2 DEF GoodSessions
    <3>2. s.file[f] \in Inode
      BY <3>1, Fields
    <3>3. l = s.file[f].id /\ l \in Ids
      BY <1>4, <2>2, <3>2 DEF Inode
    <3> QED BY <1>2, <3>3, ApprovalGood
  <2> QED BY <2>1, <2>2
<1>6. citadel_file_open_ext(s0, f) \subseteq
        {[s |-> s, ok |-> TRUE]} \union UNION {Approval(s, f, l, {"open"}) : l \in L}
  BY <1>1, <1>4, Zenon DEF citadel_file_open_ext
<1> QED BY <1>3, <1>5, <1>6, Zenon

LEMMA ClaimOrUnlinkGood ==
  ASSUME Facts, Process, NEW s \in GoodSessions, NEW f \in Files
  PROVE  ClaimOrUnlink(s, f) \subseteq Outcomes
<1> SUFFICES ASSUME NEW r \in _citadel_file_claim(s, f)
             PROVE  (IF r.ok THEN r ELSE [r EXCEPT !.s.file[f] = NoFile]) \in Outcomes
  BY Zenon DEF ClaimOrUnlink
<1>1. r \in Outcomes
  BY ClaimGood, Zenon
<1>2. PICK t : t = [r.s EXCEPT !.file[f] = NoFile]
  OBVIOUS
<1>3. t \in GoodSessions
  BY <1>1, <1>2, UnlinkGood DEF Outcomes
<1>4. [r EXCEPT !.s.file[f] = NoFile] = [r EXCEPT !.s = t]
  BY <1>2, Zenon
<1> QED BY <1>1, <1>3, <1>4 DEF Outcomes

LEMMA BoundGood ==
  ASSUME Facts, Process, NEW s \in GoodSessions, NEW fd \in Fds, NEW f
  PROVE  Bound(s, fd, f) \subseteq Outcomes
<1>1. PICK t \in GoodSessions : t = realm_init_socket(s, fd)
  BY RealmSocketGood
<1>2. \A ok \in BOOLEAN : {[s |-> t, ok |-> ok]} \subseteq Outcomes
  BY <1>1, Outcome
<1>3. CASE f \notin Files
  BY <1>1, <1>2, <1>3, Zenon DEF Bound
<1>4. CASE f \in Files
  <2>1. Created(t, f) \in GoodSessions
    BY <1>4, CreatedGood
  <2>2. {[s |-> Created(t, f), ok |-> TRUE]} \subseteq Outcomes
    BY <2>1, Outcome
  <2>3. ClaimOrUnlink(Created(t, f), f) \subseteq Outcomes
    BY <1>4, <2>1, ClaimOrUnlinkGood
  <2> QED BY <1>1, <1>2, <1>4, <2>2, <2>3, Zenon DEF Bound
<1> QED BY <1>3, <1>4

LEMMA FopenKeeps ==
  ASSUME Facts, IInv, NEW f \in Files, c_fopen(f)
  PROVE  IInv'
<1>1. PICK s : s = Session
  OBVIOUS
<1>2. Process /\ s \in GoodSessions
  BY <1>1, Starts
<1>3. PICK r \in citadel_file_open_ext(s, f) :
        /\ Becomes(IF r.ok /\ ~file[f].exists THEN Created(r.s, f) ELSE r.s)
        /\ in_realm' = (in_realm \/ (r.ok /\ Taints(r.s, f)))
  BY <1>1, Zenon DEF c_fopen
<1>4. r \in Outcomes
  BY <1>2, OpenGood
<1>5. r.s \in GoodSessions
  BY <1>4 DEF Outcomes
<1>6. PICK t : t = IF r.ok /\ ~file[f].exists THEN Created(r.s, f) ELSE r.s
  OBVIOUS
<1>7. t \in GoodSessions
  BY <1>2, <1>5, <1>6, CreatedGood, Zenon
<1>8. in_realm' \in BOOLEAN /\ (in_realm => in_realm')
  BY <1>3, Zenon
<1>9. UNCHANGED <<pid, known_taint, opened>>
  BY DEF c_fopen
<1> QED BY <1>3, <1>6, <1>7, <1>8, <1>9, RealmKeeps, Zenon

LEMMA ClaimKeeps ==
  ASSUME Facts, IInv, NEW f \in Files, citadel_file_claim(f)
  PROVE  IInv'
<1>1. _citadel_file_claim(Session, f) \subseteq Outcomes
  BY Starts, ClaimGood
<1> QED BY <1>1, SessionKeeps DEF citadel_file_claim

LEMMA MkfifoKeeps ==
  ASSUME Facts, IInv, NEW f \in Files, c_mkfifo(f)
  PROVE  IInv'
<1>1. PICK s : s = Created(Session, f)
  OBVIOUS
<1>2. Process /\ s \in GoodSessions
  BY <1>1, Starts, CreatedGood
<1>3. ClaimOrUnlink(s, f) \subseteq Outcomes
  BY <1>2, ClaimOrUnlinkGood, SMTT(30)
<1> QED BY <1>1, <1>3, SessionKeeps DEF c_mkfifo

\* The entry for a file that c_open has opened.
LEMMA DeclaresOpen ==
  ASSUME Process, NEW s \in GoodSessions, NEW f \in Files, NEW fd \in Fds, opened[fd] = NONE,
         Permits(s, f), NEW o \in Openings, o[fd] = f, NEW realm, OK(s, o, realm, pid)
  PROVE  OK(citadel_declare_fd(s, fd, "open", s.file[f].id), o, realm, pid)
<1>1. PICK l : l = s.file[f].id
  OBVIOUS
<1>2. CASE l = NONE
  BY <1>1, <1>2, Zenon DEF citadel_declare_fd
<1>3. CASE l # NONE
  <2>1. /\ s \in Sessions /\ s.clock \in Nat /\ s.file[f] \in Inode /\ pid \in Nat
        /\ pid \in 0..MaxForks /\ OK(s, opened, in_realm, pid)
    BY Fields, Good, PidIsNat, SMTT(30) DEF GoodSessions, Process
  <2>2. l \in Ids
    BY <1>1, <1>3, <2>1, SMTT(30) DEF Inode
  <2>3. PICK e : e = [fd |-> fd, op |-> "open", time |-> s.clock, data |-> l,
                      by |-> pid, issued |-> NONE]
    BY Zenon
  <2>4. /\ e \in FdEntries /\ e.time = s.clock /\ e.issued = NONE /\ e.op = "open"
        /\ e.by = pid /\ e.data = l /\ e.fd = fd
    BY <2>1, <2>2, <2>3, SMTT(30) DEF FdEntries, TicketOps
  <2>5. Covers(s, l, s.clock, Lifetime - 1) \/ Idle(s, e, o, pid)
    <3>1. CASE s.file[f].realm \/ in_realm
      BY <1>1, <3>1, PermitsCovers
    <3>2. CASE ~(s.file[f].realm \/ in_realm)
      <4>1. l \notin pid..MaxForks
        BY <1>1, <2>1, <3>2, Zenon DEF OK
      <4>2. s.sock[fd] = NONE
        <5>1. opened[fd] # SOCKET
          BY Names, SMTT(30)
        <5> QED BY <2>1, <5>1, Zenon DEF OK
      <4> QED BY <1>1, <1>3, <2>4, <3>2, <4>1, <4>2, Zenon DEF Idle
    <3> QED BY <3>1, <3>2
  <2>6. FdOK(s, e, o, pid)
    <3>1. e.time <= s.clock /\ e.by <= pid
      BY <2>1, <2>4, SMTT(30)
    <3>2. e.op # "nop" /\ e.op # "parent" /\ e.op \notin {"internal", "external"}
      BY <2>4, Zenon
    <3>3. e.time = 0 \/ Covers(s, e.data, e.time, Lifetime - 1) \/ Idle(s, e, o, pid)
      BY <2>4, <2>5, Zenon
    <3> QED BY <2>4, <3>1, <3>2, <3>3, Zenon DEF FdOK
  <2>7. OK([s EXCEPT !.fds = Append(@, e)], o, realm, pid)
    BY <2>1, <2>4, <2>6, AddsFd
  <2>8. citadel_declare_fd(s, fd, "open", l) = [s EXCEPT !.fds = Append(@, e)]
    BY <1>3, <2>3, Zenon DEF citadel_declare_fd, NewFd
  <2> QED BY <1>1, <2>7, <2>8, Zenon
<1> QED BY <1>2, <1>3, SMTT(30)

LEMMA OpenKeeps ==
  ASSUME Facts, IInv, NEW f \in Files, NEW fd \in Fds, c_open(f, fd)
  PROVE  IInv'
<1>1. /\ Process /\ Session \in GoodSessions /\ pid \in Nat /\ opened \in Openings
      /\ known_taint \in BOOLEAN
  BY Starts
<1>2. PICK s0 : s0 = IF file[f].exists THEN Session ELSE Created(Session, f)
  OBVIOUS
<1>3. s0 \in GoodSessions
  BY <1>1, <1>2, CreatedGood, Zenon
<1>4. PICK r \in citadel_file_open_ext(s0, f) :
        IF r.ok /\ Permits(r.s, f)
          THEN /\ opened' = [opened EXCEPT ![fd] = f]
               /\ in_realm' = (in_realm \/ r.s.file[f].realm)
               /\ known_taint' = TRUE
               /\ Becomes(citadel_declare_fd(r.s, fd, "open", r.s.file[f].id))
          ELSE /\ known_taint' = (known_taint \/ r.ok)
               /\ Becomes(r.s)
               /\ UNCHANGED <<opened, in_realm>>
  BY <1>2, Zenon DEF c_open
<1>5. opened[fd] = NONE /\ pid' = pid
  BY DEF c_open
<1>6. PICK s : s = r.s
  OBVIOUS
<1>7. s \in GoodSessions /\ r.ok \in BOOLEAN
  <2>1. r \in Outcomes
    BY <1>1, <1>3, OpenGood
  <2> QED BY <1>6, <2>1 DEF Outcomes
<1>8. pid' \in 0..MaxForks /\ OK(s, opened, in_realm, pid)
  BY <1>1, <1>5, <1>7, Good, SMTT(30) DEF Process
<1>9. CASE r.ok /\ Permits(s, f)
  <2>1. /\ opened' = [opened EXCEPT ![fd] = f]
        /\ in_realm' = (in_realm \/ s.file[f].realm)
        /\ known_taint' = TRUE
        /\ Becomes(citadel_declare_fd(s, fd, "open", s.file[f].id))
    BY <1>4, <1>6, <1>9, Zenon
  <2>2. PICK o : o = [opened EXCEPT ![fd] = f]
    OBVIOUS
  <2>3. o \in Openings /\ o[fd] = f
    BY <1>1, <2>2 DEF Openings
  <2>4. OK(s, o, in_realm, pid)
    <3>1. s.file[f].realm =>
            s.file[f].id \in Ids /\ Covers(s, s.file[f].id, s.clock, Lifetime - 1)
      BY <1>1, <1>7, <1>9, PermitsCovers
    <3>2. DOMAIN opened = Fds
      BY <1>1 DEF Openings
    <3> QED BY <1>1, <1>5, <1>8, <2>2, <3>1, <3>2, Opens
  <2>5. in_realm' \in BOOLEAN /\ (in_realm => in_realm')
    BY <1>1, <2>1 DEF Process
  <2>6. OK(s, o, in_realm', pid)
    BY <1>1, <2>4, <2>5, Enters
  <2>7. PICK t : t = citadel_declare_fd(s, fd, "open", s.file[f].id)
    BY Zenon
  <2>8. OK(t, o, in_realm', pid)
    BY <1>1, <1>5, <1>7, <1>9, <2>3, <2>6, <2>7, DeclaresOpen
  <2>9. OK(t, opened', in_realm', pid')
    BY <1>5, <2>1, <2>2, <2>8
  <2> QED BY <1>8, <2>1, <2>2, <2>3, <2>5, <2>7, <2>9, Settles
<1>10. CASE ~(r.ok /\ Permits(s, f))
  <2>1. /\ known_taint' = (known_taint \/ r.ok)
        /\ Becomes(s) /\ opened' = opened /\ in_realm' = in_realm
    BY <1>4, <1>6, <1>10, Zenon
  <2>2. OK(s, opened', in_realm', pid')
    BY <1>5, <1>8, <2>1
  <2>3. known_taint' \in BOOLEAN /\ in_realm' \in BOOLEAN /\ opened' \in Openings
    BY <1>1, <2>1 DEF Process
  <2> QED BY <1>8, <2>1, <2>2, <2>3, Settles
<1> QED BY <1>9, <1>10

-----------------------------------------------------------------------------
(* The cache of descriptors, and the steps that use it.                    *)

LEMMA WithoutKeeps ==
  ASSUME Facts, NEW group \in Seq(FdEntries), NEW gone
  PROVE  /\ Without(group, gone) \in Seq(FdEntries)
         /\ \A k \in DOMAIN Without(group, gone) :
              \E i \in DOMAIN group : Without(group, gone)[k] = group[i]
BY DEF Facts

LEMMA DropsFds ==
  ASSUME Facts, NEW s, NEW o, NEW realm, NEW p \in Nat, OK(s, o, realm, p), NEW gone
  PROVE  OK([s EXCEPT !.fds = Without(@, gone)], o, realm, p)
<1>1. PICK q : q = Without(s.fds, gone)
  OBVIOUS
<1>2. s.fds \in Seq(FdEntries) /\ \A i \in DOMAIN s.fds : FdOK(s, s.fds[i], o, p)
  BY Fields DEF OK
<1>3. q \in Seq(FdEntries) /\ \A k \in DOMAIN q : \E j \in DOMAIN s.fds : q[k] = s.fds[j]
  <2>1. PICK group \in Seq(FdEntries) : group = s.fds
    BY <1>2, Zenon
  <2>2. /\ Without(group, gone) \in Seq(FdEntries)
        /\ \A k \in DOMAIN Without(group, gone) :
             \E j \in DOMAIN group : Without(group, gone)[k] = group[j]
    BY WithoutKeeps
  <2> QED BY <1>1, <2>1, <2>2, Zenon
<1>4. \A k \in DOMAIN q : FdOK(s, q[k], o, p)
  BY <1>2, <1>3, Zenon
<1>5. OK([s EXCEPT !.fds = q], o, realm, p)
  BY <1>3, <1>4, SetsFds
<1> QED BY <1>1, <1>5, Zenon

\* An entry that a ticket issued at that second refreshes.
LEMMA RefreshedFd ==
  ASSUME NEW s, NEW o, NEW p \in Nat, s.clock \in Nat, NEW issued,
         NEW e0, FdOK(s, e0, o, p), NEW e,
         e.op = e0.op, e.time = s.clock, e.issued = issued,
         e.by = IF e0.op = "parent" THEN e0.by ELSE p,
         e.op \in {"internal", "external"} =>
           issued # NONE /\ issued <= s.clock /\ s.clock <= issued + Latency,
         e.op \notin {"internal", "external"} => issued = NONE,
         e.op = "open" => Covers(s, e.data, s.clock, Lifetime - 1)
  PROVE  FdOK(s, e, o, p)
<1>1. e.by <= p /\ (e.op = "parent" => e.by < p) /\ (e.op # "parent" => e.by = p)
  <2>1. e0.by <= p /\ (e0.op = "parent" => e0.by < p)
    BY Zenon DEF FdOK
  <2> QED BY <2>1
<1>2. e.time <= s.clock /\ (e.issued # NONE => e.issued <= s.clock)
  <2>1. e.issued # NONE => e.issued <= s.clock
    BY Zenon
  <2> QED BY <2>1
<1>3. e.op \in {"internal", "external"} =>
        e.by = p /\ e.issued # NONE /\ e.time <= e.issued + Latency
  BY <1>1
<1>4. e.op = "open" => Covers(s, e.data, e.time, Lifetime - 1)
  BY Zenon
<1>5. e.op = "nop" => e.by = p
  BY <1>1
<1> QED BY <1>1, <1>2, <1>3, <1>4, <1>5, Zenon DEF FdOK

LEMMA RefreshGood ==
  ASSUME Facts, Process, NEW s \in GoodSessions, NEW i \in DOMAIN s.fds,
         NEW issued \in Nat \union {NONE},
         s.fds[i].op \in {"internal", "external"} =>
           issued # NONE /\ issued <= s.clock /\ s.clock <= issued + Latency,
         s.fds[i].op \notin {"internal", "external"} => issued = NONE,
         s.fds[i].op = "open" => Covers(s, s.fds[i].data, s.clock, Lifetime - 1)
  PROVE  Refreshed(s, i, issued) \in GoodSessions
<1>1. /\ s \in Sessions /\ OK(s, opened, in_realm, pid) /\ pid \in Nat /\ s.clock \in Nat
      /\ s.fds \in Seq(FdEntries)
  BY Good, PidIsNat, Fields, SMTT(30) DEF GoodSessions
<1>2. PICK e0 \in FdEntries : e0 = s.fds[i] /\ FdOK(s, e0, opened, pid)
  BY <1>1 DEF OK
<1>3. PICK e : e = [e0 EXCEPT !.time = s.clock, !.issued = issued,
                              !.by = IF e0.op = "parent" THEN @ ELSE pid]
  OBVIOUS
<1>4. /\ e \in FdEntries /\ e.op = e0.op /\ e.data = e0.data
      /\ e.time = s.clock /\ e.issued = issued
      /\ e.by = IF e0.op = "parent" THEN e0.by ELSE pid
  BY <1>1, <1>3, ZenonT(30) DEF FdEntries, Process
<1>5. FdOK(s, e, opened, pid)
  <2>1. e.op \in {"internal", "external"} =>
          issued # NONE /\ issued <= s.clock /\ s.clock <= issued + Latency
    BY <1>2, <1>4, Zenon
  <2>2. e.op \notin {"internal", "external"} => issued = NONE
    BY <1>2, <1>4, Zenon
  <2>3. e.op = "open" => Covers(s, e.data, s.clock, Lifetime - 1)
    BY <1>2, <1>4, Zenon
  <2> QED BY <1>1, <1>2, <1>4, <2>1, <2>2, <2>3, RefreshedFd, Zenon
<1>6. PICK q : q = Without(s.fds, {i})
  OBVIOUS
<1>7. PICK t : t = [s EXCEPT !.fds = q]
  OBVIOUS
<1>8. OK(t, opened, in_realm, pid)
  BY <1>1, <1>6, <1>7, DropsFds, Zenon
<1>9. t.fds = q /\ t.clock = s.clock /\ t.granted = s.granted /\ t.sock = s.sock
      /\ t.file = s.file
  BY <1>1, <1>7, <1>8, Fields DEF Sessions, OK
<1>10. FdOK(t, e, opened, pid)
  BY <1>5, <1>9, FdSame, Zenon
<1>11. OK([t EXCEPT !.fds = Append(@, e)], opened, in_realm, pid)
  BY <1>1, <1>4, <1>8, <1>10, AddsFd
<1>12. Refreshed(s, i, issued) = [s EXCEPT !.fds = Append(q, e)]
  BY <1>2, <1>3, <1>6 DEF Refreshed
<1>13. [t EXCEPT !.fds = Append(@, e)] = [s EXCEPT !.fds = Append(q, e)]
  BY <1>1, <1>7, <1>9 DEF Sessions
<1> QED BY <1>11, <1>12, <1>13, Good

LEMMA ValidateGood ==
  ASSUME Facts, Process, NEW s \in GoodSessions, NEW fd \in Fds,
         NEW op \in {NONE, "internal", "external"}
  PROVE  citadel_validate_fd(s, fd, op) \subseteq Outcomes
<1>1. /\ s \in Sessions /\ s.clock \in Nat /\ s.fds \in Seq(FdEntries)
  BY Fields DEF GoodSessions
<1>2. PICK id \in Ids \union {NONE} : id = get_fd_identifier(s, fd)
  BY IdentifierType
<1>3. \A ok \in BOOLEAN : {[s |-> s, ok |-> ok]} \subseteq Outcomes
  BY Outcome
<1>4. CASE id = NONE
  BY <1>2, <1>3, <1>4, Zenon DEF citadel_validate_fd
<1>5. CASE id # NONE /\ Matching(s, fd, op) = {}
  <2>1. CASE op = NONE
    BY <1>2, <1>3, <1>5, <2>1, Zenon DEF citadel_validate_fd
  <2>2. CASE op # NONE
    <3>1. citadel_validate_fd(s, fd, op) =
            {IF r.ok THEN [r EXCEPT !.s = NewFd(r.s, fd, op, id, s.clock)] ELSE r :
               r \in Ask(s, id, op)}
      <4>1. TicketTime(s, op) = s.clock
        BY <2>2, SMTT(30) DEF TicketTime
      <4> QED BY <1>2, <1>5, <2>2, <4>1, Zenon DEF citadel_validate_fd, IfApproved
    <3>2. ASSUME NEW r \in Ask(s, id, op)
          PROVE  r \in Outcomes /\ (r.ok => NewFd(r.s, fd, op, id, s.clock) \in GoodSessions)
      BY <1>1, <1>5, <2>2, Asks, RecordsSocket
    <3> QED BY <3>1, <3>2, ApprovedOutcome
  <2> QED BY <2>1, <2>2
<1>6. CASE id # NONE /\ Matching(s, fd, op) # {}
  <2>1. PICK i : i = Min(Matching(s, fd, op))
    OBVIOUS
  <2>2. i \in DOMAIN s.fds
    <3>1. Matching(s, fd, op) \subseteq DOMAIN s.fds /\ DOMAIN s.fds \subseteq Nat
      BY <1>1 DEF Matching
    <3> QED BY <1>6, <2>1, <3>1, MinIsLeast
  <2>3. PICK e \in FdEntries : e = s.fds[i]
    BY <1>1, <2>2
  <2>4. CASE entry_in_date(s, e) \/ e.op = "nop"
    BY <1>2, <1>3, <1>6, <2>1, <2>3, <2>4, Zenon DEF citadel_validate_fd
  <2>5. CASE ~(entry_in_date(s, e) \/ e.op = "nop")
    <3>1. citadel_validate_fd(s, fd, op) =
            {IF r.ok THEN [r EXCEPT !.s = Refreshed(r.s, i, TicketTime(s, e.op))] ELSE r :
               r \in Ask(s, e.data, e.op)}
      BY <1>2, <1>6, <2>1, <2>3, <2>5, Zenon DEF citadel_validate_fd, IfApproved
    <3>2. ASSUME NEW r \in Ask(s, e.data, e.op)
          PROVE  /\ r \in Outcomes
                 /\ r.ok => Refreshed(r.s, i, TicketTime(s, e.op)) \in GoodSessions
      <4>1. e.data \in Ids
        BY DEF FdEntries
      <4>2. /\ r \in Outcomes
            /\ r.ok => /\ r.s \in GoodSessions /\ r.s.fds = s.fds
                       /\ s.clock <= r.s.clock /\ r.s.clock <= s.clock + Latency
                       /\ e.op = "open" => Covers(r.s, e.data, r.s.clock, Lifetime - 1)
        BY <4>1, Asks, Zenon
      <4>3. PICK issued \in Nat \union {NONE} : issued = TicketTime(s, e.op)
        BY <1>1 DEF TicketTime
      <4>4. /\ e.op \in {"internal", "external"} => issued = s.clock /\ issued # NONE
            /\ e.op \notin {"internal", "external"} => issued = NONE
        BY <1>1, <4>3, Names DEF TicketTime
      <4>5. ASSUME r.ok PROVE Refreshed(r.s, i, issued) \in GoodSessions
        BY <2>2, <2>3, <4>2, <4>4, <4>5, RefreshGood
      <4> QED BY <4>2, <4>3, <4>5, Zenon
    <3> QED BY <3>1, <3>2, ApprovedOutcome
  <2> QED BY <2>4, <2>5
<1> QED BY <1>4, <1>5, <1>6

LEMMA ListenKeeps ==
  ASSUME Facts, IInv, NEW fd \in Fds, c_listen(fd)
  PROVE  IInv'
<1>1. citadel_validate_fd(Session, fd, NONE) \subseteq Outcomes
  BY Starts, ValidateGood
<1> QED BY <1>1, SessionKeeps DEF c_listen

LEMMA ReadKeeps ==
  ASSUME Facts, IInv, NEW fd \in Fds, c_read(fd)
  PROVE  IInv'
<1>1. PICK outcomes : outcomes = citadel_validate_fd(Session, fd, NONE)
  OBVIOUS
<1>2. outcomes \subseteq Outcomes
  BY <1>1, Starts, ValidateGood
<1>3. Used(outcomes, fd) \subseteq Outcomes
  BY <1>2, Starts, UsedGood
<1>4. InSession(Used(outcomes, fd))
  BY <1>1, Zenon DEF c_read
<1> QED BY <1>3, <1>4, SessionKeeps

LEMMA SendfileKeeps ==
  ASSUME Facts, IInv, NEW out_fd \in Fds, NEW in_fd \in Fds, c_sendfile(out_fd, in_fd)
  PROVE  IInv'
<1>1. PICK first : first = citadel_validate_fd(Session, out_fd, NONE)
  OBVIOUS
<1>2. first \subseteq Outcomes
  BY <1>1, Starts, ValidateGood
<1>3. PICK both : both = UNION {IF r.ok THEN citadel_validate_fd(r.s, in_fd, NONE) ELSE {r} :
                                  r \in first}
  OBVIOUS
<1>4. ASSUME NEW r \in first
      PROVE  (IF r.ok THEN citadel_validate_fd(r.s, in_fd, NONE) ELSE {r}) \subseteq Outcomes
  <2>1. r \in Outcomes /\ r.s \in GoodSessions
    BY <1>2 DEF Outcomes
  <2>2. citadel_validate_fd(r.s, in_fd, NONE) \subseteq Outcomes
    BY <2>1, Starts, ValidateGood
  <2> QED BY <2>1, <2>2, Zenon
<1>5. both \subseteq Outcomes
  BY <1>3, <1>4, Zenon
<1>6. Used(both, out_fd) \subseteq Outcomes
  BY <1>5, Starts, UsedGood
<1>7. InSession(Used(both, out_fd))
  BY <1>1, <1>3, Zenon DEF c_sendfile
<1> QED BY <1>6, <1>7, SessionKeeps

LEMMA SocketOps == \A f : SocketOp(f) \in {NONE, "internal", "external"}
BY DEF SocketOp

LEMMA BindKeeps ==
  ASSUME Facts, IInv, NEW fd \in Fds, NEW f, c_bind(fd, f)
  PROVE  IInv'
<1>1. PICK first : first = citadel_validate_fd(Session, fd, SocketOp(f))
  OBVIOUS
<1>2. first \subseteq Outcomes
  BY <1>1, Starts, SocketOps, ValidateGood
<1>3. PICK all : all = UNION {IF r.ok THEN Bound(r.s, fd, f) ELSE {r} : r \in first}
  OBVIOUS
<1>4. ASSUME NEW r \in first
      PROVE  (IF r.ok THEN Bound(r.s, fd, f) ELSE {r}) \subseteq Outcomes
  <2>1. r \in Outcomes /\ r.s \in GoodSessions
    BY <1>2 DEF Outcomes
  <2>2. Bound(r.s, fd, f) \subseteq Outcomes
    BY <2>1, Starts, BoundGood
  <2> QED BY <2>1, <2>2, Zenon
<1>5. all \subseteq Outcomes
  BY <1>3, <1>4, Zenon
<1>6. InSession(all)
  BY <1>1, <1>3, Zenon DEF c_bind
<1> QED BY <1>5, <1>6, SessionKeeps

LEMMA ConnectKeeps ==
  ASSUME Facts, IInv, NEW fd \in Fds, NEW f, c_connect(fd, f)
  PROVE  IInv'
<1>1. PICK r \in citadel_validate_fd(Session, fd, SocketOp(f)) :
        \E q \in IF r.ok /\ f \in Files /\ sock[fd] # NONE
                   THEN citadel_file_open_ext(r.s, f) ELSE {r} :
          /\ Becomes(q.s)
          /\ in_realm' = (in_realm \/ (q.ok /\ f \in Files /\ Taints(q.s, f)))
  BY Zenon DEF c_connect
<1>2. PICK q \in IF r.ok /\ f \in Files /\ sock[fd] # NONE
                   THEN citadel_file_open_ext(r.s, f) ELSE {r} :
        /\ Becomes(q.s)
        /\ in_realm' = (in_realm \/ (q.ok /\ f \in Files /\ Taints(q.s, f)))
  BY <1>1, Zenon
<1>3. Process /\ r \in Outcomes
  BY Starts, SocketOps, ValidateGood
<1>4. r.s \in GoodSessions
  BY <1>3 DEF Outcomes
<1>5. q \in Outcomes
  <2>1. CASE r.ok /\ f \in Files /\ sock[fd] # NONE
    <3>1. q \in citadel_file_open_ext(r.s, f)
      BY <1>2, <2>1, Zenon
    <3> QED BY <1>3, <1>4, <2>1, <3>1, OpenGood
  <2>2. CASE ~(r.ok /\ f \in Files /\ sock[fd] # NONE)
    BY <1>2, <1>3, <2>2, Zenon
  <2> QED BY <2>1, <2>2
<1>6. q.s \in GoodSessions
  BY <1>5 DEF Outcomes
<1>7. in_realm' \in BOOLEAN /\ (in_realm => in_realm')
  BY <1>2, Zenon
<1>8. UNCHANGED <<pid, known_taint, opened>>
  BY DEF c_connect
<1> QED BY <1>2, <1>6, <1>7, <1>8, RealmKeeps

LEMMA CloseKeeps ==
  ASSUME Facts, IInv, NEW fd \in Fds, c_close(fd)
  PROVE  IInv'
<1>1. PICK s : s = Session
  OBVIOUS
<1>2. /\ s \in Sessions /\ OK(s, opened, in_realm, pid) /\ opened \in Openings
      /\ pid \in 0..MaxForks /\ pid \in Nat /\ in_realm \in BOOLEAN /\ known_taint \in BOOLEAN
  BY <1>1, Starts DEF OK, Process
<1>3. PICK t \in citadel_remove_fd(s, fd) : Becomes([t EXCEPT !.sock[fd] = NONE])
  BY <1>1 DEF c_close
<1>4. /\ opened' = [opened EXCEPT ![fd] = NONE]
      /\ pid' = pid /\ known_taint' = known_taint /\ in_realm' = in_realm
  BY DEF c_close
<1>5. PICK gone : t = [s EXCEPT !.fds = Without(@, gone)]
  BY <1>3, Zenon DEF citadel_remove_fd
<1>6. OK(t, opened, in_realm, pid)
  BY <1>2, <1>5, DropsFds
<1>7. t \in Sessions /\ t.sock \in [Fds -> Ids \union {NONE}]
      /\ \A d \in Fds : opened[d] # SOCKET => t.sock[d] = NONE
  BY <1>6, Fields DEF OK
<1>8. PICK q : q = [t.sock EXCEPT ![fd] = NONE]
  BY ZenonT(30)
<1>9. PICK o : o = opened'
  OBVIOUS
<1>10. /\ q \in [Fds -> Ids \union {NONE}]
       /\ \A d \in Fds : q[d] = IF d = fd THEN NONE ELSE t.sock[d]
  BY <1>7, <1>8
<1>11. o \in Openings /\ \A d \in Fds : o[d] = IF d = fd THEN NONE ELSE opened[d]
  BY <1>2, <1>4, <1>9, SMTT(30) DEF Openings
<1>12. \A d \in Fds : /\ o[d] = opened[d] \/ o[d] \notin Files
                      /\ q[d] \in {t.sock[d], pid, NONE}
                      /\ o[d] # SOCKET => q[d] = NONE
  BY <1>7, <1>10, <1>11, Names
<1>13. OK([t EXCEPT !.sock = q], o, in_realm, pid)
  BY <1>2, <1>6, <1>10, <1>12, SetsSock
<1>14. PICK u : u = [t EXCEPT !.sock = q]
  OBVIOUS
<1>15. Becomes(u)
  BY <1>3, <1>8, <1>14, Zenon
<1>16. OK(u, opened', in_realm', pid')
  BY <1>4, <1>9, <1>13, <1>14
<1> QED BY <1>2, <1>4, <1>9, <1>11, <1>15, <1>16, Settles

LEMMA StepKeeps ==
  ASSUME Facts PROVE IInv /\ [Next]_vars => IInv'
<1> SUFFICES ASSUME IInv, [Next]_vars PROVE IInv'
  OBVIOUS
<1>1. CASE Tick
  BY <1>1, TickKeeps
<1>2. CASE \E orphan \in BOOLEAN : c_fork(orphan)
  BY <1>2, ForkKeeps
<1>3. ASSUME NEW f \in Files,
             c_fopen(f) \/ citadel_file_claim(f) \/ c_mkfifo(f) \/ citadel_declassify(f)
      PROVE  IInv'
  BY <1>3, FopenKeeps, ClaimKeeps, MkfifoKeeps, DeclassifyKeeps, Zenon
<1>4. ASSUME NEW f \in Files, NEW fd \in Fds, c_open_untainted(f, fd) \/ c_open(f, fd)
      PROVE  IInv'
  BY <1>4, UntaintedKeeps, OpenKeeps, Zenon
<1>5. ASSUME NEW fd \in Fds,
             socket(fd) \/ c_listen(fd) \/ c_read(fd) \/ c_close(fd) \/ c_close_crash(fd)
      PROVE  IInv'
  BY <1>5, SocketKeeps, ListenKeeps, ReadKeeps, CloseKeeps, CrashKeeps, Zenon
<1>6. ASSUME NEW fd \in Fds, NEW f \in Files \union {NONE}, c_bind(fd, f) \/ c_connect(fd, f)
      PROVE  IInv'
  BY <1>6, BindKeeps, ConnectKeeps, Zenon
<1>7. ASSUME NEW fd \in Fds, NEW other \in Fds,
             accept(fd, other) \/ c_socketpair(fd, other) \/ c_sendfile(fd, other)
      PROVE  IInv'
  BY <1>7, AcceptKeeps, SocketpairKeeps, SendfileKeeps, Zenon
<1>8. CASE UNCHANGED vars
  <2>1. Session' = Session /\ UNCHANGED <<now, pid, known_taint, opened, in_realm>>
    BY <1>8 DEF Session, vars
  <2>2. OK(Session', opened', in_realm', pid')
    BY <2>1 DEF IInv
  <2> QED BY <2>1, <2>2 DEF IInv
<1> QED BY <1>1, <1>2, <1>3, <1>4, <1>5, <1>6, <1>7, <1>8, Zenon DEF Next

-----------------------------------------------------------------------------
(* Least elements, sequences and sets of places.                           *)

INSTANCE FiniteSetTheorems
INSTANCE SequenceTheorems

\* A non-empty set of naturals has a least element.
LEMMA LeastNat ==
  ASSUME NEW T, T \subseteq Nat, T # {}
  PROVE  \E x \in T : \A y \in T : x <= y
<1> DEFINE R == {ss \in Nat \X Nat : ss[1] < ss[2]}
<1>1. IsWellFoundedOn(R, Nat)
  BY NatLessThanWellFounded DEF OpToRel
<1> HIDE DEF R
<1>2. PICK x \in T : \A y \in T : ~(<<y, x>> \in R)
  BY <1>1, WFMin, Zenon
<1>3. ASSUME NEW y \in T, y < x PROVE FALSE
  <2>1. <<y, x>> \in R
    BY <1>3 DEF R
  <2> QED BY <2>1, <1>2
<1> QED BY <1>3

LEMMA MinFact ==
  ASSUME NEW T, T \subseteq Nat, T # {}
  PROVE  Min(T) \in T /\ \A y \in T : Min(T) <= y
<1>1. \E x \in T : \A y \in T : x <= y
  BY LeastNat, Zenon
<1> QED BY <1>1, Zenon DEF Min

LEMMA SuffixFact ==
  ASSUME NEW S, NEW q \in Seq(S), NEW k \in 1..Len(q), NEW n \in Nat, n = Len(q) - k + 1
  PROVE  SubSeq(q, k, Len(q)) = After(q, k - 1, n)
<1>1. Len(q) \in Nat /\ k \in Int /\ k <= Len(q) /\ \A i \in k..Len(q) : q[i] \in S
  OBVIOUS
<1>2. PICK r : r = SubSeq(q, k, Len(q))
  OBVIOUS
<1>3. r \in Seq(S) /\ Len(r) = n /\ \A i \in 1..n : r[i] = q[k + i - 1]
  BY <1>1, <1>2, SubSeqProperties
<1>4. \A i \in 1..n : k + i - 1 = (k - 1) + i
  BY <1>1
<1>5. r = [i \in 1..n |-> q[(k - 1) + i]]
  BY <1>3, <1>4, SMTT(30)
<1> QED BY <1>2, <1>5 DEF After

\* The k-th element of a set of places.
LEMMA PlaceExists ==
  ASSUME NEW n \in Nat, NEW kept, kept \subseteq 1..n, NEW k \in 1..Cardinality(kept)
  PROVE  \E i \in kept : Cardinality(kept \intersect 1..i) = k
<1> DEFINE U(i) == kept \intersect 1..i
           T == {i \in Nat : Cardinality(U(i)) >= k}
<1>1. IsFiniteSet(kept) /\ Cardinality(kept) \in Nat
  <2>1. 1 \in Int /\ n \in Int
    OBVIOUS
  <2>2. IsFiniteSet(1..n)
    BY <2>1, FS_Interval, Zenon
  <2> QED BY <2>2, FS_Subset, FS_CardinalityType, Zenon
<1>2. \A i : IsFiniteSet(U(i)) /\ Cardinality(U(i)) \in Nat
  <2> SUFFICES ASSUME NEW i PROVE IsFiniteSet(U(i)) /\ Cardinality(U(i)) \in Nat
    OBVIOUS
  <2>1. U(i) \subseteq kept
    OBVIOUS
  <2> HIDE DEF U
  <2> QED BY <1>1, <2>1, FS_Subset, FS_CardinalityType, Zenon
<1>3. U(n) = kept /\ U(0) = {}
  <2>1. kept \intersect 1..n = kept
    BY Zenon
  <2>2. 1..0 = {}
    OBVIOUS
  <2> QED BY <2>1, <2>2, Zenon
<1>4. Cardinality(U(0)) = 0
  BY <1>3, FS_EmptySet, Zenon
<1>5. \A i \in Nat \ {0} : U(i) = IF i \in kept THEN U(i - 1) \union {i} ELSE U(i - 1)
  OBVIOUS
<1>6. \A i \in Nat \ {0} : i \notin U(i - 1)
  OBVIOUS
<1> HIDE DEF U
<1>7. n \in T
  BY <1>1, <1>3
<1>8. PICK x \in T : \A y \in T : x <= y
  <2>1. T \subseteq Nat /\ T # {}
    BY <1>7, SMTT(30)
  <2> HIDE DEF T
  <2> QED BY <2>1, LeastNat, Zenon
<1>9. x \in Nat \ {0} /\ Cardinality(U(x)) >= k /\ Cardinality(U(x - 1)) < k
  <2>1. x # 0
    BY <1>4, <1>8, SMTT(30)
  <2>2. x - 1 \in Nat /\ x - 1 \notin T
    BY <1>8, <2>1, SMTT(30)
  <2> QED BY <1>2, <1>8, <2>1, <2>2, SMTT(30)
<1>10. x \in kept
  BY <1>2, <1>5, <1>9, SMTT(30)
<1>11. Cardinality(U(x)) = Cardinality(U(x - 1)) + 1
  <2>1. U(x) = U(x - 1) \union {x} /\ x \notin U(x - 1)
    BY <1>5, <1>6, <1>9, <1>10, SMTT(30)
  <2> QED BY <1>2, <2>1, FS_AddElement, Zenon
<1>12. Cardinality(U(x)) = k
  BY <1>2, <1>9, <1>11
<1> QED BY <1>10, <1>12 DEF U

\* What is left of a group are entries of it.
LEMMA WithoutFact ==
  ASSUME NEW S, NEW group \in Seq(S), NEW gone
  PROVE  /\ Without(group, gone) \in Seq(S)
         /\ \A k \in DOMAIN Without(group, gone) :
              \E i \in DOMAIN group : Without(group, gone)[k] = group[i]
<1>1. PICK kept : kept = DOMAIN group \ gone
  OBVIOUS
<1>2. PICK q : q = Without(group, gone)
  OBVIOUS
<1> DEFINE Place(k) == CHOOSE i \in kept : Cardinality(kept \intersect 1..i) = k
<1>3. Len(group) \in Nat /\ DOMAIN group = 1..Len(group) /\ kept \subseteq 1..Len(group)
  BY <1>1
<1>4. Cardinality(kept) \in Nat
  <2>1. 1 \in Int /\ Len(group) \in Int
    BY <1>3
  <2>2. IsFiniteSet(1..Len(group))
    BY <2>1, FS_Interval, Zenon
  <2> QED BY <1>3, <2>2, FS_Subset, FS_CardinalityType, Zenon
<1>5. q = [k \in 1..Cardinality(kept) |-> group[Place(k)]]
  BY <1>1, <1>2 DEF Without
<1>6. ASSUME NEW k \in 1..Cardinality(kept) PROVE Place(k) \in DOMAIN group
  <2>1. \E i \in kept : Cardinality(kept \intersect 1..i) = k
    BY <1>3, PlaceExists, Zenon
  <2>2. Place(k) \in kept
    BY <2>1, Zenon
  <2> QED BY <1>3, <2>2, Zenon
<1> HIDE DEF Place
<1>7. \A k \in 1..Cardinality(kept) : q[k] = group[Place(k)] /\ group[Place(k)] \in S
  BY <1>5, <1>6
<1>8. q \in Seq(S) /\ DOMAIN q = 1..Cardinality(kept)
  BY <1>4, <1>5, <1>7
<1> QED BY <1>2, <1>6, <1>7, <1>8, Zenon

LEMMA FactsHold == Facts
<1>1. \A T \in SUBSET Nat : T # {} => Min(T) \in T /\ \A y \in T : Min(T) <= y
  BY MinFact
<1>2. \A q \in Seq(NameEntries) : \A k \in 1..Len(q), n \in Nat :
        n = Len(q) - k + 1 => SubSeq(q, k, Len(q)) = After(q, k - 1, n)
  BY SuffixFact
<1>3. \A group \in Seq(FdEntries) : \A gone :
        /\ Without(group, gone) \in Seq(FdEntries)
        /\ \A k \in DOMAIN Without(group, gone) :
             \E i \in DOMAIN group : Without(group, gone)[k] = group[i]
  BY WithoutFact
<1> QED BY <1>1, <1>2, <1>3, Zenon DEF Facts

-----------------------------------------------------------------------------
(* The invariant and the theorems.                                         *)

LEMMA InvariantNext == IInv /\ [Next]_vars => IInv'
BY FactsHold, StepKeeps

\* The invariant on the sessions of the process, which the three theorems below
\* follow from: entries rest on tickets or are out of date.
THEOREM InvariantHolds == Spec => []IInv
BY InvariantInit, InvariantNext, PTL DEF Spec

\* The state of the library and of the kernel keeps its type; no descriptor is
\* recorded without an identifier (citadel_declare_fd).
THEOREM TypeCorrect == Spec => []TypeOK
BY InvariantHolds, TypesFollow, PTL

\* A path that cache_hit answers for rests on a ticket of the process itself
\* that expired no longer ago than the reply took (cleanup_cache_group,
\* prepare_entry_for_child).
THEOREM NamesAreBacked == Spec => []NamesBacked
<1>1. IInv => NamesBacked
  BY FactsHold, NamesFollow, SMTT(30)
<1> QED BY <1>1, InvariantHolds, PTL

\* A descriptor that citadel_validate_fd accepts without asking rests on a
\* ticket of the process itself for the identifier the descriptor has now, or
\* is an end of a pair of sockets that the process made, whatever was opened
\* and closed, claimed, declassified or inherited before.
THEOREM FdsAreBacked == Spec => []FdsBacked
<1>1. IInv => FdsBacked
  BY FactsHold, FdsFollow
<1> QED BY <1>1, InvariantHolds, PTL
==============================================================================
