------------------------- MODULE SharedMemoryProofs -------------------------
(***************************************************************************)
(* Proofs about SharedMemory, for any number of processes, keys, nodes and *)
(* list items: types, that a list neither repeats a process nor runs into  *)
(* a cycle, that it holds every process that was let in unless insertions  *)
(* overlapped, and that a ticket brings both sides into the realm.         *)
(*                                                                         *)
(* What an insertion does to the lists follows from what a list is, the    *)
(* smallest set of items with the head that next does not lead out of      *)
(* (AddPidAfter, AddPidFirst).                                             *)
(***************************************************************************)
EXTENDS SharedMemory, TLAPS

Node == [key : Keys, head : {NULL} \union Nat]
Item == [pid : Procs, next : {NULL} \union Nat]
Task == [pc : {"user", "dead", "search", "insert", "link", "scan", "append"},
         key : Keys \union {NULL}, how : {"free", "ticket", NULL},
         node : {NULL} \union Nat, eol : {NULL} \union Nat, seen : SUBSET Nat]

\* The types, in full.
Types ==
  /\ seg \in [Keys -> {"none", "clean", "realm"}]
  /\ in_realm \in [Procs -> BOOLEAN]
  /\ nodes \in Seq(Node)
  /\ tree \subseteq DOMAIN nodes
  /\ items \in Seq(Item)
  /\ task \in [Procs -> Task]
  /\ admitted \in [Procs -> [Keys -> {"no", "free", "ticket"}]]
  /\ raced \subseteq Keys

\* What pointers point to has been allocated.
Allocated ==
  /\ \A n \in DOMAIN nodes : nodes[n].head \in {NULL} \union DOMAIN items
  /\ \A i \in DOMAIN items : items[i].next \in {NULL} \union DOMAIN items

Out == {"user", "dead"}

\* A process at t in add_to_shmid has a key and, once it is through the tree, a
\* node with the key; if it is about to join the node's list, it is not on it,
\* and the end that it found is on no other list.
Fits(p, t) ==
  /\ t.pc \in Out => t.key = NULL
  /\ t.pc \notin Out => t.key \in Keys /\ t.how \in {"free", "ticket"}
  /\ t.pc \in Out \union {"search"} => t.node = NULL
  /\ t.pc \notin Out \union {"search"} => t.node \in DOMAIN nodes /\ nodes[t.node].key = t.key
  /\ t.pc # "append" => t.eol = NULL
  /\ t.eol # NULL => t.eol \in DOMAIN items
  /\ t.pc = "append" =>
       /\ p \notin Pids(t.node)
       /\ \A m \in DOMAIN nodes \ {t.node} : t.eol \notin ListOf(m)

TaskInv == \A p \in Procs : Fits(p, task[p])

\* The lists have no item in common, have an end, and have a process once.
ListInv ==
  /\ ListedOnce
  /\ \A m, n \in DOMAIN nodes : m # n => ListOf(m) \intersect ListOf(n) = {}

\* What holds at t for a key whose insertions have not overlapped: its node is
\* the only one and stays in the tree, and the end of its list stays the end.
\* Only nodes of other keys come in while a process is at its place in the tree.
Undisturbed(t) ==
  /\ t.pc = "link" => \A n \in tree \ t.seen : nodes[n].key \in raced
  /\ t.pc \in {"insert", "link"} => NodesOf(t.key) = {} \/ t.key \in raced
  /\ t.pc \in {"scan", "append"} => t.node \in tree \/ t.key \in raced
  /\ t.pc = "append" =>
       \/ t.key \in raced
       \/ t.eol = NULL /\ ListOf(t.node) = {}
       \/ t.eol \in ListOf(t.node) /\ items[t.eol].next = NULL

\* Two processes at t and u have not met in an insertion.
Apart(t, u) ==
  /\ t.key = u.key => t.key \in raced \union {NULL}
  /\ t.pc = "link" /\ u.pc = "link" => t.key \in raced /\ u.key \in raced

CalmInv ==
  /\ \A p \in Procs : Undisturbed(task[p])
  /\ \A p, q \in Procs : p # q => Apart(task[p], task[q])
  /\ \A m, n \in tree : nodes[m].key = nodes[n].key /\ m # n => nodes[m].key \in raced

\* A process that was let in with a ticket, or is about to be.
TicketInv ==
  /\ TicketedMeet
  /\ \A p \in Procs : task[p].pc \notin Out /\ task[p].how = "ticket" =>
       in_realm[p] /\ seg[task[p].key] = "realm"

IInv == Types /\ Allocated /\ TaskInv /\ ListInv /\ CalmInv /\ Listed /\ TicketInv

-----------------------------------------------------------------------------
(* Lists.                                                                  *)

\* A list has the head, and next does not lead out of it.
ListsClosed ==
  \A n \in DOMAIN nodes : /\ ListOf(n) \subseteq DOMAIN items
                         /\ nodes[n].head \in ListOf(n) \union {NULL}
                         /\ Closed(ListOf(n))

LEMMA ListClosed == Allocated => ListsClosed
<1> SUFFICES ASSUME Allocated, NEW n \in DOMAIN nodes
             PROVE  /\ ListOf(n) \subseteq DOMAIN items
                    /\ nodes[n].head \in ListOf(n) \union {NULL}
                    /\ Closed(ListOf(n))
  BY DEF ListsClosed
<1>1. ASSUME NEW i \in ListOf(n) PROVE items[i].next \in ListOf(n) \union {NULL}
  BY <1>1 DEF ListOf, Closed, Allocated
<1> QED BY <1>1 DEF ListOf, Closed, Allocated

LEMMA ListClosedNext == Allocated' => ListsClosed'
BY ListClosed, PTL

\* It is the smallest such set.
LEMMA ListLeast ==
  ASSUME NEW n, NEW S, S \subseteq DOMAIN items,
         nodes[n].head \in S \union {NULL}, Closed(S)
  PROVE  ListOf(n) \subseteq S
BY DEF ListOf

\* Lists depend on nothing but the heads and the items.
LEMMA ListSame ==
  ASSUME NEW n, nodes'[n].head = nodes[n].head, UNCHANGED items
  PROVE  ListOf(n)' = ListOf(n)
BY DEF ListOf, Closed

LEMMA PidsSame ==
  ASSUME UNCHANGED <<nodes, items>>
  PROVE  \A n : ListOf(n)' = ListOf(n) /\ Pids(n)' = Pids(n)
BY DEF ListOf, Closed, Pids

\* The last item of a list.
LEMMA EndOnList ==
  ASSUME ListedOnce, NEW n \in DOMAIN nodes
  PROVE  IF EndOf(n) = NULL THEN ListOf(n) = {} \/ NULL \in ListOf(n)
         ELSE EndOf(n) \in ListOf(n) /\ items[EndOf(n)].next = NULL
BY DEF ListedOnce, EndOf

\* A new item is linked after eol: the list that has eol, if there is one, gets
\* the item as its end, loses at most what came after eol, and nothing if eol
\* was the end.  The other lists stay as they are.
LEMMA AddPidAfter ==
  ASSUME Types, Allocated, Allocated', NEW p \in Procs, NEW eol \in DOMAIN items,
         nodes' = nodes,
         items' = [Append(items, [pid |-> p, next |-> NULL]) EXCEPT ![eol].next = Len(items) + 1],
         NEW n \in DOMAIN nodes
  PROVE  IF eol \in ListOf(n)
         THEN /\ Len(items) + 1 \in ListOf(n)'
              /\ ListOf(n)' \subseteq ListOf(n) \union {Len(items) + 1}
              /\ items[eol].next = NULL => ListOf(n) \subseteq ListOf(n)'
         ELSE ListOf(n)' = ListOf(n)
<1> DEFINE all == Append(items, [pid |-> p, next |-> NULL])
<1> PICK L, M, new : L = ListOf(n) /\ M = ListOf(n)' /\ new = Len(items) + 1
  OBVIOUS
<1>1. /\ Len(items) \in Nat /\ DOMAIN items = 1..Len(items)
      /\ new \notin DOMAIN items /\ new # NULL
  BY SharedMemoryAssumption DEF Types
<1>2. /\ \A i \in DOMAIN items \ {eol} : items'[i].next = items[i].next
      /\ items'[eol].next = new
      /\ items'[new].next = NULL
      /\ DOMAIN items' = DOMAIN items \union {new}
  <2>1. /\ \A i \in DOMAIN items : all[i] = items[i]
        /\ all[new] = [pid |-> p, next |-> NULL]
        /\ DOMAIN all = DOMAIN items \union {new}
    BY <1>1 DEF Types
  <2>2. items' = [all EXCEPT ![eol].next = new]
    OBVIOUS
  <2>3. items[eol] \in Item
    BY DEF Types
  <2> HIDE DEF all
  <2>4. /\ DOMAIN items' = DOMAIN all
        /\ \A i \in DOMAIN all \ {eol} : items'[i] = all[i]
        /\ items'[eol] = [items[eol] EXCEPT !.next = new]
    BY <2>1, <2>2
  <2> QED BY <1>1, <2>1, <2>3, <2>4 DEF Item
<1>3. L \subseteq DOMAIN items /\ nodes[n].head \in L \union {NULL} /\ Closed(L)
  BY ListClosed DEF ListsClosed
<1>4. M \subseteq DOMAIN items' /\ nodes[n].head \in M \union {NULL} /\ Closed(M)'
  BY ListClosedNext DEF ListsClosed
<1>5. \A S \in SUBSET DOMAIN items : nodes[n].head \in S \union {NULL} /\ Closed(S) => L \subseteq S
  BY DEF ListOf
<1>6. \A S \in SUBSET DOMAIN items' : nodes[n].head \in S \union {NULL} /\ Closed(S)' => M \subseteq S
  BY DEF ListOf
<1>7. eol \notin M \/ items[eol].next = NULL => L \subseteq M
  <2> DEFINE S == M \ {new}
  <2>1. ASSUME eol \notin M \/ items[eol].next = NULL PROVE Closed(S)
    BY <1>1, <1>2, <1>4, <2>1 DEF Closed, Allocated
  <2>2. S \in SUBSET DOMAIN items /\ nodes[n].head \in S \union {NULL}
    BY <1>1, <1>2, <1>4 DEF Allocated
  <2> QED BY <2>1, <2>2, <1>5
<1>8. CASE eol \in L
  <2>1. Closed(L \union {new})'
    BY <1>1, <1>2, <1>3 DEF Closed
  <2>2. M \subseteq L \union {new}
    BY <2>1, <1>2, <1>3, <1>6
  <2>3. eol \in M
    BY <1>7, <1>8
  <2>4. new \in M
    BY <2>3, <1>1, <1>2, <1>4 DEF Closed
  <2> QED BY <1>7, <1>8, <2>2, <2>4
<1>9. CASE eol \notin L
  <2>1. Closed(L)'
    BY <1>1, <1>2, <1>3, <1>9 DEF Closed
  <2>2. M \subseteq L
    BY <2>1, <1>2, <1>3, <1>6
  <2>3. L = M
    BY <1>7, <1>9, <2>2
  <2> QED BY <1>9, <2>3
<1> QED BY <1>8, <1>9

\* A new item becomes the head of node h: it is the whole list.  The other lists
\* stay as they are.
LEMMA AddPidFirst ==
  ASSUME Types, Allocated, Allocated', NEW p \in Procs, NEW h \in DOMAIN nodes,
         nodes' = [nodes EXCEPT ![h].head = Len(items) + 1],
         items' = Append(items, [pid |-> p, next |-> NULL]),
         NEW n \in DOMAIN nodes
  PROVE  ListOf(n)' = IF n = h THEN {Len(items) + 1} ELSE ListOf(n)
<1> PICK L, M, new : L = ListOf(n) /\ M = ListOf(n)' /\ new = Len(items) + 1
  OBVIOUS
<1>1. /\ Len(items) \in Nat /\ DOMAIN items = 1..Len(items)
      /\ new \notin DOMAIN items /\ new # NULL
  BY SharedMemoryAssumption DEF Types
<1>2. /\ \A i \in DOMAIN items : items'[i] = items[i]
      /\ items'[new].next = NULL
      /\ DOMAIN items' = DOMAIN items \union {new}
  BY <1>1 DEF Types
<1>3. L \subseteq DOMAIN items /\ nodes[n].head \in L \union {NULL} /\ Closed(L)
  BY ListClosed DEF ListsClosed
<1>4. nodes'[n].head = IF n = h THEN new ELSE nodes[n].head
  <2>1. nodes[h] \in Node /\ nodes[n] \in Node
    BY DEF Types
  <2> QED BY <2>1 DEF Types, Node
<1>5. M \subseteq DOMAIN items' /\ nodes'[n].head \in M \union {NULL} /\ Closed(M)'
  <2>1. n \in DOMAIN nodes'
    BY DEF Types
  <2> QED BY <2>1, ListClosedNext DEF ListsClosed
<1>6. \A S \in SUBSET DOMAIN items : nodes[n].head \in S \union {NULL} /\ Closed(S) => L \subseteq S
  BY DEF ListOf
<1>7. \A S \in SUBSET DOMAIN items' : nodes'[n].head \in S \union {NULL} /\ Closed(S)' => M \subseteq S
  BY DEF ListOf
<1>8. CASE n = h
  <2>1. Closed({new})'
    BY <1>2 DEF Closed
  <2> QED BY <2>1, <1>1, <1>2, <1>4, <1>5, <1>7, <1>8
<1>9. CASE n # h
  <2>1. Closed(L)'
    BY <1>1, <1>2, <1>3 DEF Closed
  <2>2. M \subseteq L
    BY <2>1, <1>2, <1>3, <1>4, <1>7, <1>9
  <2>3. Closed(M)
    BY <1>1, <1>2, <1>3, <1>5, <2>2 DEF Closed
  <2>4. L \subseteq M
    BY <2>2, <2>3, <1>3, <1>4, <1>5, <1>6, <1>9
  <2> QED BY <1>9, <2>2, <2>4
<1> QED BY <1>8, <1>9
-----------------------------------------------------------------------------
(* Steps that leave the tree and the lists alone.                          *)

LEMMA UserData ==
  /\ User \in Task /\ Dead \in Task
  /\ User.pc = "user" /\ Dead.pc = "dead"
  /\ User.key = NULL /\ Dead.key = NULL
  /\ \A p : Fits(p, User) /\ Fits(p, Dead)
  /\ Undisturbed(User) /\ Undisturbed(Dead)
<1>1. /\ User.pc = "user" /\ User.key = NULL /\ User.node = NULL /\ User.eol = NULL
      /\ Dead.pc = "dead" /\ Dead.key = NULL /\ Dead.node = NULL /\ Dead.eol = NULL
  BY DEF User, Dead
<1>2. User \in Task /\ Dead \in Task
  BY DEF User, Dead, Task
<1> QED BY <1>1, <1>2 DEF Fits, Undisturbed, Out

\* Process p goes to t.
LEMMA Moves ==
  ASSUME Types, Allocated, TaskInv, ListInv, CalmInv,
         UNCHANGED <<nodes, tree, items>>,
         NEW p \in Procs, NEW t \in Task, Goes(p, t),
         raced \subseteq raced', raced' \subseteq Keys,
         Fits(p, t), Undisturbed(t)',
         \A q \in Procs \ {p} :
           /\ t.key = task[q].key => t.key \in raced' \union {NULL}
           /\ t.pc = "link" /\ task[q].pc = "link" => {t.key, task[q].key} \subseteq raced'
  PROVE  /\ task' \in [Procs -> Task]
         /\ Allocated' /\ TaskInv' /\ ListInv' /\ CalmInv'
<1>1. /\ task' \in [Procs -> Task] /\ task'[p] = t
      /\ \A q \in Procs \ {p} : task'[q] = task[q]
  BY DEF Types, Goes
<1>2. \A n : ListOf(n)' = ListOf(n) /\ Pids(n)' = Pids(n)
  BY PidsSame
<1>3. \A q, u : Fits(q, u) => Fits(q, u)'
  BY <1>2 DEF Fits
<1>4. TaskInv'
  BY <1>1, <1>3 DEF TaskInv
<1>5. ListInv'
  BY <1>2 DEF ListInv, ListedOnce
<1>6. \A u : Undisturbed(u) => Undisturbed(u)'
  BY <1>2 DEF Undisturbed, NodesOf
<1>7. \A q \in Procs : Undisturbed(task[q])'
  BY <1>1, <1>6 DEF CalmInv
<1>8. \A u, v : Apart(u, v) => Apart(u, v)'
  BY DEF Apart
<1>9. \A q, r \in Procs : q # r => Apart(task[q], task[r])'
  BY <1>1, <1>8 DEF CalmInv, Apart
<1>10. CalmInv'
  BY <1>7, <1>9 DEF CalmInv
<1> QED BY <1>1, <1>4, <1>5, <1>10 DEF Allocated

\* No process moves.
LEMMA Stays ==
  ASSUME TaskInv, ListInv, CalmInv, Allocated, UNCHANGED <<nodes, tree, items, task, raced>>
  PROVE  Allocated' /\ TaskInv' /\ ListInv' /\ CalmInv'
<1>1. \A n : ListOf(n)' = ListOf(n) /\ Pids(n)' = Pids(n)
  BY PidsSame
<1>2. TaskInv'
  BY <1>1 DEF TaskInv, Fits
<1>3. ListInv'
  BY <1>1 DEF ListInv, ListedOnce
<1>4. CalmInv'
  BY <1>1 DEF CalmInv, Undisturbed, NodesOf, Apart
<1> QED BY <1>2, <1>3, <1>4 DEF Allocated

\* Listed depends on the lists only through the processes on them.
LEMMA ListedSame ==
  ASSUME Listed, UNCHANGED <<nodes, tree, items>>, raced \subseteq raced',
         \A q \in Procs, k \in Keys : admitted'[q][k] \in {"no", admitted[q][k]}
  PROVE  Listed'
<1>1. \A n : Pids(n)' = Pids(n)
  BY PidsSame
<1> QED BY <1>1 DEF Listed, NodesOf

LEMMA InitInv == Init => IInv
<1> SUFFICES ASSUME Init PROVE IInv
  OBVIOUS
<1> USE DEF Init
<1>1. /\ nodes \in Seq(Node) /\ items \in Seq(Item)
      /\ DOMAIN nodes = {} /\ DOMAIN items = {}
  OBVIOUS
<1>2. \A p \in Procs : task[p] = User
  OBVIOUS
<1>3. Types
  BY <1>1, UserData DEF Types
<1>4. Allocated
  BY <1>1 DEF Allocated
<1>5. TaskInv
  BY <1>2, UserData DEF TaskInv
<1>6. ListInv
  BY <1>1 DEF ListInv, ListedOnce
<1>7. CalmInv
  BY <1>2, UserData DEF CalmInv, Apart
<1>8. Listed /\ TicketInv
  BY <1>2, UserData DEF Listed, TicketInv, TicketedMeet, Out
<1> QED BY <1>3, <1>4, <1>5, <1>6, <1>7, <1>8 DEF IInv
LEMMA WorldInv ==
  ASSUME IInv, \/ \E p \in Procs : taint(p)
               \/ \E k \in Keys : trm_ipc_alloc_security(k) \/ trm_ipc_free_security(k)
  PROVE  IInv'
<1> USE DEF IInv
<1>1. ASSUME NEW p \in Procs, taint(p) PROVE IInv'
  <2> USE <1>1 DEF taint
  <2>1. Types' /\ \A q \in Procs : in_realm[q] => in_realm'[q]
    BY DEF Types
  <2>2. TicketInv'
    BY <2>1 DEF TicketInv, TicketedMeet
  <2> QED BY <2>1, <2>2, Stays, ListedSame DEF Types
<1>2. ASSUME NEW k \in Keys, trm_ipc_alloc_security(k) PROVE IInv'
  <2> USE <1>2 DEF trm_ipc_alloc_security
  <2>1. Types' /\ \A j \in Keys : seg[j] = "realm" => seg'[j] = "realm"
    BY DEF Types
  <2>2. TicketInv'
    BY <2>1 DEF TicketInv, TicketedMeet, TaskInv, Fits
  <2> QED BY <2>1, <2>2, Stays, ListedSame DEF Types
<1>3. ASSUME NEW k \in Keys, trm_ipc_free_security(k) PROVE IInv'
  <2> USE <1>3 DEF trm_ipc_free_security
  <2>1. /\ \A j \in Keys \ {k} : seg'[j] = seg[j]
        /\ seg' \in [Keys -> {"none", "clean", "realm"}]
    BY DEF Types
  <2>2. \A q \in Procs : admitted'[q] = [admitted[q] EXCEPT ![k] = "no"]
    OBVIOUS
  <2>3. \A q \in Procs : /\ admitted'[q] \in [Keys -> {"no", "free", "ticket"}]
                         /\ \A j \in Keys : admitted'[q][j] = IF j = k THEN "no" ELSE admitted[q][j]
    BY <2>2 DEF Types
  <2>4. admitted' \in [Procs -> [Keys -> {"no", "free", "ticket"}]]
    BY <2>3
  <2>5. Types'
    BY <2>1, <2>4 DEF Types
  <2>6. TicketInv'
    BY <2>1, <2>3 DEF TicketInv, TicketedMeet, TaskInv, Fits
  <2>7. Listed'
    BY <2>3, ListedSame
  <2> QED BY <2>5, <2>6, <2>7, Stays
<1> QED BY <1>1, <1>2, <1>3

LEMMA RenewInv ==
  ASSUME IInv, NEW p \in Procs, renew(p) PROVE IInv'
<1> USE DEF IInv, renew
<1>1. /\ \A q \in Procs \ {p} : admitted'[q] = admitted[q] /\ in_realm'[q] = in_realm[q]
      /\ \A k \in Keys : admitted'[p][k] = "no"
      /\ admitted' \in [Procs -> [Keys -> {"no", "free", "ticket"}]]
      /\ in_realm' \in [Procs -> BOOLEAN]
  BY DEF Types
<1>2. /\ task' \in [Procs -> Task]
      /\ Allocated' /\ TaskInv' /\ ListInv' /\ CalmInv'
  <2>1. Undisturbed(User)'
    BY UserData, PTL
  <2> QED BY <2>1, Moves, UserData DEF Goes, Types
<1>3. Types'
  BY <1>1, <1>2 DEF Types
<1>4. task'[p] = User /\ \A q \in Procs \ {p} : task'[q] = task[q]
  BY DEF Types
<1>5. TicketInv'
  BY <1>1, <1>4, UserData DEF TicketInv, TicketedMeet, Out
<1>6. Listed'
  BY <1>1, ListedSame
<1> QED BY <1>2, <1>3, <1>5, <1>6

LEMMA NullInv ==
  ASSUME IInv, NEW p \in Procs, NEW k \in Keys, shm_can_access_null(p, k) PROVE IInv'
<1> USE DEF IInv, shm_can_access_null
<1>1. /\ task' \in [Procs -> Task]
      /\ Allocated' /\ TaskInv' /\ ListInv' /\ CalmInv'
  <2>1. Undisturbed(Dead)'
    BY UserData, PTL
  <2> QED BY <2>1, Moves, UserData DEF Goes, Types
<1>2. Types'
  BY <1>1 DEF Types
<1>3. task'[p] = Dead /\ \A q \in Procs \ {p} : task'[q] = task[q]
  BY DEF Types
<1>4. TicketInv'
  BY <1>3, UserData DEF TicketInv, TicketedMeet, Out
<1> QED BY <1>1, <1>2, <1>4, ListedSame

\* A process enters add_to_shmid; with a ticket, both are in the realm by then.
LEMMA EnterInv ==
  ASSUME IInv, NEW p \in Procs, NEW k \in Keys,
         shm_can_access_free(p, k) \/ shm_can_access_ticket(p, k)
  PROVE  IInv'
<1> USE DEF IInv
<1>1. PICK how \in {"free", "ticket"} :
        /\ Enter(p, k, how)
        /\ how = "ticket" => in_realm'[p] /\ seg'[k] = "realm"
        /\ \A q \in Procs : in_realm[q] => in_realm'[q]
        /\ \A j \in Keys : seg[j] = "realm" => seg'[j] = "realm"
        /\ seg' \in [Keys -> {"none", "clean", "realm"}] /\ in_realm' \in [Procs -> BOOLEAN]
        /\ UNCHANGED <<nodes, tree, items, admitted>>
  BY DEF shm_can_access_free, shm_can_access_ticket, Types
<1> DEFINE t == [User EXCEPT !.pc = "search", !.key = k, !.how = how]
<1>2. /\ t \in Task /\ t.pc = "search" /\ t.key = k /\ t.how = how
      /\ t.node = NULL /\ t.eol = NULL
  BY DEF User, Task
<1>3. Goes(p, t) /\ raced' = IF \E q \in Procs : task[q].key = k THEN raced \union {k} ELSE raced
  BY <1>1 DEF Enter, Goes
<1> HIDE DEF t
<1>4. Fits(p, t)
  BY <1>2 DEF Fits, Out
<1>5. Undisturbed(t)'
  BY <1>2 DEF Undisturbed
<1>6. /\ task' \in [Procs -> Task]
      /\ Allocated' /\ TaskInv' /\ ListInv' /\ CalmInv'
  BY <1>1, <1>2, <1>3, <1>4, <1>5, Moves, SMTT(30) DEF Types
<1>7. Types'
  BY <1>1, <1>3, <1>6 DEF Types
<1>8. task'[p] = t /\ \A q \in Procs \ {p} : task'[q] = task[q]
  BY <1>3 DEF Types, Goes
<1>9. TicketInv'
  BY <1>1, <1>2, <1>8 DEF TicketInv, TicketedMeet, TaskInv, Fits
<1>10. Listed'
  BY <1>1, <1>3, ListedSame
<1> QED BY <1>6, <1>7, <1>9, <1>10
\* A process goes on within add_to_shmid.
LEMMA Within ==
  ASSUME IInv, NEW p \in Procs, NEW t \in Task, Goes(p, t),
         UNCHANGED <<seg, in_realm, nodes, tree, items, admitted>>,
         raced \subseteq raced', raced' \subseteq Keys,
         task[p].pc \notin Out, t.pc \notin Out, t.key = task[p].key, t.how = task[p].how,
         Fits(p, t), Undisturbed(t)',
         t.pc = "link" => \A q \in Procs \ {p} : task[q].pc = "link" =>
                            {t.key, task[q].key} \subseteq raced'
  PROVE  IInv'
<1> USE DEF IInv
<1>1. /\ task' \in [Procs -> Task]
      /\ Allocated' /\ TaskInv' /\ ListInv' /\ CalmInv'
  <2>1. \A q \in Procs \ {p} : t.key = task[q].key => t.key \in raced' \union {NULL}
    BY DEF CalmInv, Apart
  <2> QED BY <2>1, Moves
<1>2. Types'
  BY <1>1 DEF Types
<1>3. task'[p] = t /\ \A q \in Procs \ {p} : task'[q] = task[q]
  BY DEF Types, Goes
<1>4. TicketInv'
  BY <1>3 DEF TicketInv, TicketedMeet
<1> QED BY <1>1, <1>2, <1>4, ListedSame

LEMMA SearchInv ==
  ASSUME IInv, NEW p \in Procs, shmid_search(p) PROVE IInv'
<1> USE DEF IInv, shmid_search
<1>1. PICK n \in NodesOf(task[p].key) : Goes(p, [task[p] EXCEPT !.pc = "scan", !.node = n])
  OBVIOUS
<1> PICK t : t = [task[p] EXCEPT !.pc = "scan", !.node = n]
  OBVIOUS
<1>2. n \in tree /\ n \in DOMAIN nodes /\ n \in Nat /\ nodes[n].key = task[p].key
  BY <1>1 DEF NodesOf, Types
<1>3. /\ t \in Task /\ t.pc = "scan" /\ t.node = n
      /\ t.key = task[p].key /\ t.how = task[p].how /\ t.eol = task[p].eol
  BY <1>2, ZenonT(30) DEF Types, Task
<1>4. Goes(p, t)
  BY <1>1
<1>5. Fits(p, t)
  BY <1>2, <1>3 DEF TaskInv, Fits, Out
<1>6. Undisturbed(t)'
  BY <1>2, <1>3 DEF Undisturbed
<1> QED BY <1>3, <1>4, <1>5, <1>6, Within DEF Out, Types

LEMMA InsertInv ==
  ASSUME IInv, NEW p \in Procs, insert_shmid(p) PROVE IInv'
<1> USE DEF IInv, insert_shmid
<1> PICK t : t = [task[p] EXCEPT !.pc = "link", !.seen = tree]
  OBVIOUS
<1>1. tree \in SUBSET Nat
  BY DEF Types
<1>2. /\ t \in Task /\ t.pc = "link" /\ t.seen = tree
      /\ t.key = task[p].key /\ t.how = task[p].how /\ t.eol = task[p].eol /\ t.node = task[p].node
  BY <1>1 DEF Types, Task
<1>3. Goes(p, t)
  OBVIOUS
<1>4. Fits(p, t)
  BY <1>2 DEF TaskInv, Fits, Out
<1>5. Undisturbed(t)'
  BY <1>2 DEF Undisturbed, NodesOf
<1>6. \A q \in Procs : task[q].pc = "link" => task[q].key \in Keys
  BY DEF TaskInv, Fits, Out
<1>7. task[p].key \in Keys
  BY DEF TaskInv, Fits, Out
<1>8. /\ raced \subseteq raced' /\ raced' \subseteq Keys
      /\ \A q \in Procs : task[q].pc = "link" => {task[p].key, task[q].key} \subseteq raced'
  BY <1>6, <1>7 DEF Types
<1> QED BY <1>2, <1>3, <1>4, <1>5, <1>8, Within DEF Out

LEMMA ScanEndInv ==
  ASSUME IInv, NEW p \in Procs, scan_end(p) PROVE IInv'
<1> USE DEF IInv, scan_end
<1> PICK n, end : n = task[p].node /\ end = EndOf(n)
  OBVIOUS
<1> PICK t : t = [task[p] EXCEPT !.pc = "append", !.eol = end]
  OBVIOUS
<1>1. n \in DOMAIN nodes /\ task[p].key \in Keys
  BY DEF TaskInv, Fits, Out
<1>2. ListOf(n) \subseteq DOMAIN items /\ DOMAIN items \subseteq Nat
  BY <1>1, ListClosed DEF ListsClosed, Types
<1>3. \/ end = NULL /\ ListOf(n) = {}
      \/ end \in ListOf(n) /\ items[end].next = NULL
  BY <1>1, <1>2, EndOnList, SharedMemoryAssumption DEF ListInv
<1>4. /\ t \in Task /\ t.pc = "append" /\ t.eol = end
      /\ t.key = task[p].key /\ t.how = task[p].how /\ t.node = n
  BY <1>2, <1>3, ZenonT(30) DEF Types, Task
<1>5. Goes(p, t)
  OBVIOUS
<1>6. Fits(p, t)
  <2>1. \A m \in DOMAIN nodes \ {n} : end \notin ListOf(m)
    <3>1. \A m \in DOMAIN nodes : NULL \notin ListOf(m)
      BY ListClosed, SharedMemoryAssumption DEF ListsClosed, Types
    <3> QED BY <1>1, <1>3, <3>1 DEF ListInv
  <2> QED BY <1>1, <1>2, <1>3, <1>4, <2>1 DEF TaskInv, Fits, Out
<1>7. Undisturbed(t)'
  BY <1>3, <1>4, PidsSame DEF Undisturbed, CalmInv
<1> QED BY <1>4, <1>5, <1>6, <1>7, Within DEF Out, Types

\* add_to_shmid returns.  A process that it lets in is on the list.
LEMMA ReturnInv ==
  ASSUME IInv, NEW p \in Procs,
         scan_found(p) \/ insert_shmid_exists(p) \/ kzalloc_fails(p)
  PROVE  IInv'
<1> USE DEF IInv
<1>1. /\ Goes(p, User)
      /\ UNCHANGED <<seg, in_realm, nodes, tree, items, raced>>
      /\ task[p].pc \notin Out
      /\ \/ UNCHANGED admitted
         \/ /\ admitted' = [admitted EXCEPT ![p][task[p].key] = task[p].how]
            /\ task[p].pc = "scan" /\ p \in Pids(task[p].node)
  BY DEF scan_found, insert_shmid_exists, kzalloc_fails, Return, Out
<1>2. /\ task' \in [Procs -> Task]
      /\ Allocated' /\ TaskInv' /\ ListInv' /\ CalmInv'
  <2>1. Undisturbed(User)'
    BY UserData, PTL
  <2> QED BY <1>1, <2>1, Moves, UserData DEF Types
<1>3. task[p].key \in Keys /\ task[p].how \in {"free", "ticket"}
  BY <1>1 DEF TaskInv, Fits
<1>4. /\ admitted' \in [Procs -> [Keys -> {"no", "free", "ticket"}]]
      /\ \A q \in Procs, k \in Keys :
           \/ admitted'[q][k] = admitted[q][k]
           \/ /\ q = p /\ k = task[p].key /\ admitted'[q][k] = task[p].how
              /\ task[p].pc = "scan" /\ p \in Pids(task[p].node)
  <2>1. CASE UNCHANGED admitted
    BY <2>1 DEF Types
  <2>2. CASE admitted' = [admitted EXCEPT ![p][task[p].key] = task[p].how]
    <3>1. /\ admitted' \in [Procs -> [Keys -> {"no", "free", "ticket"}]]
          /\ \A q \in Procs, k \in Keys :
               admitted'[q][k] = IF q = p /\ k = task[p].key THEN task[p].how ELSE admitted[q][k]
      BY <2>2, <1>3 DEF Types
    <3> QED BY <3>1, <1>1
  <2> QED BY <1>1, <2>1, <2>2
<1>5. Types'
  BY <1>1, <1>2, <1>4 DEF Types
<1>6. task'[p] = User /\ \A q \in Procs \ {p} : task'[q] = task[q]
  BY <1>1 DEF Types, Goes
<1>7. TicketInv'
  BY <1>1, <1>4, <1>6, UserData DEF TicketInv, TicketedMeet, Out
<1>8. Listed'
  <2>1. \A n : Pids(n)' = Pids(n)
    BY <1>1, PidsSame
  <2>2. task[p].pc = "scan" /\ task[p].key \notin raced => task[p].node \in NodesOf(task[p].key)
    BY DEF CalmInv, Undisturbed, TaskInv, Fits, NodesOf, Out
  <2> QED BY <1>1, <1>4, <2>1, <2>2 DEF Listed, NodesOf
<1> QED BY <1>2, <1>5, <1>7, <1>8
-----------------------------------------------------------------------------
(* Steps that change the tree or the lists.                                *)

LEMMA AddNodeInv ==
  ASSUME IInv, NEW p \in Procs, add_node(p) PROVE IInv'
<1> USE DEF IInv
<1> PICK new : new = Len(nodes) + 1
  OBVIOUS
<1> PICK t : t = [task[p] EXCEPT !.pc = "insert", !.node = new]
  OBVIOUS
<1>0. /\ task[p].pc = "search" /\ NodesOf(task[p].key) = {}
      /\ nodes' = Append(nodes, [key |-> task[p].key, head |-> NULL])
      /\ Goes(p, t)
      /\ UNCHANGED <<seg, in_realm, tree, items, admitted, raced>>
  BY DEF add_node
<1>1. /\ Len(nodes) \in Nat /\ DOMAIN nodes = 1..Len(nodes)
      /\ new \in Nat /\ new \notin DOMAIN nodes
  BY DEF Types
<1>2. task[p].key \in Keys /\ task[p].how \in {"free", "ticket"} /\ task[p].eol = NULL
  BY <1>0 DEF TaskInv, Fits, Out
<1>3. /\ nodes' \in Seq(Node) /\ DOMAIN nodes' = DOMAIN nodes \union {new}
      /\ \A n \in DOMAIN nodes : nodes'[n] = nodes[n]
      /\ nodes'[new].key = task[p].key /\ nodes'[new].head = NULL
  <2>1. [key |-> task[p].key, head |-> NULL] \in Node
    BY <1>2 DEF Node
  <2> QED BY <1>0, <1>1, <2>1 DEF Types
<1>4. /\ t \in Task /\ t.pc = "insert" /\ t.node = new
      /\ t.key = task[p].key /\ t.how = task[p].how /\ t.eol = task[p].eol
  <2>1. task[p] \in Task
    BY Zenon DEF Types
  <2> QED BY <1>1, <2>1, ZenonT(30) DEF Task
<1>6. /\ task' \in [Procs -> Task] /\ task'[p] = t
      /\ \A q \in Procs \ {p} : task'[q] = task[q]
  BY <1>0, <1>4 DEF Types, Goes
<1>7. Types' /\ Allocated'
  BY <1>0, <1>3, <1>6 DEF Types, Allocated
<1>8. /\ \A n \in DOMAIN nodes : ListOf(n)' = ListOf(n) /\ Pids(n)' = Pids(n)
      /\ ListOf(new)' = {}
  <2>1. \A n \in DOMAIN nodes : ListOf(n)' = ListOf(n)
    BY <1>0, <1>3, ListSame
  <2>2. Closed({})'
    BY DEF Closed
  <2>3. ListOf(new)' = {}
    BY <1>0, <1>3, <2>2 DEF ListOf
  <2> QED BY <1>0, <2>1, <2>3 DEF Pids
<1>9. TaskInv'
  <2>1. Fits(p, t)'
    BY <1>2, <1>3, <1>4 DEF Fits, Out
  <2>2. ASSUME NEW q \in Procs \ {p} PROVE Fits(q, task[q])'
    <3> PICK u : u = task[q]
      OBVIOUS
    <3>1. Fits(q, u)
      BY DEF TaskInv
    <3>2. u.eol \notin ListOf(new)'
      BY <1>8
    <3>3. Fits(q, u)'
      BY <1>0, <1>3, <1>8, <3>1, <3>2 DEF Fits, Out
    <3> QED BY <1>6, <3>3
  <2> QED BY <1>6, <2>1, <2>2 DEF TaskInv
<1>10. ListInv'
  BY <1>0, <1>3, <1>8 DEF ListInv, ListedOnce
<1>11. \A k : NodesOf(k)' = NodesOf(k)
  BY <1>0, <1>3 DEF NodesOf, Types
<1>12. CalmInv'
  <2>1. Undisturbed(t)'
    BY <1>0, <1>4, <1>11 DEF Undisturbed
  <2>2. ASSUME NEW q \in Procs \ {p} PROVE Undisturbed(task[q])'
    <3> PICK u : u = task[q]
      OBVIOUS
    <3>1. Undisturbed(u) /\ Fits(q, u)
      BY DEF CalmInv, TaskInv
    <3>2. u.pc = "link" => \A n \in tree \ u.seen : nodes'[n].key \in raced
      BY <3>1, <1>3 DEF Undisturbed, Types
    <3>3. u.pc = "append" => ListOf(u.node)' = ListOf(u.node)
      BY <3>1, <1>8 DEF Fits, Out
    <3>4. Undisturbed(u)'
      BY <3>1, <3>2, <3>3, <1>0, <1>11 DEF Undisturbed
    <3> QED BY <1>6, <3>4
  <2>3. \A q, r \in Procs : q # r => Apart(task[q], task[r])'
    <3>1. \A u, v : Apart(u, v) => Apart(u, v)'
      BY <1>0 DEF Apart
    <3>2. \A q \in Procs \ {p} : Apart(t, task[q]) /\ Apart(task[q], t)
      BY <1>4 DEF CalmInv, Apart
    <3>3. \A q, r \in Procs : q # r => Apart(task'[q], task'[r])
      BY <3>2, <1>6 DEF CalmInv
    <3> QED BY <3>1, <3>3
  <2>4. \A m, n \in tree : nodes'[m].key = nodes'[n].key /\ m # n => nodes'[m].key \in raced
    BY <1>3 DEF CalmInv, Types
  <2> QED BY <1>0, <1>6, <2>1, <2>2, <2>3, <2>4 DEF CalmInv
<1>13. TicketInv'
  <2>1. \A q \in Procs : task'[q].pc \notin Out =>
          /\ task[q].pc \notin Out
          /\ task'[q].how = task[q].how /\ task'[q].key = task[q].key
    BY <1>0, <1>4, <1>6 DEF Out
  <2> QED BY <2>1, <1>0 DEF TicketInv, TicketedMeet
<1>14. Listed'
  <2>1. \A k : \A n \in NodesOf(k) : n \in DOMAIN nodes
    BY DEF NodesOf, Types
  <2>2. \A q \in Procs, k \in Keys : admitted'[q][k] # "no" /\ k \notin raced'
          => \E n \in NodesOf(k) : q \in Pids(n)
    BY <1>0 DEF Listed
  <2>3. \A q \in Procs, k \in Keys : admitted'[q][k] # "no" /\ k \notin raced'
          => \E n \in NodesOf(k)' : q \in Pids(n)'
    BY <1>8, <1>11, <2>1, <2>2
  <2> QED BY <2>3 DEF Listed
<1> QED BY <1>7, <1>9, <1>10, <1>12, <1>13, <1>14

LEMMA LinkInv ==
  ASSUME IInv, NEW p \in Procs, rb_link_node(p) PROVE IInv'
<1> USE DEF IInv, rb_link_node
<1> PICK t : t = [task[p] EXCEPT !.pc = "scan", !.seen = {}]
  OBVIOUS
<1>1. /\ task[p].key \in Keys /\ task[p].node \in DOMAIN nodes
      /\ nodes[task[p].node].key = task[p].key
  BY DEF TaskInv, Fits, Out
<1>2. /\ t \in Task /\ t.pc = "scan" /\ t.node = task[p].node
      /\ t.key = task[p].key /\ t.how = task[p].how /\ t.eol = task[p].eol
  BY ZenonT(30) DEF Types, Task
<1>3. Goes(p, t)
  OBVIOUS
<1>4. /\ task' \in [Procs -> Task] /\ task'[p] = t
      /\ \A q \in Procs \ {p} : task'[q] = task[q]
  BY <1>2, <1>3 DEF Types, Goes
<1>5. /\ tree' \subseteq tree \union {task[p].node} /\ task[p].node \in tree'
      /\ \A n \in tree \ tree' : nodes[n].key \in raced
  BY DEF CalmInv, Undisturbed
<1>6. Types' /\ Allocated'
  BY <1>1, <1>4, <1>5 DEF Types, Allocated
<1>7. \A n : ListOf(n)' = ListOf(n) /\ Pids(n)' = Pids(n)
  BY PidsSame
<1>8. TaskInv'
  <2>1. \A q, u : Fits(q, u) => Fits(q, u)'
    BY <1>7 DEF Fits
  <2>2. Fits(p, t)
    BY <1>1, <1>2 DEF TaskInv, Fits, Out
  <2> QED BY <1>4, <2>1, <2>2 DEF TaskInv
<1>9. ListInv'
  BY <1>7 DEF ListInv, ListedOnce
<1>10. CalmInv'
  <2>1. Undisturbed(t)'
    BY <1>2, <1>5 DEF Undisturbed
  <2>2. ASSUME NEW q \in Procs \ {p} PROVE Undisturbed(task[q])'
    <3> PICK u : u = task[q]
      OBVIOUS
    <3>1. Undisturbed(u) /\ Apart(task[p], u) /\ Fits(q, u)
      BY DEF CalmInv, TaskInv
    <3>2. u.pc = "link" => \A n \in tree' \ u.seen : nodes[n].key \in raced
      BY <3>1, <1>1, <1>5 DEF Undisturbed, Apart
    <3>3. u.pc \in {"insert", "link"} => NodesOf(u.key)' = {} \/ u.key \in raced
      BY <3>1, <1>1, <1>5, SharedMemoryAssumption DEF Undisturbed, Apart, NodesOf
    <3>4. u.pc \in {"scan", "append"} => u.node \in tree' \/ u.key \in raced
      BY <3>1, <1>5 DEF Undisturbed, Fits, Out
    <3>5. Undisturbed(u)'
      BY <3>1, <3>2, <3>3, <3>4, <1>7 DEF Undisturbed
    <3> QED BY <1>4, <3>5
  <2>3. \A q, r \in Procs : q # r => Apart(task[q], task[r])'
    <3>1. \A u, v : Apart(u, v) => Apart(u, v)'
      BY DEF Apart
    <3>2. \A q \in Procs \ {p} : Apart(t, task[q]) /\ Apart(task[q], t)
      BY <1>2 DEF CalmInv, Apart
    <3>3. \A q, r \in Procs : q # r => Apart(task'[q], task'[r])
      BY <3>2, <1>4 DEF CalmInv
    <3> QED BY <3>1, <3>3
  <2>4. \A m, n \in tree' : nodes[m].key = nodes[n].key /\ m # n => nodes[m].key \in raced
    BY <1>1, <1>5 DEF CalmInv, Undisturbed, NodesOf
  <2> QED BY <1>4, <2>1, <2>2, <2>3, <2>4 DEF CalmInv
<1>11. TicketInv'
  <2>1. \A q \in Procs : task'[q].pc \notin Out =>
          /\ task[q].pc \notin Out
          /\ task'[q].how = task[q].how /\ task'[q].key = task[q].key
    BY <1>2, <1>4 DEF Out
  <2> QED BY <2>1 DEF TicketInv, TicketedMeet
<1>12. Listed'
  BY <1>5, <1>7 DEF Listed, NodesOf
<1> QED BY <1>6, <1>8, <1>9, <1>10, <1>11, <1>12
\* What add_pid does to the nodes and the items.
LEMMA AddPidData ==
  ASSUME IInv, NEW p \in Procs, add_pid(p)
  PROVE  /\ nodes' \in Seq(Node) /\ items' \in Seq(Item) /\ Allocated'
         /\ DOMAIN nodes' = DOMAIN nodes
         /\ DOMAIN items' = DOMAIN items \union {Len(items) + 1}
         /\ Len(items) + 1 \in Nat \ DOMAIN items
         /\ \A n \in DOMAIN nodes : nodes'[n].key = nodes[n].key
         /\ \A i \in DOMAIN items : items'[i].pid = items[i].pid
         /\ \A i \in DOMAIN items \ {task[p].eol} : items'[i].next = items[i].next
         /\ items'[Len(items) + 1] = [pid |-> p, next |-> NULL]
<1> USE DEF IInv, add_pid
<1> DEFINE all == Append(items, [pid |-> p, next |-> NULL])
<1> PICK new : new = Len(items) + 1
  OBVIOUS
<1>1. /\ Len(items) \in Nat /\ DOMAIN items = 1..Len(items)
      /\ new \in Nat /\ new \notin DOMAIN items
  BY DEF Types
<1>2. [pid |-> p, next |-> NULL] \in Item
  BY DEF Item
<1>3. /\ all \in Seq(Item) /\ DOMAIN all = DOMAIN items \union {new}
      /\ \A i \in DOMAIN items : all[i] = items[i]
      /\ all[new] = [pid |-> p, next |-> NULL]
  BY <1>1, <1>2 DEF Types
<1>4. task[p].node \in DOMAIN nodes /\ (task[p].eol # NULL => task[p].eol \in DOMAIN items)
  BY DEF TaskInv, Fits, Out
<1>5. CASE task[p].eol = NULL
  <2>1. items' = all /\ nodes' = [nodes EXCEPT ![task[p].node].head = new]
    BY <1>5
  <2> HIDE DEF all, add_pid
  <2>2. nodes[task[p].node] \in Node
    BY <1>4 DEF Types
  <2> PICK r : r = [nodes[task[p].node] EXCEPT !.head = new]
    OBVIOUS
  <2>3. r \in Node /\ r.head = new /\ r.key = nodes[task[p].node].key
    BY <2>2, <1>1 DEF Node
  <2>4. /\ nodes' \in Seq(Node) /\ DOMAIN nodes' = DOMAIN nodes
        /\ \A n \in DOMAIN nodes : nodes'[n] = IF n = task[p].node THEN r ELSE nodes[n]
    <3>1. nodes' = [nodes EXCEPT ![task[p].node] = r]
      BY <2>1
    <3> QED BY <2>3, <3>1, <1>4 DEF Types
  <2>5. \A n \in DOMAIN nodes : /\ nodes'[n].key = nodes[n].key
                               /\ nodes'[n].head \in {nodes[n].head, new}
    BY <2>3, <2>4
  <2>6. Allocated'
    BY <2>1, <2>4, <2>5, <1>3 DEF Allocated
  <2> QED BY <1>1, <1>3, <2>1, <2>4, <2>5, <2>6
<1>6. CASE task[p].eol # NULL
  <2>1. nodes' = nodes /\ items' = [all EXCEPT ![task[p].eol].next = new]
    BY <1>6
  <2> HIDE DEF all, add_pid
  <2>2. task[p].eol \in DOMAIN items /\ items[task[p].eol] \in Item
    BY <1>4, <1>6 DEF Types
  <2> PICK r : r = [all[task[p].eol] EXCEPT !.next = new]
    OBVIOUS
  <2>3. r \in Item /\ r.next = new /\ r.pid = items[task[p].eol].pid
    BY <2>2, <1>1, <1>3 DEF Item
  <2>4. /\ items' \in Seq(Item) /\ DOMAIN items' = DOMAIN all
        /\ \A i \in DOMAIN all : items'[i] = IF i = task[p].eol THEN r ELSE all[i]
    <3>1. items' = [all EXCEPT ![task[p].eol] = r]
      BY <2>1
    <3>2. DOMAIN all = 1..Len(all) /\ Len(all) \in Nat /\ \A i \in DOMAIN all : all[i] \in Item
      <4>1. all \in Seq(Item)
        BY <1>3
      <4> HIDE DEF IInv
      <4> QED BY <4>1
    <3>3. /\ DOMAIN items' = DOMAIN all
          /\ \A i \in DOMAIN all : items'[i] = IF i = task[p].eol THEN r ELSE all[i]
      BY <3>1
    <3>4. items' = [i \in 1..Len(all) |-> IF i = task[p].eol THEN r ELSE all[i]]
      BY <3>1, <3>2
    <3>5. items' \in Seq(Item)
      BY <3>2, <3>4, <2>3
    <3> QED BY <3>3, <3>5
  <2>5. /\ \A i \in DOMAIN items : items'[i].pid = items[i].pid
        /\ \A i \in DOMAIN items \ {task[p].eol} : items'[i].next = items[i].next
        /\ items'[task[p].eol].next = new
        /\ items'[new] = [pid |-> p, next |-> NULL]
    BY <2>2, <2>3, <2>4, <1>1, <1>3
  <2>6. Allocated'
    BY <2>1, <2>2, <2>4, <2>5, <1>3 DEF Allocated
  <2> QED BY <1>1, <1>3, <2>1, <2>4, <2>5, <2>6 DEF Types
<1> QED BY <1>5, <1>6

\* What add_pid does to the lists: the list of the node gets the new item, or
\* stays as it is when the end that the process found has been cut off; it loses
\* nothing when no other insertion for the key overlapped.
LEMMA AddPidLists ==
  ASSUME IInv, NEW p \in Procs, add_pid(p),
         NEW h, h = task[p].node
  PROVE  /\ \A n \in DOMAIN nodes \ {h} : ListOf(n)' = ListOf(n)
         /\ ListOf(h)' \subseteq ListOf(h) \union {Len(items) + 1}
         /\ \/ Len(items) + 1 \in ListOf(h)'
            \/ /\ ListOf(h)' = ListOf(h)
               /\ task[p].eol \notin ListOf(h)
         /\ task[p].key \notin raced =>
              ListOf(h)' = ListOf(h) \union {Len(items) + 1}
<1> USE DEF IInv
<1>1. /\ task[p].pc = "append" /\ Fits(p, task[p]) /\ Undisturbed(task[p])
      /\ h \in DOMAIN nodes
  BY DEF add_pid, TaskInv, Fits, CalmInv, Out
<1>2. Allocated'
  BY AddPidData
<1>3. CASE task[p].eol = NULL
  <2>1. \A n \in DOMAIN nodes :
          ListOf(n)' = IF n = h THEN {Len(items) + 1} ELSE ListOf(n)
    BY <1>1, <1>2, <1>3, AddPidFirst DEF add_pid
  <2>2. NULL \notin ListOf(h)
    BY <1>1, ListClosed, SharedMemoryAssumption DEF ListsClosed, Types
  <2> QED BY <1>1, <1>3, <2>1, <2>2 DEF Undisturbed
<1>4. CASE task[p].eol # NULL
  <2> PICK eol : eol = task[p].eol
    OBVIOUS
  <2>1. eol \in DOMAIN items
    BY <1>1, <1>4 DEF Fits
  <2>2. \A n \in DOMAIN nodes :
          IF eol \in ListOf(n)
          THEN /\ Len(items) + 1 \in ListOf(n)'
               /\ ListOf(n)' \subseteq ListOf(n) \union {Len(items) + 1}
               /\ items[eol].next = NULL => ListOf(n) \subseteq ListOf(n)'
          ELSE ListOf(n)' = ListOf(n)
    BY <1>2, <1>4, <2>1, AddPidAfter DEF add_pid
  <2>3. \A m \in DOMAIN nodes \ {h} : eol \notin ListOf(m)
    BY <1>1 DEF Fits
  <2>4. task[p].key \notin raced => eol \in ListOf(h) /\ items[eol].next = NULL
    BY <1>1, <1>4, SMTT(30) DEF Undisturbed
  <2> QED BY <1>1, <2>2, <2>3, <2>4
<1> QED BY <1>3, <1>4
LEMMA AddPidInv ==
  ASSUME IInv, NEW p \in Procs, add_pid(p) PROVE IInv'
<1> PICK h, eol, key, new : /\ h = task[p].node /\ eol = task[p].eol
                            /\ key = task[p].key /\ new = Len(items) + 1
  OBVIOUS
<1> USE DEF IInv
<1>1. /\ task[p].pc = "append" /\ Fits(p, task[p]) /\ Undisturbed(task[p])
      /\ h \in DOMAIN nodes /\ nodes[h].key = key /\ key \in Keys
      /\ task[p].how \in {"free", "ticket"}
      /\ p \notin Pids(h)
  BY DEF add_pid, TaskInv, Fits, CalmInv, Out
<1>2. /\ nodes' \in Seq(Node) /\ items' \in Seq(Item) /\ Allocated'
      /\ DOMAIN nodes' = DOMAIN nodes
      /\ DOMAIN items' = DOMAIN items \union {new} /\ new \notin DOMAIN items /\ new \in Nat
      /\ \A n \in DOMAIN nodes : nodes'[n].key = nodes[n].key
      /\ \A i \in DOMAIN items : items'[i].pid = items[i].pid
      /\ \A i \in DOMAIN items \ {eol} : items'[i].next = items[i].next
      /\ items'[new].pid = p /\ items'[new].next = NULL
  <2> HIDE DEF IInv
  <2>1. /\ nodes' \in Seq(Node) /\ items' \in Seq(Item) /\ Allocated'
        /\ DOMAIN nodes' = DOMAIN nodes
        /\ DOMAIN items' = DOMAIN items \union {Len(items) + 1}
        /\ Len(items) + 1 \in Nat \ DOMAIN items
    BY AddPidData, Zenon
  <2>2. /\ \A n \in DOMAIN nodes : nodes'[n].key = nodes[n].key
        /\ \A i \in DOMAIN items : items'[i].pid = items[i].pid
        /\ \A i \in DOMAIN items \ {task[p].eol} : items'[i].next = items[i].next
    BY AddPidData, Zenon
  <2>3. items'[Len(items) + 1] = [pid |-> p, next |-> NULL]
    BY AddPidData, Zenon
  <2>4. items'[new].pid = p /\ items'[new].next = NULL
    BY <2>3
  <2> QED BY <2>1, <2>2, <2>4
<1>3. /\ \A n \in DOMAIN nodes \ {h} : ListOf(n)' = ListOf(n)
      /\ ListOf(h)' \subseteq ListOf(h) \union {new}
      /\ new \in ListOf(h)' \/ (ListOf(h)' = ListOf(h) /\ eol \notin ListOf(h))
      /\ key \notin raced => ListOf(h)' = ListOf(h) \union {new}
  BY AddPidLists, Zenon
<1>4. \A n \in DOMAIN nodes : ListOf(n) \subseteq DOMAIN items
  BY ListClosed DEF ListsClosed
<1>5. \A m \in DOMAIN nodes \ {h} : eol \notin ListOf(m)
  BY <1>1 DEF Fits
<1>6. /\ Goes(p, User)
      /\ admitted' = [admitted EXCEPT ![p][key] = task[p].how]
      /\ UNCHANGED <<seg, in_realm, tree, raced>>
  BY DEF add_pid, Return
<1>7. /\ task' \in [Procs -> Task] /\ task'[p] = User
      /\ \A q \in Procs \ {p} : task'[q] = task[q]
  BY <1>6, UserData DEF Types, Goes
<1>8. /\ admitted' \in [Procs -> [Keys -> {"no", "free", "ticket"}]]
      /\ \A q \in Procs, k \in Keys :
           admitted'[q][k] = IF q = p /\ k = key THEN task[p].how ELSE admitted[q][k]
  BY <1>1, <1>6, SMTT(30) DEF Types
<1>9. Types'
  BY <1>2, <1>6, <1>7, <1>8, SMTT(30) DEF Types
<1>10. /\ \A n \in DOMAIN nodes \ {h} : Pids(n)' = Pids(n)
       /\ Pids(h)' \subseteq Pids(h) \union {p}
       /\ key \notin raced => Pids(h)' = Pids(h) \union {p}
  BY <1>1, <1>2, <1>3, <1>4, SMTT(30) DEF Pids
<1>11. TaskInv'
  <2>1. ASSUME NEW q \in Procs \ {p} PROVE Fits(q, task[q])'
    <3> PICK u : u = task[q]
      OBVIOUS
    <3>1. Fits(q, u)
      BY DEF TaskInv
    <3>2. u.eol # NULL => u.eol # new
      BY <3>1, <1>2 DEF Fits
    <3>3. NULL # new
      BY <1>2, SharedMemoryAssumption, SMTT(30)
    <3>4. u.pc = "append" => /\ q \notin Pids(u.node)'
                             /\ \A m \in DOMAIN nodes \ {u.node} : u.eol \notin ListOf(m)'
      BY <1>1, <1>3, <1>10, <3>1, <3>2, <3>3, SMTT(30) DEF Fits, Out
    <3>5. Fits(q, u)'
      BY <1>2, <3>1, <3>4, SMTT(30) DEF Fits, Out
    <3> QED BY <1>7, <3>5
  <2>2. Fits(p, User)'
    BY DEF User, Fits, Out
  <2> QED BY <1>7, <2>1, <2>2 DEF TaskInv
<1>12. ListInv'
  <2>1. ASSUME NEW n \in DOMAIN nodes, ListOf(n)' # {}
        PROVE  \E i \in ListOf(n)' : items'[i].next = NULL
    <3>1. CASE n = h /\ new \in ListOf(n)'
      BY <3>1, <1>2
    <3>2. CASE ~(n = h /\ new \in ListOf(n)')
      <4>1. ListOf(n)' = ListOf(n) /\ eol \notin ListOf(n)
        BY <3>2, <1>3, <1>5
      <4>2. PICK i \in ListOf(n) : items[i].next = NULL
        BY <4>1, <2>1 DEF ListInv, ListedOnce
      <4>3. i \in DOMAIN items \ {eol}
        BY <4>1, <4>2, <1>4
      <4>4. items'[i].next = NULL
        BY <4>2, <4>3, <1>2
      <4> QED BY <4>1, <4>2, <4>4
    <3> QED BY <3>1, <3>2
  <2>2. ASSUME NEW n \in DOMAIN nodes, NEW i \in ListOf(n)', NEW j \in ListOf(n)',
               items'[i].pid = items'[j].pid
        PROVE  i = j
    <3>1. CASE n # h
      BY <2>2, <3>1, <1>2, <1>3, <1>4 DEF ListInv, ListedOnce
    <3>2. CASE n = h
      <4>1. \A x \in ListOf(h) : items[x].pid # p
        BY <1>1 DEF Pids
      <4>2. \A x, y \in ListOf(h) : items[x].pid = items[y].pid => x = y
        BY <1>1 DEF ListInv, ListedOnce
      <4>3. \A x \in ListOf(h) : items'[x].pid = items[x].pid
        BY <1>1, <1>2, <1>4
      <4>4. i \in ListOf(h) \union {new} /\ j \in ListOf(h) \union {new}
        BY <2>2, <3>2, <1>3
      <4>5. items'[new].pid = p
        BY <1>2
      <4> QED BY <2>2, <4>1, <4>2, <4>3, <4>4, <4>5
    <3> QED BY <3>1, <3>2
  <2>3. ListedOnce'
    BY <2>1, <2>2, <1>2 DEF ListedOnce
  <2>4. \A m, n \in DOMAIN nodes : m # n => ListOf(m)' \intersect ListOf(n)' = {}
    BY <1>2, <1>3, <1>4 DEF ListInv
  <2> QED BY <2>3, <2>4, <1>2 DEF ListInv
<1>13. \A k : NodesOf(k)' = NodesOf(k)
  BY <1>2, <1>6 DEF NodesOf, Types
<1>14. CalmInv'
  <2>1. ASSUME NEW q \in Procs \ {p} PROVE Undisturbed(task[q])'
    <3> PICK u : u = task[q]
      OBVIOUS
    <3>1. Undisturbed(u) /\ Apart(task[p], u) /\ Fits(q, u)
      BY DEF CalmInv, TaskInv
    <3>2. ASSUME u.pc = "append", u.key \notin raced
          PROVE  \/ u.eol = NULL /\ ListOf(u.node)' = {}
                 \/ u.eol \in ListOf(u.node)' /\ items'[u.eol].next = NULL
      <4>1. u.key # key /\ u.node \in DOMAIN nodes /\ nodes[u.node].key = u.key
        BY <3>1, <3>2, <1>1, SharedMemoryAssumption, SMTT(30) DEF Apart, Fits, Out
      <4>2. ListOf(u.node)' = ListOf(u.node) /\ eol \notin ListOf(u.node)
        BY <4>1, <1>1, <1>3, <1>5, SMTT(30)
      <4> QED BY <3>1, <3>2, <4>1, <4>2, <1>2, <1>4, SMTT(30) DEF Undisturbed
    <3>3. u.pc = "link" => \A n \in tree \ u.seen : nodes'[n].key \in raced
      BY <3>1, <1>2 DEF Undisturbed, Types
    <3>4. Undisturbed(u)'
      BY <3>1, <3>2, <3>3, <1>6, <1>13 DEF Undisturbed
    <3> QED BY <1>7, <3>4
  <2>2. Undisturbed(User)'
    BY UserData, PTL
  <2>3. \A q, r \in Procs : q # r => Apart(task[q], task[r])'
    BY <1>6, <1>7, UserData DEF CalmInv, Apart
  <2>4. \A m, n \in tree : nodes'[m].key = nodes'[n].key /\ m # n => nodes'[m].key \in raced
    BY <1>2 DEF CalmInv, Types
  <2> QED BY <1>6, <1>7, <2>1, <2>2, <2>3, <2>4 DEF CalmInv
<1>15. TicketInv'
  BY <1>1, <1>6, <1>7, <1>8, UserData DEF TicketInv, TicketedMeet, Out
<1>16. Listed'
  <2>1. ASSUME NEW q \in Procs, NEW k \in Keys, admitted'[q][k] # "no", k \notin raced
        PROVE  \E n \in NodesOf(k) : q \in Pids(n)'
    <3>1. CASE q = p /\ k = key
      <4>1. h \in NodesOf(k)
        BY <3>1, <2>1, <1>1, SMTT(30) DEF Undisturbed, NodesOf
      <4> QED BY <3>1, <4>1, <2>1, <1>10
    <3>2. CASE ~(q = p /\ k = key)
      <4>1. PICK n \in NodesOf(k) : q \in Pids(n)
        BY <3>2, <2>1, <1>8 DEF Listed
      <4>2. n \in DOMAIN nodes /\ nodes[n].key = k
        BY <4>1 DEF NodesOf, Types
      <4> QED BY <4>1, <4>2, <2>1, <1>1, <1>10, SMTT(30)
    <3> QED BY <3>1, <3>2
  <2> QED BY <2>1, <1>6, <1>13 DEF Listed
<1> QED BY <1>2, <1>9, <1>11, <1>12, <1>14, <1>15, <1>16

-----------------------------------------------------------------------------
(* The results.                                                            *)

LEMMA Inductive == IInv /\ [Next]_vars => IInv'
<1> SUFFICES ASSUME IInv, [Next]_vars PROVE IInv'
  OBVIOUS
<1>1. CASE UNCHANGED vars
  <2>1. UNCHANGED <<nodes, tree, items, task, raced, seg, in_realm, admitted>>
    BY <1>1 DEF vars
  <2>2. Types' /\ TicketInv'
    BY <2>1 DEF IInv, Types, TicketInv, TicketedMeet
  <2> QED BY <2>1, <2>2, Stays, ListedSame DEF IInv
<1>2. CASE Next
  BY <1>2, WorldInv, RenewInv, NullInv, EnterInv, SearchInv, InsertInv, ScanEndInv, ReturnInv,
     AddNodeInv, LinkInv, AddPidInv DEF Next
<1> QED BY <1>1, <1>2

LEMMA Invariance == Spec => []IInv
BY InitInv, Inductive, PTL DEF Spec

\* The state of the kernel's lists and hooks keeps its type, and every pointer
\* that add_to_shmid follows points to a node or an item that was allocated.
THEOREM TypeCorrect == Spec => []TypeOK
<1>1. IInv => TypeOK
  <2> SUFFICES ASSUME IInv PROVE TypeOK
    OBVIOUS
  <2>1. Types /\ Allocated /\ TaskInv
    BY DEF IInv
  <2>2. \A n \in DOMAIN nodes : nodes[n].key \in Keys
    <3>1. \A n \in DOMAIN nodes : nodes[n] \in Node
      BY <2>1 DEF Types
    <3> QED BY <3>1 DEF Node
  <2>3. \A i \in DOMAIN items : items[i].pid \in Procs
    <3>1. \A i \in DOMAIN items : items[i] \in Item
      BY <2>1 DEF Types
    <3> QED BY <3>1 DEF Item
  <2>4. ASSUME NEW p \in Procs
        PROVE  /\ task[p].key \in Keys \union {NULL}
               /\ task[p].node \in {NULL} \union DOMAIN nodes
               /\ task[p].eol \in {NULL} \union DOMAIN items
    <3>1. Fits(p, task[p])
      BY <2>1 DEF TaskInv
    <3> QED BY <3>1 DEF Fits
  <2> QED BY <2>1, <2>2, <2>3, <2>4 DEF Types, Allocated, TypeOK
<1> QED BY <1>1, Invariance, PTL

\* add_to_shmid lists no process twice under a key and makes no cycle, however
\* many processes are in it at the same time.
THEOREM ListsAreSets == Spec => []ListedOnce
<1>1. IInv => ListedOnce
  BY DEF IInv, ListInv
<1> QED BY <1>1, Invariance, PTL

\* add_to_shmid lists every process it lets in, unless insertions overlapped.
THEOREM AdmittedAreListed == Spec => []Listed
<1>1. IInv => Listed
  BY DEF IInv
<1> QED BY <1>1, Invariance, PTL

\* shm_can_access leaves no process with a ticket out of the realm, and no
\* segment that one was let in to.
THEOREM TicketsMeet == Spec => []TicketedMeet
<1>1. IInv => TicketedMeet
  BY DEF IInv, TicketInv
<1> QED BY <1>1, Invariance, PTL
=============================================================================
