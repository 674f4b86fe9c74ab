---------------------------- MODULE SharedMemory ----------------------------
(***************************************************************************)
(* Shared memory segments in the kernel: the hooks of shmget, shmat and    *)
(* shmctl, which all ask shm_can_access, and the lists of the processes    *)
(* that were let in, one for each key, in a tree.  The lists have no lock, *)
(* and allocation can sleep, so processes interleave within add_to_shmid.  *)
(* A node in the tree and the items of its list are never freed.           *)
(*                                                                         *)
(* What is on the ring of a process when it asks is the matter of module   *)
(* TicketRing; here a search can find a ticket, find none, or find that    *)
(* there is no ring.                                                       *)
(***************************************************************************)
EXTENDS Integers, Sequences, FiniteSets

CONSTANTS
  Procs,
  Citadel,   \* the process of the daemon
  Keys,
  NULL,
  MaxNodes,  \* bound on the nodes allocated
  MaxItems   \* bound on the list items allocated

ASSUME SharedMemoryAssumption ==
  /\ MaxNodes \in Nat /\ MaxItems \in Nat
  /\ NULL \notin Nat \union Keys

VARIABLES
  seg,       \* the segment of a key: "none", "clean", or in the "realm"
  in_realm,  \* in_realm of a process
  nodes,     \* citadel_shm_node_t, in the order of allocation
  tree,      \* shm_pool: the nodes that a search can reach
  items,     \* citadel_shm_pid_t, in the order of allocation
  task,      \* where a process is in add_to_shmid, and its local variables
  admitted,  \* history: how a process was let in to the segment of a key
  raced      \* history: the keys whose insertions have overlapped

vars == <<seg, in_realm, nodes, tree, items, task, admitted, raced>>

User == [pc |-> "user", key |-> NULL, how |-> NULL, node |-> NULL, eol |-> NULL, seen |-> {}]
Dead == [User EXCEPT !.pc = "dead"]

Init ==
  /\ seg = [k \in Keys |-> "none"]
  /\ in_realm = [p \in Procs |-> FALSE]
  /\ nodes = <<>> /\ tree = {} /\ items = <<>>
  /\ task = [p \in Procs |-> User]
  /\ admitted = [p \in Procs |-> [k \in Keys |-> "no"]]
  /\ raced = {}

-----------------------------------------------------------------------------
(* Processes and segments.                                                 *)

\* A process reads something of the realm.
taint(p) ==
  /\ task[p].pc = "user" /\ ~in_realm[p]
  /\ in_realm' = [in_realm EXCEPT ![p] = TRUE]
  /\ UNCHANGED <<seg, nodes, tree, items, task, admitted, raced>>

\* A process ends, which detaches its segments, and a new one gets its number.
\* It stays on the lists.
renew(p) ==
  /\ task[p].pc \in {"user", "dead"}
  /\ in_realm' = [in_realm EXCEPT ![p] = FALSE]
  /\ task' = [task EXCEPT ![p] = User]
  /\ admitted' = [admitted EXCEPT ![p] = [k \in Keys |-> "no"]]
  /\ UNCHANGED <<seg, nodes, tree, items, raced>>

\* shmget makes a segment; the hooks are not asked.
trm_ipc_alloc_security(k) ==
  /\ seg[k] = "none"
  /\ seg' = [seg EXCEPT ![k] = "clean"]
  /\ UNCHANGED <<in_realm, nodes, tree, items, task, admitted, raced>>

\* The segment goes, when no process is in a hook for it; its list stays.
trm_ipc_free_security(k) ==
  /\ seg[k] # "none" /\ \A p \in Procs : task[p].key # k
  /\ seg' = [seg EXCEPT ![k] = "none"]
  /\ admitted' = [p \in Procs |-> [admitted[p] EXCEPT ![k] = "no"]]
  /\ UNCHANGED <<in_realm, nodes, tree, items, task, raced>>

-----------------------------------------------------------------------------
(* The hooks.                                                              *)

\* p enters add_to_shmid for k.
Enter(p, k, how) ==
  /\ task' = [task EXCEPT ![p] = [User EXCEPT !.pc = "search", !.key = k, !.how = how]]
  /\ raced' = IF \E q \in Procs : task[q].key = k THEN raced \union {k} ELSE raced

\* Neither is in the realm, or the process is the daemon.
shm_can_access_free(p, k) ==
  /\ task[p].pc = "user" /\ seg[k] # "none"
  /\ \/ ~in_realm[p] /\ seg[k] = "clean"
     \/ p = Citadel
  /\ Enter(p, k, "free")
  /\ UNCHANGED <<seg, in_realm, nodes, tree, items, admitted>>

NeedsTicket(p, k) ==
  /\ task[p].pc = "user" /\ seg[k] # "none"
  /\ in_realm[p] \/ seg[k] = "realm"
  /\ p # Citadel

\* Mutant of shm_can_access_ticket: the segment is not brought into the realm.
ticket_one_way(p, k) ==
  /\ NeedsTicket(p, k)
  /\ in_realm' = [in_realm EXCEPT ![p] = @ \/ seg[k] = "realm"]
  /\ Enter(p, k, "ticket")
  /\ UNCHANGED <<seg, nodes, tree, items, admitted>>

\* The ring has a ticket for the segment: both are in the realm from now on.
shm_can_access_ticket(p, k) ==
  /\ NeedsTicket(p, k)
  /\ in_realm' = [in_realm EXCEPT ![p] = TRUE]
  /\ seg' = [seg EXCEPT ![k] = "realm"]
  /\ Enter(p, k, "ticket")
  /\ UNCHANGED <<nodes, tree, items, admitted>>

\* A process without any ticket has no ring to search: the kernel kills it when
\* it follows the null pointer.  With tickets for other objects it is refused,
\* and nothing changes.
shm_can_access_null(p, k) ==
  /\ NeedsTicket(p, k)
  /\ task' = [task EXCEPT ![p] = Dead]
  /\ UNCHANGED <<seg, in_realm, nodes, tree, items, admitted, raced>>

-----------------------------------------------------------------------------
(* add_to_shmid.                                                           *)

Goes(p, t) == task' = [task EXCEPT ![p] = t]

\* The access is granted, or fails with EIO.
Return(p, ok) ==
  /\ Goes(p, User)
  /\ admitted' = IF ok THEN [admitted EXCEPT ![p][task[p].key] = task[p].how] ELSE admitted

NodesOf(k) == {n \in tree : nodes[n].key = k}

\* shmid_search finds a node of the key.
shmid_search(p) ==
  /\ task[p].pc = "search"
  /\ \E n \in NodesOf(task[p].key) : Goes(p, [task[p] EXCEPT !.pc = "scan", !.node = n])
  /\ UNCHANGED <<seg, in_realm, nodes, tree, items, admitted, raced>>

\* It finds none, and a node is allocated.
add_node(p) ==
  /\ task[p].pc = "search" /\ NodesOf(task[p].key) = {} /\ Len(nodes) < MaxNodes
  /\ nodes' = Append(nodes, [key |-> task[p].key, head |-> NULL])
  /\ Goes(p, [task[p] EXCEPT !.pc = "insert", !.node = Len(nodes) + 1])
  /\ UNCHANGED <<seg, in_realm, tree, items, admitted, raced>>

\* insert_shmid finds the place of the node.
insert_shmid(p) ==
  /\ task[p].pc = "insert" /\ NodesOf(task[p].key) = {}
  /\ Goes(p, [task[p] EXCEPT !.pc = "link", !.seen = tree])
  /\ raced' = raced \union UNION {{task[p].key, task[q].key} :
                                    q \in {q \in Procs : task[q].pc = "link"}}
  /\ UNCHANGED <<seg, in_realm, nodes, tree, items, admitted>>

\* It finds a node of the key instead.
insert_shmid_exists(p) ==
  /\ task[p].pc = "insert" /\ NodesOf(task[p].key) # {}
  /\ Return(p, FALSE)
  /\ UNCHANGED <<seg, in_realm, nodes, tree, items, raced>>

\* The node is linked at the place found: nodes linked there since then are lost.
rb_link_node(p) ==
  /\ task[p].pc = "link"
  /\ \E kept \in SUBSET (tree \ task[p].seen) :
       tree' = (tree \intersect task[p].seen) \union kept \union {task[p].node}
  /\ Goes(p, [task[p] EXCEPT !.pc = "scan", !.seen = {}])
  /\ UNCHANGED <<seg, in_realm, nodes, items, admitted, raced>>

\* No next leads out of S.
Closed(S) == \A i \in S : items[i].next \in S \union {NULL}

\* The items on the list of node n, which following next from its head reaches.
ListOf(n) ==
  {i \in DOMAIN items : \A S \in SUBSET DOMAIN items :
                         nodes[n].head \in S \union {NULL} /\ Closed(S) => i \in S}

Pids(n) == {items[i].pid : i \in ListOf(n)}

\* The last item of the list, if there is one.
EndOf(n) == IF ListOf(n) = {} THEN NULL ELSE CHOOSE i \in ListOf(n) : items[i].next = NULL

\* The process is on the list already.
scan_found(p) ==
  /\ task[p].pc = "scan" /\ p \in Pids(task[p].node)
  /\ Return(p, TRUE)
  /\ UNCHANGED <<seg, in_realm, nodes, tree, items, raced>>

\* Mutant of scan_end: the pids are not compared.
scan_any(p) ==
  /\ task[p].pc = "scan"
  /\ Goes(p, [task[p] EXCEPT !.pc = "append", !.eol = EndOf(task[p].node)])
  /\ UNCHANGED <<seg, in_realm, nodes, tree, items, admitted, raced>>

\* It is not: the last item of the list is kept in eol.
scan_end(p) ==
  /\ task[p].pc = "scan" /\ p \notin Pids(task[p].node)
  /\ Goes(p, [task[p] EXCEPT !.pc = "append", !.eol = EndOf(task[p].node)])
  /\ UNCHANGED <<seg, in_realm, nodes, tree, items, admitted, raced>>

\* Mutant of add_pid: the item becomes the head of the list.
add_pid_head(p) ==
  /\ task[p].pc = "append" /\ Len(items) < MaxItems
  /\ items' = Append(items, [pid |-> p, next |-> NULL])
  /\ nodes' = [nodes EXCEPT ![task[p].node].head = Len(items) + 1]
  /\ Return(p, TRUE)
  /\ UNCHANGED <<seg, in_realm, tree, raced>>

\* Mutant of add_pid: the item is not cleared, and its next is left as it was.
add_pid_uncleared(p) ==
  /\ task[p].pc = "append" /\ Len(items) < MaxItems
  /\ items' = Append(items, [pid |-> p, next |-> Len(items) + 2])
  /\ nodes' = [nodes EXCEPT ![task[p].node].head = Len(items) + 1]
  /\ Return(p, TRUE)
  /\ UNCHANGED <<seg, in_realm, tree, raced>>

\* A new item is linked after eol, or as the head.
add_pid(p) ==
  /\ task[p].pc = "append" /\ Len(items) < MaxItems
  /\ LET new == Len(items) + 1
         all == Append(items, [pid |-> p, next |-> NULL])
         eol == task[p].eol
     IN  IF eol # NULL THEN items' = [all EXCEPT ![eol].next = new] /\ UNCHANGED nodes
                       ELSE items' = all /\ nodes' = [nodes EXCEPT ![task[p].node].head = new]
  /\ Return(p, TRUE)
  /\ UNCHANGED <<seg, in_realm, tree, raced>>

\* No memory for a node or an item.
kzalloc_fails(p) ==
  /\ \/ task[p].pc = "search" /\ NodesOf(task[p].key) = {}
     \/ task[p].pc = "append"
  /\ Return(p, FALSE)
  /\ UNCHANGED <<seg, in_realm, nodes, tree, items, raced>>

-----------------------------------------------------------------------------
Next ==
  \/ \E p \in Procs, k \in Keys :
       \/ shm_can_access_free(p, k) \/ shm_can_access_ticket(p, k) \/ shm_can_access_null(p, k)
  \/ \E p \in Procs :
       \/ taint(p) \/ renew(p)
       \/ shmid_search(p) \/ add_node(p)
       \/ insert_shmid(p) \/ insert_shmid_exists(p) \/ rb_link_node(p)
       \/ scan_found(p) \/ scan_end(p) \/ add_pid(p) \/ kzalloc_fails(p)
  \/ \E k \in Keys : trm_ipc_alloc_security(k) \/ trm_ipc_free_security(k)

Spec == Init /\ [][Next]_vars

-----------------------------------------------------------------------------
(* Properties.                                                             *)

\* The state has its type, and what pointers point to has been allocated.
TypeOK ==
  /\ seg \in [Keys -> {"none", "clean", "realm"}]
  /\ in_realm \in [Procs -> BOOLEAN]
  /\ tree \subseteq DOMAIN nodes
  /\ \A n \in DOMAIN nodes : nodes[n].key \in Keys /\ nodes[n].head \in {NULL} \union DOMAIN items
  /\ \A i \in DOMAIN items : items[i].pid \in Procs /\ items[i].next \in {NULL} \union DOMAIN items
  /\ \A p \in Procs : /\ task[p].key \in Keys \union {NULL}
                      /\ task[p].node \in {NULL} \union DOMAIN nodes
                      /\ task[p].eol \in {NULL} \union DOMAIN items
  /\ admitted \in [Procs -> [Keys -> {"no", "free", "ticket"}]]
  /\ raced \subseteq Keys

\* "First check we're not already there" (add_to_shmid): a list never has a
\* process twice, and never runs into a cycle, although insertions overlap
\* without a lock and overwrite each other's links.
ListedOnce ==
  \A n \in DOMAIN nodes :
    /\ ListOf(n) # {} => \E i \in ListOf(n) : items[i].next = NULL
    /\ \A i, j \in ListOf(n) : items[i].pid = items[j].pid => i = j

\* A process that was let in to the segment of a key is on the list that
\* get_shmid_inhabitants reads for it, unless insertions for the key have
\* overlapped, or the linking of its node with that of another.
Listed ==
  \A p \in Procs, k \in Keys :
    admitted[p][k] # "no" /\ k \notin raced => \E n \in NodesOf(k) : p \in Pids(n)

\* A process that came in with a ticket is in the realm, and so is the segment:
\* shm_can_access taints both ways, whichever was in the realm before, and
\* neither leaves it while the process and the segment last.
TicketedMeet ==
  \A p \in Procs, k \in Keys :
    admitted[p][k] = "ticket" => in_realm[p] /\ seg[k] = "realm"
=============================================================================
