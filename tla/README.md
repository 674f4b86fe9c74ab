# Citadel: a TLA+ model, its checks and its proofs

Citadel is an information-flow reference monitor for Linux. This directory
holds TLA+ models of its parts that keep state, TLC configurations that check
them on small instances, and TLAPS proofs for instances of any size.

## The system

Three programs work together.

* **The kernel module** (`src/lsm`) enforces. Processes and inodes carry a flag
  `in_realm`. A process that opens an object in the realm needs a *ticket* for
  the object's 16-byte identifier, and is in the realm from then on; what it
  creates is in the realm too. Labels live in memory (`citadel_inode_data_t`)
  and in two extended attributes.
* **The daemon** (`src/daemon`) hosts an SGX enclave, which decides. It
  registers with the kernel module by challenge and response. It then sends
  tickets through a securityfs file and labels through `setxattr`. Both kinds of
  message are encrypted with an AES key that both sides change, by XOR with a
  random number in the message, after each one.
* **The client library** (`src/libcitadel`) asks the daemon for tickets over a
  UNIX socket, identifying its process by a token that the kernel issues.

A request travels: client → socket thread → enclave → kernel (a reservation
under the client's PID) → the client's next security hook, which moves the
ticket to its credentials → `can_access`, which searches the credentials.

What makes this hard to get right, and hard to test:

| behaviour | where |
|---|---|
| circular lists changed by two CPUs without a lock | `ticket_cache.c` |
| loops that find the end of a list by timestamps | `ticket_cache.c`, `can_access` |
| reservations that outlive processes, PIDs that come back | `task.c` |
| labels in two places, with writes and reads that fail | `common.c`, `inode.c`, `payload_io.c` |
| credentials copied at one moment and installed at another | `task.c` |
| a key changed on two sides by two threads | `lsm_communication.cpp`, `payload_io.c` |
| restarts of one side only, rejected registrations | `app.cpp`, `payload_io.c` |
| clients that give up while their request is in progress | `ipc.c`, `socket.cpp` |
| one thread that serves everybody, and a signal that must wake it | `socket.cpp` |
| caches that answer after the file, the ticket or the process has changed | `identifier_cache.cpp`, `cache.c` |
| lists and a tree that processes extend at the same time | `shm_tracking.c` |

`PROJECT.json` lists every component with its status, and every hazard with its
line and the properties that watch it.

## The modules

### TicketCache

`insert_ticket`, `check_ticket_cache`, the search of `can_access`, and the
credentials the tickets hang on. A circular list is the sequence of its
tickets from the head on.

| code | model |
|---|---|
| `reservation_node->ticket_head`, `granted_pty` | `reservation`, `reserved_pty` |
| `task_data->ticket_head`, `granted_pty` | `ticket_head`, `granted_pty` |
| `ktime_get()` | `now`, which moves with every new ticket |
| a hook run by the leader, by another thread | `check_ticket_cache`, `check_ticket_cache_thread` |
| `trm_cred_prepare` at fork, at exec | `fork`, `replace_cred` |

The loops are modelled by their own conditions (`Continue`, `Reaches`), not by
what they are meant to do, so that a list out of order would be handled as the
code handles it. History variables (`due`, `pty_owners`) record what the
enclave issued to the process that is running now.

* `RingOrdered`: timestamps grow along a process's list and on into its
  reserved list. Every loop relies on it.
* `DecisionExact`: the search finds exactly the unexpired tickets issued to the
  process since it last replaced its credentials, or still reserved.
* `NoTicketLost`: the half of it that does not need fresh PIDs.
* `PtyExact`, `HoldsOnlyOwn`: rights belong to the process they were issued to,
  or descend from it in the case of terminals.

### TicketRing

The same two functions statement by statement, on the pointers, for one
process. One step is one store. `Interleaved` says whether the functions
overlap. The history variables `want_res` and `want_task` are the lists that
should be there, so `RingsMatch` says that the pointer code implements the
sequences of TicketCache. `WiredAtEnd` says it without history, which makes it
meaningful when calls overlap. `NoBadPointer` covers NULL and freed tickets,
and `CheckReturns` says that the loops end.

`ImplementsCache`, in the module TicketLists, is the refinement: with the lists read from memory between
calls, and the expected lists during one, every step is a step of TicketCache or
changes nothing in it. An insertion takes effect where the ticket is allocated, a
hook where it starts to look for expired tickets; the stores that follow have to
bring memory to that state by the time the call returns.

### Realm

Labels, taint and decisions. `cred`, `core` and `disk` are the two security
structures and the attributes; `tickets` is the set of current grants. Ghost
variables follow the data itself: `knows` (processes), `holds` (files), and the
two ways a file leaves the accounting, `declassified` and `lost` (an operation on
its own attributes failed).

* `TaintFollowsData`: a process that has read classified data, or descends from
  one, is in the realm.
* `LabelFollowsData`: a file that holds classified data is labelled on disk, and
  in memory or about to be read from disk.
* `DeclassifyClears`: an accepted declassification leaves no label.

Abstractions: `needs_xattr_update` is set and cleared within one operation and
has no variable. Operations of tickets are left to TicketCache. The objects
that `can_access` exempts by file system are one set, `Exempt`.

### KeyChannel

The channel from the start of the daemon to the answer a client gets. A key is
the set of the random numbers XORed into it, so that two keys are equal exactly
when both sides have applied the same changes. A message is read by the kernel
module only under the key it was encrypted with. The enclave's change of key is
two steps, a load and a store, because two threads may be in it; a mixture of
the bytes of two changes differs from the kernel's key just as a lost change
does.

| code | model |
|---|---|
| statics of `payload_io.c`, of the enclave | `lsm`, `enclave` |
| `main` in `app.cpp`, `perform_registration` | `main`, actions `start` to `protect_socket` |
| `run_server`, `handle_request`, `core_handle_request` | `server`, the actions of those names |
| one ticket or installation | `exchange[t]`: `encrypt`, the kernel's action, `load_key` and `store_key`, or `keep_key` |
| `citadel_init`, `ipc_transaction` | `client`, the actions of those names |

* `KeysAgree`: once the main loop runs and the kernel module has taken the
  registration, tokens are valid and the keys agree between messages.
* `PromiseKept`: an approved request has all its tickets in the kernel.
* `LabelKept`: an approved claim or declassification has changed the label.

### IdentifierCache and DaemonServer

IdentifierCache has the operations of the daemon's table from paths to
identifiers, as operators on its contents, and the files behind the paths, which
other processes rename and replace. A copy of an entry takes the time at which
it is made, as the copy constructor does; since the table copies entries when it
makes room, an entry can last longer than `_CITADEL_CACHE_EXPIRY`, and `Inserted`
lets any of them be copied.

DaemonServer composes it with the socket thread that calls it, the clients, and
the main thread that stops it. `thread.pc` is the place of the thread in
`run_server`, `handle_client_socket` and `send_response`; the blocking calls are
the steps that need something to happen. `running` is tested in one step and
`accept` entered in the next, because a signal can come between them.

* `TranslatedSinceClaim`: the identifier that is cached for a path, or that was put
  into a request, is one that the file at the path has had since the path was
  last claimed. A stale identifier can be used, but never one from before a claim.
* `RequestsAccepted` (liveness): a written request is accepted, unless its client
  gives up or the daemon stops. The exception is `Stuck`: a client that went away
  before it wrote leaves the thread in a loop that counts no attempts.
* `Stops` (liveness): `close_socket` returns. The exceptions are `Stuck`, and
  `missed`: a signal that came between the test of `running` and `accept`.

The mutants show that nothing else is excused: without the signal, or with a
reply that is tried for ever, the two properties fail.

### ClientCache

The caches of names and descriptors in `cache.c`, the operations of `file.c` and
`socket.c` that use them, and the wrappers of `shim.c` that call those. One process
is followed, and a fork follows the child. A *session* is the part of the state
that a call of the library changes; an operation maps a session to its possible
outcomes, so that calls compose as in the code. The kernel's side (labels,
taint, the time of the last ticket) is there as far as the library depends on it.
Ghost fields of the entries record which process made them and what for.

* `NamesBacked`: an entry that answers for a name rests on a ticket that this very
  process has, for the identifier the entry was made for.
* `FdsBacked`: the same for descriptors, through closing and reuse of descriptors,
  forks, refreshed entries and sockets that change hands. The entry of a socket is
  as old as its ticket. That of a file can be younger, as `c_open` stamps it when a
  cached name let it open the file; so it can answer for almost twice the life of
  the ticket.

### SharedMemory

`shm_can_access`, which the three hooks of shared memory call, and
`add_to_shmid`, step by step, with several processes inside it at once: the
search, the allocation (which sleeps), the place in the tree, the link, the walk
of the list, the append. Nodes and items are numbered in the order of
allocation. Overlapping insertions lose nodes or items; `raced` records the keys
for which that has been possible.

* `ListedOnce`: no list has a process twice or runs into a cycle, however the
  insertions overlap.
* `Listed`: a process that was let in is on the list of its key, unless insertions
  have overlapped.
* `TicketedMeet`: a process that came in with a ticket and the segment are both in
  the realm, for as long as both last.

Worth knowing: `shm_can_access` runs no housekeeping, so that it honours a ticket
that has expired and misses one that is still reserved; a process that has no
ticket at all is killed in the hook (`shm_can_access_null`); a process that came in
while neither side was in the realm stays when the segment enters it; lists are
never trimmed, so that a PID on one may be a later process. Private segments all
have the key 0 and share one list; the model has one segment for a key.

## The runs

| run | result | shows |
|---|---|---|
| `ticket_cache` | pass | all properties of TicketCache, while no PID is used twice |
| `ticket_cache_pid_reuse` | violation of `HoldsOnlyOwn` | a new process claims what was reserved for a dead one |
| `ticket_ring` | pass | all properties of TicketRing, one function at a time, and the refinement of TicketCache |
| `ticket_ring_race` | violation of `WiredAtEnd` | an insertion that overlaps a hook loses a ticket |
| `realm` | pass | confinement with two files and a terminal |
| `realm_faults` | pass | confinement with a pipe, the daemon's process and failing attributes |
| `realm_exec` | violation of `TaintFollowsData` | data read between prepare and commit of an exec loses its taint |
| `key_channel` | pass | all properties of KeyChannel |
| `key_channel_early` | violation of `PromiseKept` | a request served during `protect_socket` |
| `client_cache` | pass | what the caches of the library answer, the kernel would |
| `daemon_server` | pass | claims are seen, requests are accepted, the daemon stops |
| `shared_memory` | pass | the lists of attached processes under concurrent insertion |

Each violation quotes, under `findings` in `PROJECT.json`, the comment or the
line of the documentation it disagrees with.

Two more facts came out of the models and have no run of their own. With
failing attributes `DeclassifyClears` does not hold: a registration whose first
attribute fails leaves the in-core flag clear and the disk labelled, and the
declassification that follows is accepted as done. With `"memory"` in `Faults`
`KeysAgree` does not hold: the enclave changes its key for an update that the
kernel had no memory for.

### Bounds

* TicketCache: a clock that passes the expiry with tickets on both sides of it,
  two PIDs, and identifiers and operations enough for a ticket to match and to
  miss. The lists get long enough to be spliced while both are non-empty.
* TicketRing: five tickets (three when interleaved): lists of two and more on
  both sides of a splice, and expiry of none, some and all.
* Realm: two processes (taint passes from parent to child), two or three
  identifiers, one ticket at a time (each access needs one). The kinds of
  object are spread over two runs, as all of them together are out of reach. The
  public socket file is in neither; the proofs cover it.
* KeyChannel: two starts of the daemon and seven random numbers: a complete
  registration takes three, so a restart with a message after it fits. Two
  clients and a backlog of one: one request in progress, one waiting, one
  refused. The code's backlog is five.
* DaemonServer: two clients on a backlog of one, two paths that can name the same
  file or none, three identifiers (the one found, and two that a claim or an open
  can draw), an expiry that one tick passes, and two requests: one in the thread
  while the other waits, or an open after the claim or open that filled the
  cache. Three requests were checked once as well (1.8 million states).
* ClientCache: one file, two descriptors, two labels besides the identifiers of
  processes, one fork, and a clock that runs past the life of a ticket.
* SharedMemory: two processes, of which one is the daemon, two keys, two nodes and
  three items: both kinds of lost update, on the list and in the tree. Three
  processes on one key were checked once as well (3 million states).

`CHECK_DEADLOCK FALSE` is set throughout: clocks and random numbers are bounded,
processes may all have exited, and the daemon may stay stopped.

### Fairness

* TicketRing: a hook that is running keeps running, which is weak fairness of
  `check_ticket_cache`'s own steps. The kernel does not stop a hook half way.
  Insertions and the clock get no fairness.
* DaemonServer: weak fairness of the steps of the socket thread, of the main
  thread once it is in `close_socket`, and of a client's write of the request it
  has connected for. These are runnable threads. A step that needs another party,
  such as `accept` without a connection, is not enabled and gets nothing from it.
  Nothing makes clients connect, give up or die, and nothing makes the daemon
  start to stop.

### Assumptions of the passing runs

`PidReuse = FALSE`, `Interleaved = FALSE`, `Overlap = FALSE` and `Early = FALSE`
exclude, each, one situation that the code does not handle. A violation run
with the constant set the other way shows what happens in it.

## The proofs

One module of proofs for each of TicketCache, TicketRing, Realm, KeyChannel,
DaemonServer, ClientCache and SharedMemory (`TicketCacheProofs` and so on), and
`TicketListsProofs` for the refinement, for every value of the constants.

| theorem | assumption | states |
|---|---|---|
| `TypeCorrect` (TicketCache) | | `[]TypeOK` |
| `RingsOrdered` | | `[]RingOrdered` |
| `NoTicketIsLost` | | `[]NoTicketLost` |
| `DecisionIsExact` | `~PidReuse` | `[]DecisionExact` |
| `HoldsOnlyItsOwn` | `~PidReuse` | `[]HoldsOnlyOwn` |
| `PtyIsExact` | `~PidReuse` | `[]PtyExact` |
| `TypeCorrect` (TicketRing) | `~Interleaved` | `[]TypeOK` |
| `PointersAreGood` | `~Interleaved` | `[]NoBadPointer` |
| `ListsAreExact` | `~Interleaved` | `[]RingsMatch` |
| `ListsAreOrdered` | `~Interleaved` | `[]WiredAtEnd` |
| `ListsImplementCache` | `~Interleaved` | `ImplementsCache` |
| `TypeCorrect` (Realm) | | `[]TypeOK` |
| `Confinement` | `~Overlap` | `[]TaintFollowsData` |
| `LabelsAreKept` | `~Overlap` | `[]LabelFollowsData` |
| `DeclassificationIsWhole` | `Whole` | `DeclassifyClears` |
| `TypeCorrect` (KeyChannel) | | `[]TypeOK` |
| `ChannelInStep` | `Calm` | `[]KeysAgree` |
| `PromisesAreKept` | `Calm` | `[]PromiseKept` |
| `LabelsAreInstalled` | `Calm` | `[]LabelKept` |
| `TypeCorrect` (DaemonServer) | | `[]TypeOK` |
| `ClaimsAreSeen` | | `[]TranslatedSinceClaim` |
| `TypeCorrect` (ClientCache) | | `[]TypeOK` |
| `NamesAreBacked` | | `[]NamesBacked` |
| `FdsAreBacked` | | `[]FdsBacked` |
| `TypeCorrect` (SharedMemory) | | `[]TypeOK` |
| `ListsAreSets` | | `[]ListedOnce` |
| `AdmittedAreListed` | | `[]Listed` |
| `TicketsMeet` | | `[]TicketedMeet` |

`Calm` is `~Early /\ "memory" \notin Faults`: clients wait for the main loop, and the
kernel has memory. `Whole` says of the faults of attributes that they can always be
read, and that the write of the identifier fails only together with that of the
flag. The run `realm` has no faults; with faults outside `Whole` the property fails,
as said above.

**TicketCache.** `ListInv` is `TypeOK` with `OrderedLists`: both lists of a
process ordered, the whole of one before the whole of the other, and nothing
later than `now`. It is inductive because a new ticket is stamped later than
everything and claiming only moves the boundary. From an ordered list follow
what the two loops compute: the expiry loop stops at the first good ticket
(`RemoveExpired` keeps exactly the good ones) and the search reaches every
element. `KeepsInv` adds that what is due and not expired is in one of the lists;
`OwnInv`, the converse, is the part that needs `~PidReuse`. The two together
give `DecisionExact`.

**TicketRing.** Tickets are numbered as they are allocated, and timestamps grow with
the numbers. So each list is an interval at every moment: tickets up to `Gone` have
been dropped, those from there to `Claimed` are the process's, the rest is reserved.
`IInv` says for each place that a call can be at which pointers of the two rings have
their new value and which the old one (`Inserting`, `Claiming`, `Expiring`), and that
the tickets not freed are an interval too, which is why no freed one is followed.
TLC checked `IInv` on all states of the run before it was proved. It is inductive
for one call at a time; `ticket_ring_race` is the counterexample otherwise. For
the refinement, `Mapped` expresses the mapped lists by intervals and timestamps alone,
so that a step that moves pointers only is seen to change nothing in TicketCache. What
remains is that both accounts of expiry agree: the expired tickets are the first `k`
of the interval (`ExpiryInterval`), and TicketCache's loop stops after just those
(`RemovesPrefix`).

**Realm.** `TaintFollowsData` and `LabelFollowsData` each need the other: taint
comes from labels, and labels from taint. Neither is inductive without facts on
the shape of the state (`ShapeInv`: inode data that is not in memory is
unchecked, and only files are labelled on disk), on the public identifier
(`PublicInv`: only the public files have it and no process, so that its
exemption never applies to a file whose data is followed), on labels
(`LabelInv`: a file that a ticket can name is in the realm, and what is in the
realm in memory is so on disk, unless declassified or lost) and on exec
(`ExecInv`: prepared credentials have the taint of the current ones, which is
where `~Overlap` comes in). `IInv` is their
conjunction, and there is one lemma per action. Types do not depend on exec, and
neither does declassification: it rests on `InSync`, that a file in memory knows of
its label on disk.

**KeyChannel.** That the keys agree *between* messages says nothing of the steps of
a message. `InStep` gives the two keys at each stage: equal up to the kernel's
decision, apart by exactly the number in the message from there to the enclave's
store, and equal again if the message was refused. It holds of the one thread
that may send (`Sender`; `PhaseInv` says that the other has no message), and only
if the kernel module has taken this daemon's response (`Joined`). If it has not,
messages are lost, and what saves the client is the token: `TokenInv` says that
no token names a daemon the kernel module has not accepted, so that
`send_response` is not believed, and `MissingInv` that only then a ticket can be
missing. `Calm` enters twice: `~Early` keeps the queue empty until `protect_socket`
has returned, and without memory faults a readable ticket is always accepted.

**DaemonServer.** The cache is right about a path as long as nothing claims it, and
a claim clears the entry before the enclave draws the new identifier. `ClaimCleared`
carries this over the steps between: while a claim is on its way the entry of its
path is empty, and no other request can fill it, as there is one thread.
`HistoryCurrent` says that the history has what the file has now, which is what a
lookup reads. The proof needs no fairness and no bound on the clock: it holds
however long entries last.

**ClientCache.** The invariant is one on sessions (`OK`), so that each operation of
the library is shown once to lead from good sessions to good ones, whatever
wrapper calls it (`ClaimGood`, `OpenGood`, `ValidateGood` and so on); the proof of an
action then says only what the wrapper adds. Three facts make it inductive.

* Entries for names are in the order of their times. `cleanup_cache_group` stops at
  the first entry in date, so without the order it could leave older ones behind
  (`CleanNames`). A name was cached no later than `Latency` after its ticket.
* The entry of an opened file was made when the kernel let the process open it: the
  ticket was good then (`Covers`). If no ticket was needed, the file and the process
  were outside the realm, and the entry is `Idle`: its descriptor stands for nothing
  in the realm with that identifier. It stays idle because a claim gives a file a
  new identifier, a socket and a created file get the number of the process, and an
  open of the same file under that descriptor needs a ticket itself.
* A fork sets every time to 0. Since the process started at least a ticket's life
  after boot, such an entry is never in date; this is the part of `ClockAssumption`
  that the code leaves to the machine.

Times are in ticks and the library compares seconds, rounded down. `Elapsed` has the
arithmetic: a difference of fewer than `n` seconds is fewer than `n * Second` ticks.
TLC checked the invariant on all states of the run before it was proved.

**SharedMemory.** A list is the smallest set with the head that `next` does not lead
out of, so that induction over the links is not needed. An append is then seen to
add one item, or to cut off those behind the old end when two processes found the same
one (`AddPidAfter`, `AddPidFirst`). `ListInv` says that lists have no item in common and
hold a process once; what makes it inductive is `TaskInv`: a process about to append
is not on the list, and the end it found is on no other. This part holds however
insertions overlap. `CalmInv` says of the other keys that nothing between a process's
search and its append has gone out of date, which gives `Listed`.

The only other assumptions are the named ones on the constants. In ClientCache they
include `NamesAssumption`, that paths, sockets, labels and the numbers of processes are
different things. KeyChannel's proof found an expression of the model that did not
determine the answer of a daemon whose token a client does not have; TLC had picked
the intended one.

## What is only model-checked

The liveness properties `CheckReturns`, `RequestsAccepted` and `Stops`, as fairness is
out of the prover's reach. Every invariant of the passing runs, the action property
`DeclassifyClears` and the refinement `ImplementsCache` are proved; the last needs no
fairness, as TicketCache's specification has none.

## What is not modelled

* The library's cache of shared memory segments (`shm.c`) and the three wrappers
  that use it. It fills and expires like the cache of names.
* Requests that arrive in pieces: a request is smaller than a socket's buffer and
  is written by one call. `handle_client_socket` would handle the first piece.
* `get_shmid_inhabitants` counts a list and then copies it; the model has the list
  and not the copy. Rebalancing of the tree while another process searches it is
  not modelled, only the loss of nodes.
* Files that other processes remove under a process of ClientCache.
* `identifier_cache_setup`, which configures the table after the thread that uses it
  has started; the table's implementation is not in the repository.
* Labels of sockets as objects of the confinement: `can_access` exempts their file
  system, and Realm has them as exempt objects.
* `generate_update` and `process_updates`, which exchange fixed test records that
  nothing uses; sealed keys, read once before anything else; hook tables;
  ciphers. KeyChannel assumes that a message decrypts only under its key.
* Undefined behaviour on an uninitialised pointer, listed under `hazards`.
* Demonstrations, benchmarks and build scripts, which use the system.

Most of the lines under `src` are a copy of the LibTomCrypt library
(`src/daemon/enclave_core/crypto/ltc`), with the ciphers for which KeyChannel has
the assumption above. They keep no state of Citadel's, so the share of all lines
that the models stand for is small although the kernel module, the daemon and
the client library are covered but for the items of this list.

## Next

1. A composition of KeyChannel and TicketCache: an approved answer is followed by
   a granted access.
2. The cache of shared memory segments, on top of SharedMemory.
