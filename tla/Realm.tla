------------------------------- MODULE Realm -------------------------------
(***************************************************************************)
(* The enforcement half of the kernel module: the labels of objects        *)
(* (in-core inode data and extended attributes), the taint of processes,   *)
(* and the decisions of can_access, with the label installations of the    *)
(* enclave.  Tickets are the set of current grants; module TicketCache     *)
(* models the cache that holds them.                                       *)
(*                                                                         *)
(* Ghost state follows the data itself: which processes know something     *)
(* classified and which files contain it.  needs_xattr_update is set and   *)
(* cleared within one operation and has no variable.                       *)
(***************************************************************************)
EXTENDS Naturals, FiniteSets

CONSTANTS
  Procs,        \* processes
  Boot,         \* the first process, whose credentials are zeroed memory
  Citadel,      \* citadel_pid(): the daemon's PID
  Files,        \* inodes of file systems that keep extended attributes
  PublicFiles,  \* the ones the daemon registers as public (its IPC socket)
  Pipes,        \* inodes of pipefs
  Ptys,         \* inodes of devpts
  Exempt,       \* directories and inodes of sockfs, sysfs, securityfs, tmpfs
  Identifiers,  \* random 16-byte identifiers
  PUBLIC,       \* the identifier 0xFF...FF
  ZERO,         \* the identifier of inode data that nobody has set
  NONE,         \* no identifier attribute
  Faults,       \* the sets of operations on attributes that can fail together
  Numbered,     \* what trm_inode_alloc_security can find: see alloc_security
  Overlap,      \* whether hooks run while a process prepares an exec
  MaxTickets    \* bound on the tickets current at one time

Objects == Files \union Pipes \union Ptys \union Exempt
AllIds == Identifiers \union {PUBLIC, ZERO}

ASSUME RealmAssumption ==
  /\ Boot \in Procs
  /\ PublicFiles \subseteq Files
  /\ Files \intersect (Pipes \union Ptys \union Exempt) = {}
  /\ PUBLIC \notin Identifiers /\ ZERO \notin Identifiers /\ PUBLIC # ZERO
  /\ NONE \notin AllIds
  /\ Faults \subseteq SUBSET {"get", "in_realm", "identifier"}
  /\ Numbered \subseteq BOOLEAN
  /\ Overlap \in BOOLEAN

VARIABLES
  live,         \* running processes
  cred,         \* citadel_task_data_t of each process
  preparing,    \* processes between cred_prepare and the commit of an exec
  prepared,     \* the credentials they will get
  tickets,      \* <<p, i>>: p may open the objects with identifier i
  exists,       \* objects that exist
  loaded,       \* objects whose inode is in memory
  core,         \* citadel_inode_data_t of each object
  disk,         \* the extended attributes of each object
  knows,        \* ghost: processes that know classified data
  holds,        \* ghost: files that contain classified data
  declassified, \* ghost: files the enclave was told it has declassified
  lost          \* ghost: files whose label a failed operation has cost

procs == <<live, cred, preparing, prepared, tickets>>
objs == <<exists, loaded, core, disk>>
ghosts == <<knows, holds, declassified, lost>>
vars == <<procs, objs, ghosts>>

Cred == [in_realm : BOOLEAN, identifier : AllIds, granted_pty : BOOLEAN]
InodeData == [in_realm : BOOLEAN, identifier : AllIds,
              anonymous : BOOLEAN, checked : BOOLEAN]
Xattrs == [in_realm : BOOLEAN, identifier : AllIds \union {NONE}]

NoCred == [in_realm |-> FALSE, identifier |-> ZERO, granted_pty |-> FALSE]
NoXattrs == [in_realm |-> FALSE, identifier |-> NONE]

\* Mutant of alloc_security: new inode data counts as read from disk.
alloc_security_checked(numbered) ==
  [in_realm |-> FALSE, identifier |-> ZERO,
   anonymous |-> numbered, checked |-> TRUE]

\* trm_inode_alloc_security.  The hook leaves the zeroed data alone when the
\* inode number is below 2, and the number is only set after the hook: which
\* it sees is what the slab held before.
alloc_security(numbered) ==
  [in_realm |-> FALSE, identifier |-> ZERO,
   anonymous |-> numbered, checked |-> FALSE]

\* get_random_bytes and sgx_read_rand return what nobody uses yet.
Fresh(i) ==
  /\ \A p \in Procs : cred[p].identifier # i /\ prepared[p].identifier # i
  /\ \A o \in Objects : core[o].identifier # i /\ disk[o].identifier # i
  /\ \A t \in tickets : t[2] # i

Init ==
  /\ live = {Boot} \union ({Citadel} \intersect Procs)
  /\ cred = [p \in Procs |-> NoCred]
  /\ preparing = {}
  /\ prepared = [p \in Procs |-> NoCred]
  /\ tickets = {}
  /\ exists = Files \union Ptys \union Exempt
  /\ loaded = {}
  /\ core = [o \in Objects |-> alloc_security(TRUE)]
  /\ disk = [o \in Objects |-> NoXattrs]
  /\ knows = {}
  /\ holds = {}
  /\ declassified = {}
  /\ lost = {}

-----------------------------------------------------------------------------
(* Housekeeping.                                                           *)

\* inode_housekeeping: an unnamed pipe takes the identifier of the first
\* tainted process that touches it.
inode_housekeeping(p, o, c) ==
  IF o \in Pipes /\ c.anonymous /\ cred[p].in_realm
  THEN [c EXCEPT !.identifier = cred[p].identifier, !.anonymous = FALSE,
                 !.checked = TRUE]
  ELSE c

\* Mutant of Named: the result of get_xattr_identifier is not tested.
NamedUntested(d) == d.in_realm

\* dentry_housekeeping reads the label of o from disk, once.  A failed read
\* counts as no label.
Named(d) == d.in_realm /\ d.identifier # NONE
dentry_housekeeping(p, o, c0, bad) ==
  LET c == inode_housekeeping(p, o, c0)
      d == IF "get" \in bad THEN NoXattrs ELSE disk[o]
  IN IF c.checked THEN c
     ELSE [in_realm |-> c.in_realm \/ d.in_realm,
           identifier |-> IF Named(d) THEN d.identifier ELSE c.identifier,
           anonymous |-> c.anonymous /\ ~Named(d),
           checked |-> TRUE]

\* The label of o is missed by a failed read.
Missed(o, bad) ==
  {x \in {o} : ~core[o].checked /\ disk[o].in_realm /\ "get" \in bad}

-----------------------------------------------------------------------------
(* can_access, for process p and object o with inode data c.               *)

\* Mutant of Exempted: only the object has to be out of the realm.
ExemptedUnlabelled(p, o, c) ==
  \/ ~c.in_realm
  \/ o \in Exempt
  \/ o \in Pipes /\ c.identifier = cred[p].identifier
  \/ c.identifier = PUBLIC
  \/ p = Citadel
  \/ o \in Ptys /\ cred[p].granted_pty

Exempted(p, o, c) ==
  \/ ~c.in_realm /\ ~cred[p].in_realm
  \/ o \in Exempt
  \/ o \in Pipes /\ c.identifier = cred[p].identifier
  \/ c.identifier = PUBLIC
  \/ p = Citadel
  \/ o \in Ptys /\ cred[p].granted_pty

Ticketed(p, c) == ~c.anonymous /\ <<p, c.identifier>> \in tickets

can_access(p, o, c) == Exempted(p, o, c) \/ Ticketed(p, c)

\* Mutant of Taints: a ticket is all a process gets.
NeverTaints(p, o, c) == FALSE

\* A ticket for an object in the realm takes the process into the realm.
Taints(p, o, c) == ~Exempted(p, o, c) /\ Ticketed(p, c) /\ c.in_realm

-----------------------------------------------------------------------------
(* Hooks run by a process on an object.                                    *)

HookRuns(p, o) ==
  /\ p \in live /\ o \in loaded
  /\ Overlap \/ p \notin preparing

\* trm_file_open and trm_file_permission; granted is their answer.
file_permission(p, o, bad, granted) ==
  /\ HookRuns(p, o)
  /\ LET c == dentry_housekeeping(p, o, core[o], bad)
     IN /\ granted = can_access(p, o, c)
        /\ core' = [core EXCEPT ![o] = c]
        /\ cred' = [cred EXCEPT ![p].in_realm = @ \/ Taints(p, o, c)]
  /\ lost' = lost \union Missed(o, bad)
  /\ UNCHANGED <<live, preparing, prepared, tickets, exists, loaded, disk,
                 declassified>>

\* The files whose data the ghost state follows.
Followed == Files \ (PublicFiles \union declassified \union lost)

read(p, o, bad) ==
  \E granted \in BOOLEAN :
    /\ file_permission(p, o, bad, granted)
    /\ holds' = holds \ lost'
    /\ knows' = IF granted /\ o \in holds' /\ p # Citadel
                  THEN knows \union {p} ELSE knows

write(p, o, bad) ==
  \E granted \in BOOLEAN :
    /\ file_permission(p, o, bad, granted)
    /\ holds' = IF granted /\ p \in knows /\ o \in Followed'
                  THEN (holds \ lost') \union {o} ELSE holds \ lost'
    /\ UNCHANGED knows

\* trm_inode_permission
inode_permission(p, o) ==
  /\ HookRuns(p, o)
  /\ LET c == inode_housekeeping(p, o, core[o])
     IN /\ core' = [core EXCEPT ![o] = c]
        /\ cred' = [cred EXCEPT ![p].in_realm = @ \/ Taints(p, o, c)]
  /\ UNCHANGED <<live, preparing, prepared, tickets, exists, loaded, disk,
                 ghosts>>

\* trm_file_ioctl, trm_inode_getxattr, trm_inode_listxattr,
\* trm_inode_removexattr and trm_inode_post_setxattr only keep house.
file_ioctl(p, o, bad) ==
  /\ HookRuns(p, o)
  /\ core' = [core EXCEPT ![o] = dentry_housekeeping(p, o, @, bad)]
  /\ lost' = lost \union Missed(o, bad)
  /\ holds' = holds \ lost'
  /\ UNCHANGED <<procs, exists, loaded, disk, knows, declassified>>

-----------------------------------------------------------------------------
(* The life of an inode.                                                   *)

\* A lookup brings the inode of o into memory: trm_inode_alloc_security and
\* trm_d_instantiate.
lookup(p, o, numbered, bad) ==
  /\ p \in live
  /\ o \in exists \ loaded
  /\ loaded' = loaded \union {o}
  /\ core' = [core EXCEPT
       ![o] = dentry_housekeeping(p, o, alloc_security(numbered), bad)]
  /\ lost' = lost \union Missed(o, bad)
  /\ holds' = holds \ lost'
  /\ UNCHANGED <<procs, exists, disk, knows, declassified>>

\* A process creates o: trm_inode_alloc_security, trm_inode_init_security
\* (subsumed says that the parent directory is in the realm) and
\* trm_d_instantiate, which writes the label it has just been given.
create(p, o, subsumed, numbered, bad) ==
  /\ p \in live /\ (Overlap \/ p \notin preparing)
  /\ o \notin exists
  /\ exists' = exists \union {o}
  /\ loaded' = loaded \union {o}
  /\ LET c0 == alloc_security(numbered)
         tainted == o \in Files /\ cred[p].in_realm
         c1 == [c0 EXCEPT !.in_realm = tainted \/ (o \in Files /\ subsumed),
                          !.anonymous = @ /\ ~tainted,
                          !.identifier = IF tainted THEN cred[p].identifier ELSE @]
         c == dentry_housekeeping(p, o, c1, bad)
     IN /\ core' = [core EXCEPT ![o] = c]
        /\ disk' = [disk EXCEPT ![o] =
             [in_realm |-> c.in_realm /\ "in_realm" \notin bad,
              identifier |-> IF c.in_realm /\ ~c.anonymous /\ "identifier" \notin bad
                               THEN c.identifier ELSE NONE]]
        /\ lost' = lost \union {x \in {o} : c.in_realm /\ "in_realm" \in bad}
  /\ UNCHANGED <<procs, knows, holds, declassified>>

\* The inode leaves memory.  A crash is every inode leaving memory and every
\* process ending.
evict(o) ==
  /\ o \in loaded \ Pipes
  /\ loaded' = loaded \ {o}
  /\ core' = [core EXCEPT ![o] = alloc_security(TRUE)]
  /\ UNCHANGED <<procs, exists, disk, ghosts>>

\* The last link to o goes and its inode with it.
unlink(o) ==
  /\ o \in exists \intersect (Files \union Pipes)
  /\ exists' = exists \ {o}
  /\ loaded' = loaded \ {o}
  /\ core' = [core EXCEPT ![o] = alloc_security(TRUE)]
  /\ disk' = [disk EXCEPT ![o] = NoXattrs]
  /\ holds' = holds \ {o}
  /\ declassified' = declassified \ {o}
  /\ lost' = lost \ {o}
  /\ UNCHANGED <<procs, knows>>

-----------------------------------------------------------------------------
(* The enclave: tickets, and labels through xattr_enclave_installation.    *)

insert_ticket(p, i) ==
  /\ p \in live
  /\ Cardinality(tickets) < MaxTickets
  /\ tickets' = tickets \union {<<p, i>>}
  /\ UNCHANGED <<live, cred, preparing, prepared, objs, ghosts>>

\* A ticket expires, or goes with the credentials it was claimed by.
drop_ticket(t) ==
  /\ t \in tickets
  /\ tickets' = tickets \ {t}
  /\ UNCHANGED <<live, cred, preparing, prepared, objs, ghosts>>

grant_pty(p) ==
  /\ p \in live /\ Ptys # {}
  /\ cred' = [cred EXCEPT ![p].granted_pty = TRUE]
  /\ UNCHANGED <<live, preparing, prepared, tickets, objs, ghosts>>

\* CITADEL_OP_REGISTER.  The installation is accepted when the identifier
\* attribute is written; the result for the other attribute is not looked at.
register(o, i, bad) ==
  /\ o \in loaded \intersect Files
  /\ IF o \in PublicFiles THEN i = PUBLIC ELSE i # PUBLIC
  /\ LET accepted == "identifier" \notin bad
         marked == "in_realm" \notin bad
     IN /\ core' = [core EXCEPT ![o] =
             IF accepted THEN [in_realm |-> TRUE, identifier |-> i,
                               anonymous |-> FALSE, checked |-> TRUE]
             ELSE [@ EXCEPT !.checked = FALSE]]
        /\ disk' = [disk EXCEPT ![o] =
             [in_realm |-> @.in_realm \/ marked,
              identifier |-> IF accepted THEN i ELSE @.identifier]]
        /\ lost' = CASE ~accepted -> lost
                     [] accepted /\ marked -> lost \ {o}
                     [] accepted /\ ~marked -> lost \union {o}
        /\ declassified' = IF accepted THEN declassified \ {o} ELSE declassified
        /\ holds' = IF accepted /\ o \in Followed'
                      THEN (holds \ lost') \union {o} ELSE holds \ lost'
  /\ UNCHANGED <<procs, exists, loaded, knows>>

\* Mutant of declassify: the attribute stays on disk.
declassify_in_core(o, bad) ==
  /\ o \in loaded \intersect Files
  /\ core' = [core EXCEPT ![o].in_realm = FALSE, ![o].checked = TRUE]
  /\ declassified' = declassified \union {o}
  /\ holds' = holds \ declassified'
  /\ UNCHANGED <<procs, exists, loaded, disk, knows, lost>>

\* CITADEL_OP_DECLASSIFY.
declassify(o, bad) ==
  /\ o \in loaded \intersect Files
  /\ LET removed == core[o].in_realm /\ disk[o].in_realm /\ "in_realm" \notin bad
         accepted == ~core[o].in_realm \/ removed
     IN /\ core' = [core EXCEPT ![o] =
             CASE ~@.in_realm -> @
               [] removed -> [@ EXCEPT !.in_realm = FALSE, !.checked = TRUE]
               [] OTHER -> [@ EXCEPT !.checked = FALSE]]
        /\ disk' = [disk EXCEPT ![o].in_realm = @ /\ ~removed]
        /\ declassified' = IF accepted THEN declassified \union {o} ELSE declassified
        /\ holds' = holds \ declassified'
  /\ UNCHANGED <<procs, exists, loaded, knows, lost>>

-----------------------------------------------------------------------------
(* Processes.                                                              *)

\* Mutant of init_task_trm: the new credentials start out of the realm.
init_task_trm_untainted(p, i) ==
  [cred[p] EXCEPT !.identifier = i, !.in_realm = FALSE]

\* init_task_trm for credentials made from those of p.
init_task_trm(p, i) == [cred[p] EXCEPT !.identifier = i]

fork(p, c, i) ==
  /\ p \in live /\ (Overlap \/ p \notin preparing)
  /\ c \notin live \union {Citadel}
  /\ Fresh(i)
  /\ live' = live \union {c}
  /\ cred' = [cred EXCEPT ![c] = init_task_trm(p, i)]
  /\ knows' = IF p \in knows THEN knows \union {c} ELSE knows
  /\ UNCHANGED <<preparing, prepared, tickets, objs, holds, declassified, lost>>

\* An exec prepares the new credentials before it opens the program ...
exec_prepare(p, i) ==
  /\ p \in live \ preparing
  /\ Fresh(i)
  /\ preparing' = preparing \union {p}
  /\ prepared' = [prepared EXCEPT ![p] = init_task_trm(p, i)]
  /\ UNCHANGED <<live, cred, tickets, objs, ghosts>>

\* ... and installs them after it has read it.
exec_commit(p) ==
  /\ p \in preparing
  /\ cred' = [cred EXCEPT ![p] = prepared[p]]
  /\ preparing' = preparing \ {p}
  /\ prepared' = [prepared EXCEPT ![p] = NoCred]
  /\ UNCHANGED <<live, tickets, objs, ghosts>>

exit(p) ==
  /\ p \in live
  /\ live' = live \ {p}
  /\ cred' = [cred EXCEPT ![p] = NoCred]
  /\ preparing' = preparing \ {p}
  /\ prepared' = [prepared EXCEPT ![p] = NoCred]
  /\ tickets' = {t \in tickets : t[1] # p}
  /\ knows' = knows \ {p}
  /\ UNCHANGED <<objs, holds, declassified, lost>>

Next ==
  \/ \E p \in Procs, o \in Objects, bad \in Faults :
       \/ read(p, o, bad)
       \/ write(p, o, bad)
       \/ file_ioctl(p, o, bad)
       \/ \E numbered \in Numbered : lookup(p, o, numbered, bad)
       \/ \E subsumed \in BOOLEAN, numbered \in Numbered :
            create(p, o, subsumed, numbered, bad)
  \/ \E p \in Procs, o \in Objects : inode_permission(p, o)
  \/ \E o \in Objects : evict(o) \/ unlink(o)
  \/ \E o \in Files, bad \in Faults :
       \/ \E i \in Identifiers \union {PUBLIC} :
            (i = PUBLIC \/ Fresh(i)) /\ register(o, i, bad)
       \/ declassify(o, bad)
  \/ \E p \in Procs, i \in Identifiers : insert_ticket(p, i)
  \/ \E t \in tickets : drop_ticket(t)
  \/ \E p \in Procs : grant_pty(p) \/ exec_commit(p) \/ exit(p)
  \/ \E p, c \in Procs, i \in Identifiers : fork(p, c, i)
  \/ \E p \in Procs, i \in Identifiers : exec_prepare(p, i)

Spec == Init /\ [][Next]_vars

-----------------------------------------------------------------------------
(* Properties.                                                             *)

TypeOK ==
  /\ live \subseteq Procs
  /\ cred \in [Procs -> Cred]
  /\ preparing \subseteq live
  /\ prepared \in [Procs -> Cred]
  /\ tickets \subseteq Procs \X Identifiers
  /\ loaded \subseteq exists /\ exists \subseteq Objects
  /\ core \in [Objects -> InodeData]
  /\ disk \in [Objects -> Xattrs]
  /\ knows \subseteq live
  /\ holds \subseteq Files
  /\ declassified \subseteq Files
  /\ lost \subseteq Files

\* A process that has read classified data from a file, or has a parent that
\* had, is in the realm ("enforcing not only who may access it, but also how
\* it may be used throughout its lifespan", README): can_access, fork and
\* exec carry the taint along with the data.
TaintFollowsData == \A p \in knows : cred[p].in_realm

\* The label of f is on disk, and in memory or still to be read from disk.
Labelled(f) ==
  /\ disk[f].in_realm
  /\ f \in loaded => core[f].in_realm \/ ~core[f].checked

\* A file that classified data was written to keeps a label that outlives the
\* inode in memory: creation, registration, eviction, restart and failed
\* installations included.  A declassified file and one whose label could not
\* be written or read are out of reach of this.
LabelFollowsData == \A f \in holds : Labelled(f)

\* A declassification that the kernel accepts leaves no label behind, in
\* memory or on disk ("Already unclassified", xattr_enclave_installation).
DeclassifyClears ==
  [][\A o \in Files, bad \in Faults :
       declassify(o, bad) /\ o \in declassified' =>
         ~disk'[o].in_realm /\ ~core'[o].in_realm]_vars
=============================================================================
