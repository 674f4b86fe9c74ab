---------------------------- MODULE RealmProofs ----------------------------
(***************************************************************************)
(* Proofs about module Realm: type correctness, and confinement (the taint *)
(* of processes and the labels of files follow classified data) for any    *)
(* number of processes, files and identifiers and any failures of          *)
(* extended attributes.  Confinement needs that no hook runs between the   *)
(* two halves of an exec.  At the end, that a declassification clears the  *)
(* labels, for which attributes must not fail in two ways.                 *)
(***************************************************************************)
EXTENDS Realm, TLAPS

\* Inode data that is not in memory has yet to be read, only files have
\* labels, and only files that exist contain data.
ShapeInv ==
  /\ \A o \in Objects \ loaded : ~core[o].checked
  /\ \A o \in Objects \ Files : ~disk[o].in_realm
  /\ holds \subseteq exists

\* Only public files and no process have the public identifier.
PublicInv ==
  /\ \A f \in Files : core[f].identifier = PUBLIC \/ disk[f].identifier = PUBLIC
                        => f \in PublicFiles
  /\ \A p \in Procs : cred[p].identifier # PUBLIC /\ prepared[p].identifier # PUBLIC

\* A file that a ticket can name is in the realm in memory, and what is in
\* the realm in memory is so on disk, unless the file is released.
LabelInv ==
  \A f \in Files \intersect loaded :
    /\ core[f].identifier \in Identifiers =>
         core[f].in_realm \/ f \in declassified \union lost
    /\ core[f].in_realm => disk[f].in_realm \/ f \in lost

\* The credentials an exec prepared have the taint of the current ones.
ExecInv == \A p \in preparing : prepared[p].in_realm = cred[p].in_realm

FlowInv ==
  /\ Citadel \notin knows
  /\ holds \subseteq Followed
  /\ TaintFollowsData
  /\ LabelFollowsData

IInv == TypeOK /\ ShapeInv /\ PublicInv /\ LabelInv /\ ExecInv /\ FlowInv

-----------------------------------------------------------------------------
(* Housekeeping.                                                           *)

\* What dentry_housekeeping makes of inode data c0: it stays well typed, and
\* for a file the label is the old one or the one just read from disk.
LEMMA HousekeptData ==
  ASSUME TypeOK, ShapeInv, NEW p \in Procs, NEW o \in Objects,
         NEW c0 \in InodeData, NEW bad, NEW c,
         c = dentry_housekeeping(p, o, c0, bad)
  PROVE  /\ c \in InodeData
         /\ c.checked
         /\ o \in Files =>
              /\ c.in_realm <=> \/ c0.in_realm
                                \/ ~c0.checked /\ "get" \notin bad /\ disk[o].in_realm
              /\ c.identifier # c0.identifier =>
                   c.in_realm /\ c.identifier = disk[o].identifier
<1> DEFINE k == inode_housekeeping(p, o, c0)
           d == IF "get" \in bad THEN NoXattrs ELSE disk[o]
<1>1. k \in InodeData /\ (o \in Files => k = c0)
  BY RealmAssumption, Zenon DEF TypeOK, inode_housekeeping, InodeData, Cred
<1>2. d \in Xattrs
  BY DEF TypeOK, Xattrs, NoXattrs
<1>3. Named(d) => d.identifier \in AllIds
  BY <1>2 DEF Named, Xattrs
<1>4. c = IF k.checked THEN k
          ELSE [in_realm |-> k.in_realm \/ d.in_realm,
                identifier |-> IF Named(d) THEN d.identifier ELSE k.identifier,
                anonymous |-> k.anonymous /\ ~Named(d),
                checked |-> TRUE]
  BY DEF dentry_housekeeping
<1> HIDE DEF k, d
<1>5. c \in InodeData /\ c.checked
  BY <1>1, <1>2, <1>3, <1>4 DEF InodeData, Xattrs
<1>6. ASSUME o \in Files
      PROVE  /\ c.in_realm <=> c0.in_realm \/ (~c0.checked /\ d.in_realm)
             /\ c.identifier # c0.identifier =>
                  ~c0.checked /\ Named(d) /\ c.identifier = d.identifier
  BY <1>1, <1>2, <1>4, <1>6 DEF InodeData, Xattrs
<1>7. d = IF "get" \in bad THEN NoXattrs ELSE disk[o]
  BY DEF d
<1>8. Named(d) => "get" \notin bad /\ d.in_realm
  BY <1>7 DEF Named, NoXattrs
<1> QED
  BY <1>5, <1>6, <1>7, <1>8 DEF NoXattrs

\* Reading the label of o keeps what the labels promise; a file that contains
\* classified data is labelled afterwards unless the read cost its label.
LEMMA HousekeepingKeeps ==
  ASSUME TypeOK, ShapeInv, PublicInv, LabelInv, LabelFollowsData,
         NEW p \in Procs, NEW o \in Objects, NEW bad, NEW c,
         NEW c0 \in InodeData,
         \/ c0 = core[o] /\ o \in loaded
         \/ ~core[o].checked /\ \E n \in BOOLEAN : c0 = alloc_security(n),
         c = dentry_housekeeping(p, o, c0, bad),
         core' = [core EXCEPT ![o] = c],
         o \in exists,
         loaded' = loaded \union {o},
         lost' = lost \union Missed(o, bad),
         UNCHANGED <<disk, exists, declassified>>
  PROVE  /\ core' \in [Objects -> InodeData]
         /\ loaded' \subseteq exists'
         /\ lost' \subseteq Files
         /\ \A x \in Objects \ loaded' : ~core'[x].checked
         /\ \A f \in Files : core'[f].identifier = PUBLIC => f \in PublicFiles
         /\ LabelInv'
         /\ \A f \in holds \ lost' : Labelled(f)'
<1> USE DEF TypeOK
<1>1. /\ c \in InodeData
      /\ c.checked
      /\ o \in Files =>
           /\ c.in_realm <=> \/ c0.in_realm
                             \/ ~c0.checked /\ "get" \notin bad /\ disk[o].in_realm
           /\ c.identifier # c0.identifier =>
                c.in_realm /\ c.identifier = disk[o].identifier
  BY HousekeptData
<1>2. /\ core' \in [Objects -> InodeData]
      /\ core'[o] = c
      /\ \A x \in Objects : x # o => core'[x] = core[x]
  BY <1>1
<1>3. \/ c0 = core[o] /\ o \in loaded
      \/ /\ ~core[o].checked /\ ~c0.checked /\ ~c0.in_realm
         /\ c0.identifier = ZERO
  BY DEF alloc_security
<1>4. lost' \subseteq Files /\ loaded' \subseteq exists'
  BY DEF Missed, ShapeInv
<1>5. \A x \in Objects \ loaded' : ~core'[x].checked
  BY <1>2 DEF ShapeInv
<1>6. \A f \in Files : core'[f].identifier = PUBLIC => f \in PublicFiles
  BY <1>1, <1>2, <1>3, RealmAssumption DEF PublicInv, Objects
<1>7. ASSUME NEW f \in Files \intersect loaded'
      PROVE  /\ core'[f].identifier \in Identifiers =>
                  core'[f].in_realm \/ f \in declassified' \union lost'
             /\ core'[f].in_realm => disk'[f].in_realm \/ f \in lost'
  <2>1. CASE f # o
    BY <1>2, <2>1 DEF LabelInv, Objects
  <2>2. CASE f = o /\ c0 = core[o] /\ o \in loaded
    BY <1>1, <1>2, <2>2 DEF LabelInv
  <2>3. CASE f = o /\ ~c0.in_realm /\ c0.identifier = ZERO
    BY <1>1, <1>2, <2>3, RealmAssumption
  <2> QED
    BY <1>3, <2>1, <2>2, <2>3
<1>8. ASSUME NEW f \in holds \ lost'
      PROVE  Labelled(f)'
  <2>1. CASE f # o
    BY <1>2, <2>1 DEF LabelFollowsData, Labelled, Objects
  <2>2. CASE f = o
    <3>1. disk[o].in_realm /\ o \in Files
      BY <2>2 DEF LabelFollowsData, Labelled
    <3>2. core[o].checked \/ "get" \notin bad
      BY <2>2, <3>1 DEF Missed
    <3>3. c.in_realm
      BY <1>1, <1>3, <2>2, <3>1, <3>2 DEF LabelFollowsData, Labelled, ShapeInv
    <3> QED
      BY <1>2, <2>2, <3>1, <3>3 DEF Labelled
  <2> QED
    BY <2>1, <2>2
<1> QED
  BY <1>2, <1>4, <1>5, <1>6, <1>7, <1>8 DEF LabelInv

-----------------------------------------------------------------------------
(* Access.                                                                 *)

\* trm_file_open and trm_file_permission keep the invariant up to the flow,
\* and an access to a file that is labelled afterwards taints the process,
\* while one by a tainted process is to a labelled file.
LEMMA PermissionKeeps ==
  ASSUME ~Overlap, IInv, NEW p \in Procs, NEW o \in Objects, NEW bad,
         NEW granted, file_permission(p, o, bad, granted)
  PROVE  /\ cred' \in [Procs -> Cred]
         /\ core' \in [Objects -> InodeData]
         /\ lost' \subseteq Files
         /\ \A x \in Objects \ loaded' : ~core'[x].checked
         /\ PublicInv' /\ LabelInv' /\ ExecInv'
         /\ \A q \in Procs : cred[q].in_realm => cred'[q].in_realm
         /\ \A f \in holds \ lost' : Labelled(f)'
         /\ o \in Followed' /\ Labelled(o)' /\ granted /\ p # Citadel
              => cred'[p].in_realm
         /\ o \in Followed' /\ cred[p].in_realm /\ granted /\ p # Citadel
              => Labelled(o)'
<1> DEFINE c == dentry_housekeeping(p, o, core[o], bad)
<1>1. /\ p \in live /\ o \in loaded /\ p \notin preparing
      /\ granted = can_access(p, o, c)
      /\ core' = [core EXCEPT ![o] = c]
      /\ cred' = [cred EXCEPT ![p].in_realm = @ \/ Taints(p, o, c)]
      /\ lost' = lost \union Missed(o, bad)
      /\ UNCHANGED <<live, preparing, prepared, tickets, exists, loaded, disk,
                     declassified>>
  BY DEF file_permission, HookRuns
<1>2. core[o] \in InodeData /\ o \in exists /\ loaded' = loaded \union {o}
  BY <1>1 DEF IInv, TypeOK
<1>3. c = dentry_housekeeping(p, o, core[o], bad)
  OBVIOUS
<1> HIDE DEF c
<1>4. /\ core' \in [Objects -> InodeData]
      /\ lost' \subseteq Files
      /\ \A x \in Objects \ loaded' : ~core'[x].checked
      /\ \A f \in Files : core'[f].identifier = PUBLIC => f \in PublicFiles
      /\ LabelInv'
      /\ \A f \in holds \ lost' : Labelled(f)'
  <2>1. TypeOK /\ ShapeInv /\ PublicInv /\ LabelInv /\ LabelFollowsData
    BY DEF IInv, FlowInv
  <2> QED
    BY <1>1, <1>2, <1>3, <2>1, HousekeepingKeeps, Zenon
<1>5. /\ cred' \in [Procs -> Cred]
      /\ cred'[p] = [cred[p] EXCEPT !.in_realm = @ \/ Taints(p, o, c)]
      /\ \A q \in Procs : q # p => cred'[q] = cred[q]
  <2>1. Taints(p, o, c) \in BOOLEAN
    BY DEF Taints, Ticketed
  <2> QED
    BY <1>1, <2>1 DEF IInv, TypeOK, Cred
<1>6. /\ cred'[p].identifier = cred[p].identifier
      /\ cred'[p].in_realm <=> cred[p].in_realm \/ Taints(p, o, c)
  BY <1>5 DEF IInv, TypeOK, Cred, Taints, Ticketed
<1>7. PublicInv'
  BY <1>1, <1>4, <1>5, <1>6 DEF PublicInv, IInv
<1>8. ExecInv'
  BY <1>1, <1>5 DEF ExecInv, IInv, TypeOK
<1>9. ASSUME o \in Followed', granted, p # Citadel
      PROVE  (~c.in_realm /\ ~cred[p].in_realm) \/ (Ticketed(p, c) /\ ~Exempted(p, o, c))
  <2>1. o \in Files /\ o \notin PublicFiles
    BY <1>9 DEF Followed
  <2>2. core'[o] = c
    BY <1>1, <1>2 DEF IInv, TypeOK
  <2>3. c.identifier # PUBLIC
    BY <2>1, <2>2, <1>4
  <2> QED
    BY <1>1, <1>9, <2>1, <2>3, RealmAssumption DEF can_access, Exempted
<1>10. core'[o] = c /\ c \in InodeData /\ c.checked
  <2>1. TypeOK /\ ShapeInv
    BY DEF IInv
  <2> QED
    BY <1>1, <1>2, <1>3, <2>1, HousekeptData DEF TypeOK
<1>11. o \in Followed' /\ Labelled(o)' /\ granted /\ p # Citadel
         => cred'[p].in_realm
  BY <1>1, <1>6, <1>9, <1>10 DEF Labelled, Taints
<1>12. ASSUME o \in Followed', cred[p].in_realm, granted, p # Citadel
       PROVE  Labelled(o)'
  <2>1. Ticketed(p, c)
    BY <1>9, <1>12
  <2>2. c.identifier \in Identifiers
    BY <2>1 DEF Ticketed, IInv, TypeOK
  <2>3. o \in Files /\ o \in loaded' /\ o \notin declassified' /\ o \notin lost'
    BY <1>1, <1>12 DEF Followed
  <2>4. core'[o].in_realm /\ disk'[o].in_realm
    BY <1>4, <1>10, <2>2, <2>3 DEF LabelInv
  <2> QED
    BY <2>4 DEF Labelled
<1>13. \A q \in Procs : cred[q].in_realm => cred'[q].in_realm
  BY <1>5, <1>6, Zenon
<1> QED
  BY <1>4, <1>5, <1>7, <1>8, <1>11, <1>12, <1>13

LEMMA ReadKeeps ==
  ASSUME ~Overlap, IInv, NEW p \in Procs, NEW o \in Objects, NEW bad,
         read(p, o, bad)
  PROVE  IInv'
<1> PICK granted \in BOOLEAN :
      /\ file_permission(p, o, bad, granted)
      /\ holds' = holds \ lost'
      /\ knows' = IF granted /\ o \in holds' /\ p # Citadel
                    THEN knows \union {p} ELSE knows
  BY DEF read
<1>1. /\ cred' \in [Procs -> Cred]
      /\ core' \in [Objects -> InodeData]
      /\ lost' \subseteq Files
      /\ \A x \in Objects \ loaded' : ~core'[x].checked
      /\ PublicInv' /\ LabelInv' /\ ExecInv'
      /\ \A q \in Procs : cred[q].in_realm => cred'[q].in_realm
      /\ \A f \in holds \ lost' : Labelled(f)'
      /\ o \in Followed' /\ Labelled(o)' /\ granted /\ p # Citadel
           => cred'[p].in_realm
  BY PermissionKeeps
<1>2. p \in live /\ UNCHANGED <<live, preparing, prepared, tickets, exists,
                                loaded, disk, declassified>>
  BY DEF file_permission, HookRuns
<1>3. TypeOK'
  BY <1>1, <1>2 DEF IInv, TypeOK
<1>4. ShapeInv'
  BY <1>1, <1>2 DEF IInv, ShapeInv
<1>5. holds' \subseteq Followed'
  BY <1>2 DEF IInv, FlowInv, Followed
<1>6. FlowInv'
  <2>1. Citadel \notin knows' /\ LabelFollowsData'
    BY <1>1 DEF IInv, FlowInv, LabelFollowsData
  <2>2. TaintFollowsData'
    BY <1>1, <1>5 DEF IInv, TypeOK, FlowInv, TaintFollowsData
  <2> QED
    BY <1>5, <2>1, <2>2 DEF FlowInv
<1> QED
  BY <1>1, <1>3, <1>4, <1>6 DEF IInv

LEMMA WriteKeeps ==
  ASSUME ~Overlap, IInv, NEW p \in Procs, NEW o \in Objects, NEW bad,
         write(p, o, bad)
  PROVE  IInv'
<1> PICK granted \in BOOLEAN :
      /\ file_permission(p, o, bad, granted)
      /\ holds' = IF granted /\ p \in knows /\ o \in Followed'
                    THEN (holds \ lost') \union {o} ELSE holds \ lost'
      /\ knows' = knows
  BY DEF write
<1>1. /\ cred' \in [Procs -> Cred]
      /\ core' \in [Objects -> InodeData]
      /\ lost' \subseteq Files
      /\ \A x \in Objects \ loaded' : ~core'[x].checked
      /\ PublicInv' /\ LabelInv' /\ ExecInv'
      /\ \A q \in Procs : cred[q].in_realm => cred'[q].in_realm
      /\ \A f \in holds \ lost' : Labelled(f)'
      /\ o \in Followed' /\ cred[p].in_realm /\ granted /\ p # Citadel
           => Labelled(o)'
  BY PermissionKeeps
<1>2. o \in loaded /\ UNCHANGED <<live, preparing, prepared, tickets, exists,
                                  loaded, disk, declassified>>
  BY DEF file_permission, HookRuns
<1>3. TypeOK'
  BY <1>1, <1>2 DEF IInv, TypeOK, Followed
<1>4. ShapeInv'
  BY <1>1, <1>2 DEF IInv, ShapeInv, TypeOK
<1>5. FlowInv'
  <2>1. Citadel \notin knows' /\ TaintFollowsData'
    BY <1>1 DEF IInv, TypeOK, FlowInv, TaintFollowsData
  <2>2. LabelFollowsData'
    BY <1>1 DEF IInv, FlowInv, TaintFollowsData, LabelFollowsData
  <2>3. holds' \subseteq Followed'
    BY <1>2 DEF IInv, FlowInv, Followed
  <2> QED
    BY <2>1, <2>2, <2>3 DEF FlowInv
<1> QED
  BY <1>1, <1>3, <1>4, <1>5 DEF IInv

LEMMA InodePermissionKeeps ==
  ASSUME ~Overlap, IInv, NEW p \in Procs, NEW o \in Objects,
         inode_permission(p, o)
  PROVE  IInv'
<1> DEFINE c == inode_housekeeping(p, o, core[o])
<1>1. /\ p \in live /\ o \in loaded /\ p \notin preparing
      /\ core' = [core EXCEPT ![o] = c]
      /\ cred' = [cred EXCEPT ![p].in_realm = @ \/ Taints(p, o, c)]
      /\ UNCHANGED <<live, preparing, prepared, tickets, exists, loaded, disk,
                     ghosts>>
  BY DEF inode_permission, HookRuns
<1>2. c \in InodeData /\ (o \in Files => c = core[o])
  <2>1. core[o] \in InodeData /\ cred[p] \in Cred
    BY DEF IInv, TypeOK
  <2> QED
    BY <2>1, RealmAssumption, Zenon DEF inode_housekeeping, InodeData, Cred
<1> HIDE DEF c
<1>3. /\ core' \in [Objects -> InodeData]
      /\ \A f \in Files : core'[f] = core[f]
      /\ \A x \in Objects \ loaded : core'[x] = core[x]
  BY <1>1, <1>2 DEF IInv, TypeOK, Objects
<1>4. /\ cred' \in [Procs -> Cred]
      /\ \A q \in Procs : /\ cred'[q].identifier = cred[q].identifier
                          /\ cred[q].in_realm => cred'[q].in_realm
                          /\ q # p => cred'[q] = cred[q]
  <2>1. Taints(p, o, c) \in BOOLEAN
    BY DEF Taints, Ticketed
  <2> QED
    BY <1>1, <2>1 DEF IInv, TypeOK, Cred
<1>5. TypeOK'
  BY <1>1, <1>3, <1>4 DEF IInv, TypeOK, ghosts
<1>6. ShapeInv' /\ PublicInv' /\ LabelInv'
  BY <1>1, <1>3, <1>4 DEF IInv, ShapeInv, PublicInv, LabelInv, ghosts
<1>7. ExecInv'
  BY <1>1, <1>4 DEF IInv, TypeOK, ExecInv
<1>8. FlowInv'
  <2>1. TaintFollowsData'
    BY <1>1, <1>4 DEF IInv, TypeOK, FlowInv, TaintFollowsData, ghosts
  <2>2. LabelFollowsData'
    BY <1>1, <1>3 DEF IInv, TypeOK, FlowInv, LabelFollowsData, Labelled, ghosts
  <2> QED
    BY <1>1, <2>1, <2>2 DEF IInv, FlowInv, Followed, ghosts
<1> QED
  BY <1>5, <1>6, <1>7, <1>8 DEF IInv

\* The hooks that only keep house, and the lookup of an inode.
LEMMA HousekeepingActionsKeep ==
  ASSUME IInv, NEW p \in Procs, NEW o \in Objects, NEW bad,
         \/ file_ioctl(p, o, bad)
         \/ \E numbered \in Numbered : lookup(p, o, numbered, bad)
  PROVE  IInv'
<1>1. PICK c0 \in InodeData :
        /\ \/ c0 = core[o] /\ o \in loaded
           \/ ~core[o].checked /\ \E n \in BOOLEAN : c0 = alloc_security(n)
        /\ core' = [core EXCEPT ![o] = dentry_housekeeping(p, o, c0, bad)]
        /\ o \in exists
        /\ loaded' = loaded \union {o}
        /\ lost' = lost \union Missed(o, bad)
        /\ holds' = holds \ lost'
        /\ UNCHANGED <<procs, exists, disk, knows, declassified>>
  <2>1. CASE file_ioctl(p, o, bad)
    <3>1. core[o] \in InodeData /\ o \in exists /\ o \in loaded
      BY <2>1 DEF file_ioctl, HookRuns, IInv, TypeOK
    <3>2. core' = [core EXCEPT ![o] = dentry_housekeeping(p, o, core[o], bad)]
      BY <2>1, <3>1 DEF file_ioctl, IInv, TypeOK
    <3> QED
      BY <2>1, <3>1, <3>2, Zenon DEF file_ioctl
  <2>2. ASSUME NEW numbered \in Numbered, lookup(p, o, numbered, bad)
        PROVE  \E c0 \in InodeData :
                 /\ ~core[o].checked /\ \E n \in BOOLEAN : c0 = alloc_security(n)
                 /\ core' = [core EXCEPT ![o] = dentry_housekeeping(p, o, c0, bad)]
    <3>1. numbered \in BOOLEAN
      BY RealmAssumption
    <3>2. alloc_security(numbered) \in InodeData
      BY <3>1 DEF alloc_security, InodeData, AllIds
    <3>3. ~core[o].checked
      BY <2>2 DEF lookup, IInv, ShapeInv
    <3> QED
      BY <2>2, <3>1, <3>2, <3>3, Zenon DEF lookup
  <2>3. ASSUME NEW numbered \in Numbered, lookup(p, o, numbered, bad)
        PROVE  /\ o \in exists
               /\ loaded' = loaded \union {o}
               /\ lost' = lost \union Missed(o, bad)
               /\ holds' = holds \ lost'
               /\ UNCHANGED <<procs, exists, disk, knows, declassified>>
    BY <2>3 DEF lookup
  <2> QED
    BY <2>1, <2>2, <2>3
<1>2. TypeOK /\ ShapeInv /\ PublicInv /\ LabelInv /\ LabelFollowsData
  BY DEF IInv, FlowInv
<1>3. /\ core' \in [Objects -> InodeData]
      /\ loaded' \subseteq exists'
      /\ lost' \subseteq Files
      /\ \A x \in Objects \ loaded' : ~core'[x].checked
      /\ \A f \in Files : core'[f].identifier = PUBLIC => f \in PublicFiles
      /\ LabelInv'
      /\ \A f \in holds \ lost' : Labelled(f)'
  BY <1>1, <1>2, HousekeepingKeeps, Zenon
<1>4. TypeOK'
  BY <1>1, <1>2, <1>3 DEF TypeOK, procs
<1>5. ShapeInv' /\ PublicInv' /\ ExecInv'
  BY <1>1, <1>3 DEF IInv, ShapeInv, PublicInv, ExecInv, procs
<1>6. FlowInv'
  BY <1>1, <1>3 DEF IInv, FlowInv, Followed, TaintFollowsData, LabelFollowsData,
                    procs
<1> QED
  BY <1>3, <1>4, <1>5, <1>6 DEF IInv

\* A new inode: its label is on disk, or lost with the write that failed.
LEMMA CreateKeeps ==
  ASSUME IInv, NEW p \in Procs, NEW o \in Objects, NEW bad,
         NEW subsumed \in BOOLEAN, NEW numbered \in Numbered,
         create(p, o, subsumed, numbered, bad)
  PROVE  IInv'
<1> DEFINE tainted == o \in Files /\ cred[p].in_realm
           c1 == [alloc_security(numbered) EXCEPT
                    !.in_realm = tainted \/ (o \in Files /\ subsumed),
                    !.anonymous = @ /\ ~tainted,
                    !.identifier = IF tainted THEN cred[p].identifier ELSE @]
           c == dentry_housekeeping(p, o, c1, bad)
           d == [in_realm |-> c.in_realm /\ "in_realm" \notin bad,
                 identifier |-> IF c.in_realm /\ ~c.anonymous /\ "identifier" \notin bad
                                  THEN c.identifier ELSE NONE]
<1>1. /\ o \notin exists
      /\ exists' = exists \union {o}
      /\ loaded' = loaded \union {o}
      /\ core' = [core EXCEPT ![o] = c]
      /\ disk' = [disk EXCEPT ![o] = d]
      /\ lost' = lost \union {x \in {o} : c.in_realm /\ "in_realm" \in bad}
      /\ p \in live
      /\ UNCHANGED <<procs, knows, holds, declassified>>
  BY DEF create
<1>2. TypeOK /\ ShapeInv /\ cred[p] \in Cred /\ numbered \in BOOLEAN
  BY RealmAssumption DEF IInv, TypeOK
<1>3. /\ c1 \in InodeData
      /\ ~c1.checked
      /\ c1.in_realm => o \in Files
      /\ c1.identifier \in {cred[p].identifier, ZERO}
      /\ c1.identifier \in Identifiers => c1.in_realm
  BY <1>2, RealmAssumption, Zenon DEF Cred, InodeData, alloc_security, AllIds
<1> HIDE DEF c1
<1>4. /\ c \in InodeData
      /\ c.checked
      /\ o \in Files =>
           /\ c1.in_realm => c.in_realm
           /\ c.identifier # c1.identifier =>
                c.in_realm /\ c.identifier = disk[o].identifier
  BY <1>2, <1>3, HousekeptData
<1>5. o \notin Files => ~c.in_realm
  <2>1. ASSUME o \notin Files PROVE ~c.in_realm
    <3>1. ~disk[o].in_realm /\ ~c1.in_realm
      BY <1>2, <1>3, <2>1 DEF ShapeInv
    <3>2. ~inode_housekeeping(p, o, c1).in_realm
      BY <1>3, <3>1 DEF inode_housekeeping, InodeData
    <3> QED
      BY <3>1, <3>2, Zenon DEF dentry_housekeeping, NoXattrs
  <2> QED
    BY <2>1
<1> HIDE DEF c
<1>6. d \in Xattrs /\ (d.in_realm <=> c.in_realm /\ "in_realm" \notin bad)
  BY <1>4, Zenon DEF Xattrs, InodeData
<1>7. d.identifier \in {c.identifier, NONE}
  OBVIOUS
<1> HIDE DEF d
<1>8. /\ core' \in [Objects -> InodeData] /\ core'[o] = c
      /\ disk' \in [Objects -> Xattrs] /\ disk'[o] = d
      /\ \A x \in Objects : x # o => core'[x] = core[x] /\ disk'[x] = disk[x]
  BY <1>1, <1>2, <1>4, <1>6 DEF TypeOK
<1>9. TypeOK'
  <2>1. lost' \subseteq Files
    BY <1>1, <1>2, <1>5 DEF TypeOK
  <2> QED
    BY <1>1, <1>2, <1>8, <2>1 DEF TypeOK, procs
<1>10. ShapeInv'
  BY <1>1, <1>2, <1>5, <1>6, <1>8, SMTT(30) DEF ShapeInv
<1>11. PublicInv'
  <2>1. o \in Files /\ c.identifier = PUBLIC => o \in PublicFiles
    BY <1>3, <1>4, RealmAssumption DEF IInv, PublicInv
  <2> QED
    BY <1>1, <1>7, <1>8, <2>1, RealmAssumption, SMTT(30)
    DEF IInv, PublicInv, procs, Objects, AllIds
<1>12. LabelInv'
  <2>1. o \in Files /\ c.identifier \in Identifiers => c.in_realm
    BY <1>3, <1>4
  <2>2. c.in_realm => d.in_realm \/ o \in lost'
    BY <1>1, <1>6, SMTT(30)
  <2> QED
    BY <1>1, <1>8, <2>1, <2>2, SMTT(30) DEF IInv, LabelInv, Objects
<1>13. ExecInv'
  BY <1>1, Zenon DEF IInv, ExecInv, procs
<1>14. FlowInv'
  <2>1. o \notin holds
    BY <1>1, SMTT(30) DEF IInv, ShapeInv
  <2>2. LabelFollowsData'
    BY <1>1, <1>2, <1>8, <2>1 DEF IInv, FlowInv, LabelFollowsData, Labelled, TypeOK, Objects
  <2> QED
    BY <1>1, <2>1, <2>2 DEF IInv, FlowInv, Followed, TaintFollowsData, procs
<1> QED
  BY <1>9, <1>10, <1>11, <1>12, <1>13, <1>14 DEF IInv

LEMMA BlankInodeData == alloc_security(TRUE) \in InodeData
BY DEF alloc_security, InodeData, AllIds

\* Inodes leave memory or go altogether.
LEMMA RemovalKeeps ==
  ASSUME IInv, NEW o \in Objects, evict(o) \/ unlink(o)
  PROVE  IInv'
<1> DEFINE blank == alloc_security(TRUE)
<1>1. /\ loaded' = loaded \ {o}
      /\ core' = [core EXCEPT ![o] = blank]
      /\ UNCHANGED <<procs, knows>>
  BY Zenon DEF evict, unlink, ghosts
<1>2. /\ blank \in InodeData /\ ~blank.checked /\ blank.identifier # PUBLIC
      /\ ~NoXattrs.in_realm /\ NoXattrs.identifier # PUBLIC
  BY BlankInodeData, RealmAssumption DEF alloc_security, NoXattrs, AllIds
<1> HIDE DEF blank
<1>3. disk' = disk \/ disk' = [disk EXCEPT ![o] = NoXattrs]
  BY Zenon DEF evict, unlink
<1>4. /\ loaded' \subseteq exists' /\ exists' \subseteq exists
      /\ holds' \subseteq holds /\ holds' \subseteq exists'
      /\ o \in holds' => disk' = disk
      /\ declassified' \subseteq declassified /\ lost' \subseteq lost
      /\ \A x : x # o => /\ x \in declassified => x \in declassified'
                         /\ x \in lost => x \in lost'
  <2>1. loaded \subseteq exists /\ holds \subseteq exists
    BY DEF IInv, TypeOK, ShapeInv
  <2>2. CASE evict(o)
    BY <2>1, <2>2, SMTT(30) DEF evict, ghosts
  <2>3. CASE unlink(o)
    BY <2>1, <2>3, SMTT(30) DEF unlink
  <2> QED
    BY <2>2, <2>3
<1>6. /\ core' \in [Objects -> InodeData] /\ core'[o] = blank
      /\ \A x \in Objects : x # o => core'[x] = core[x]
  <2>1. core \in [Objects -> InodeData]
    BY DEF IInv, TypeOK
  <2> QED
    BY <1>1, <1>2, <2>1, SMTT(30)
<1>7. /\ disk' \in [Objects -> Xattrs] /\ disk'[o] \in {disk[o], NoXattrs}
      /\ \A x \in Objects : x # o => disk'[x] = disk[x]
  <2>1. disk \in [Objects -> Xattrs] /\ NoXattrs \in Xattrs
    BY DEF IInv, TypeOK, NoXattrs, Xattrs
  <2> QED
    BY <1>3, <2>1, SMTT(30)
<1>8. TypeOK'
  <2>1. TypeOK
    BY DEF IInv
  <2> QED
    BY <1>1, <1>4, <1>6, <1>7, <2>1, SMTT(30) DEF TypeOK, procs
<1>9. ShapeInv'
  <2>1. ShapeInv
    BY DEF IInv
  <2> QED
    BY <1>1, <1>2, <1>4, <1>6, <1>7, <2>1, SMTT(30) DEF ShapeInv
<1>10. PublicInv'
  <2>1. PublicInv
    BY DEF IInv
  <2> QED
    BY <1>1, <1>2, <1>6, <1>7, <2>1, SMTT(30) DEF PublicInv, procs, Objects
<1>11. LabelInv'
  <2>1. LabelInv
    BY Zenon DEF IInv
  <2> QED
    BY <1>1, <1>4, <1>6, <1>7, <2>1, SMTT(30) DEF LabelInv, Objects
<1>12. ExecInv'
  BY <1>1 DEF IInv, ExecInv, procs
<1>13. LabelFollowsData'
  <2>1. LabelFollowsData /\ holds \subseteq Objects
    BY DEF IInv, FlowInv, TypeOK, Objects
  <2> QED
    BY <1>1, <1>4, <1>6, <1>7, <2>1, SMTT(30) DEF LabelFollowsData, Labelled
<1>14. FlowInv'
  <2>1. FlowInv
    BY DEF IInv
  <2>2. holds' \subseteq Followed'
    BY <1>1, <1>4, <2>1 DEF FlowInv, Followed, ghosts, evict, unlink
  <2> QED
    BY <1>1, <1>13, <2>1, <2>2 DEF FlowInv, TaintFollowsData, procs
<1> QED
  BY <1>8, <1>9, <1>10, <1>11, <1>12, <1>14 DEF IInv

LEMMA RegisterKeeps ==
  ASSUME IInv, NEW o \in Files, NEW i \in Identifiers \union {PUBLIC}, NEW bad,
         register(o, i, bad)
  PROVE  IInv'
<1> DEFINE accepted == "identifier" \notin bad
           marked == "in_realm" \notin bad
           c == IF accepted THEN [in_realm |-> TRUE, identifier |-> i,
                                  anonymous |-> FALSE, checked |-> TRUE]
                ELSE [core[o] EXCEPT !.checked = FALSE]
           d == [in_realm |-> disk[o].in_realm \/ marked,
                 identifier |-> IF accepted THEN i ELSE disk[o].identifier]
<1>1. o \in Objects /\ core[o] \in InodeData /\ disk[o] \in Xattrs /\ i \in AllIds
  BY DEF IInv, TypeOK, Objects, AllIds
<1>2. /\ o \in loaded
      /\ i = PUBLIC => o \in PublicFiles
      /\ core' = [core EXCEPT ![o] = c]
      /\ disk' = [disk EXCEPT ![o] = d]
      /\ lost' = IF ~accepted THEN lost
                 ELSE IF marked THEN lost \ {o} ELSE lost \union {o}
      /\ declassified' = IF accepted THEN declassified \ {o} ELSE declassified
      /\ holds' = IF accepted /\ o \in Followed'
                    THEN (holds \ lost') \union {o} ELSE holds \ lost'
      /\ UNCHANGED <<procs, exists, loaded, knows>>
  BY <1>1 DEF register, IInv, TypeOK
<1>3. /\ c \in InodeData /\ d \in Xattrs
      /\ accepted => c.in_realm /\ c.identifier = i /\ c.checked
      /\ ~accepted => /\ ~c.checked /\ c.in_realm = core[o].in_realm
                      /\ c.identifier = core[o].identifier
      /\ d.in_realm <=> disk[o].in_realm \/ marked
      /\ d.identifier \in {i, disk[o].identifier}
  BY <1>1, ZenonT(30) DEF InodeData, Xattrs
<1> HIDE DEF c, d, accepted, marked
<1>4. /\ core' \in [Objects -> InodeData] /\ core'[o] = c
      /\ disk' \in [Objects -> Xattrs] /\ disk'[o] = d
      /\ \A x \in Objects : x # o => core'[x] = core[x] /\ disk'[x] = disk[x]
  BY <1>1, <1>2, <1>3 DEF IInv, TypeOK
<1>5. TypeOK'
  BY <1>2, <1>4 DEF IInv, TypeOK, procs, Followed
<1>6. ShapeInv'
  BY <1>1, <1>2, <1>4, SMTT(30) DEF IInv, ShapeInv, TypeOK
<1>7. PublicInv'
  <2>1. /\ \A f \in Files : core[f].identifier = PUBLIC \/ disk[f].identifier = PUBLIC
                              => f \in PublicFiles
        /\ \A p \in Procs : cred[p].identifier # PUBLIC /\ prepared[p].identifier # PUBLIC
    BY Zenon DEF IInv, PublicInv
  <2>2. c.identifier = PUBLIC \/ d.identifier = PUBLIC => o \in PublicFiles
    BY <1>2, <1>3, <2>1
  <2>3. \A f \in Files : core'[f].identifier = PUBLIC \/ disk'[f].identifier = PUBLIC
                            => f \in PublicFiles
    BY <1>4, <2>1, <2>2, Zenon DEF Objects
  <2>4. cred' = cred /\ prepared' = prepared
    BY <1>2, Zenon DEF procs
  <2> QED BY <2>1, <2>3, <2>4, Zenon DEF PublicInv
<1>8. LabelInv'
  <2>1. /\ c.identifier \in Identifiers =>
             c.in_realm \/ o \in declassified' \union lost'
        /\ c.in_realm => d.in_realm \/ o \in lost'
    BY <1>2, <1>3 DEF IInv, LabelInv
  <2> QED
    BY <1>2, <1>4, <2>1, SMTT(30) DEF IInv, LabelInv, Objects
<1>9. FlowInv'
  <2>1. holds' \subseteq Followed'
    BY <1>2, SMTT(30) DEF IInv, FlowInv, Followed
  <2>2. LabelFollowsData'
    <3>1. o \in holds' => d.in_realm /\ (c.in_realm \/ ~c.checked)
      BY <1>2, <1>3, <2>1, SMTT(30) DEF IInv, FlowInv, LabelFollowsData, Labelled, Followed
    <3> QED
      BY <1>2, <1>4, <3>1, SMTT(30) DEF IInv, FlowInv, LabelFollowsData, Labelled, TypeOK, Objects
  <2> QED
    BY <1>2, <2>1, <2>2 DEF IInv, FlowInv, TaintFollowsData, procs
<1> QED
  BY <1>2, <1>5, <1>6, <1>7, <1>8, <1>9 DEF IInv, ExecInv, procs

LEMMA DeclassifyKeeps ==
  ASSUME IInv, NEW o \in Files, NEW bad, declassify(o, bad)
  PROVE  IInv'
<1> DEFINE removed == core[o].in_realm /\ disk[o].in_realm /\ "in_realm" \notin bad
           accepted == ~core[o].in_realm \/ removed
           c == CASE ~core[o].in_realm -> core[o]
                  [] removed -> [core[o] EXCEPT !.in_realm = FALSE, !.checked = TRUE]
                  [] OTHER -> [core[o] EXCEPT !.checked = FALSE]
           d == [disk[o] EXCEPT !.in_realm = @ /\ ~removed]
<1>1. o \in Objects /\ core[o] \in InodeData /\ disk[o] \in Xattrs
  BY DEF IInv, TypeOK, Objects
<1>2. /\ o \in loaded
      /\ core' = [core EXCEPT ![o] = c]
      /\ disk' = [disk EXCEPT ![o] = d]
      /\ declassified' = IF accepted THEN declassified \union {o} ELSE declassified
      /\ holds' = holds \ declassified'
      /\ UNCHANGED <<procs, exists, loaded, knows, lost>>
  BY <1>1 DEF declassify, IInv, TypeOK
<1>3. /\ c \in InodeData /\ d \in Xattrs
      /\ c.identifier = core[o].identifier /\ d.identifier = disk[o].identifier
      /\ ~accepted => /\ core[o].in_realm /\ c.in_realm /\ ~c.checked
                      /\ d.in_realm = disk[o].in_realm
      /\ accepted => ~c.in_realm
      /\ d.in_realm => disk[o].in_realm
  <2>1. CASE ~core[o].in_realm
    <3>1. c = core[o] /\ accepted /\ ~removed
      BY <2>1
    <3> QED
      BY <1>1, <2>1, <3>1 DEF InodeData, Xattrs
  <2>2. CASE core[o].in_realm /\ removed
    <3>1. c = [core[o] EXCEPT !.in_realm = FALSE, !.checked = TRUE] /\ accepted
      BY <2>2
    <3> QED
      BY <1>1, <2>2, <3>1, Zenon DEF InodeData, Xattrs
  <2>3. CASE core[o].in_realm /\ ~removed
    <3>1. c = [core[o] EXCEPT !.checked = FALSE] /\ ~accepted
      BY <2>3
    <3> QED
      BY <1>1, <2>3, <3>1, Zenon DEF InodeData, Xattrs
  <2> QED
    BY <2>1, <2>2, <2>3
<1> HIDE DEF c, d, accepted, removed
<1>4. /\ core' \in [Objects -> InodeData] /\ core'[o] = c
      /\ disk' \in [Objects -> Xattrs] /\ disk'[o] = d
      /\ \A x \in Objects : x # o => core'[x] = core[x] /\ disk'[x] = disk[x]
  BY <1>1, <1>2, <1>3 DEF IInv, TypeOK
<1>5. TypeOK'
  BY <1>2, <1>4 DEF IInv, TypeOK, procs
<1>6. ShapeInv'
  BY <1>1, <1>2, <1>3, <1>4, SMTT(30) DEF IInv, ShapeInv, TypeOK
<1>7. PublicInv'
  BY <1>1, <1>2, <1>3, <1>4 DEF IInv, PublicInv, procs, Objects
<1>8. LabelInv'
  <2>1. /\ c.identifier \in Identifiers =>
             c.in_realm \/ o \in declassified' \union lost'
        /\ c.in_realm => d.in_realm \/ o \in lost'
    BY <1>2, <1>3 DEF IInv, LabelInv
  <2> QED
    BY <1>2, <1>4, <2>1 DEF IInv, LabelInv, Objects
<1>9. FlowInv'
  <2>1. LabelFollowsData'
    BY <1>2, <1>3, <1>4 DEF IInv, FlowInv, LabelFollowsData, Labelled, TypeOK, Objects
  <2> QED
    BY <1>2, <2>1 DEF IInv, FlowInv, Followed, TaintFollowsData, procs
<1> QED
  BY <1>2, <1>5, <1>6, <1>7, <1>8, <1>9, ZenonT(30) DEF IInv, ExecInv, procs

-----------------------------------------------------------------------------
(* Tickets and processes.                                                  *)

LEMMA TicketsKeep ==
  ASSUME IInv,
         \/ \E p \in Procs, i \in Identifiers : insert_ticket(p, i)
         \/ \E t \in tickets : drop_ticket(t)
  PROVE  IInv'
<1>1. /\ tickets' \subseteq Procs \X Identifiers
      /\ UNCHANGED <<live, cred, preparing, prepared, objs, ghosts>>
  BY SMTT(30) DEF IInv, TypeOK, insert_ticket, drop_ticket
<1>2. /\ TypeOK /\ ShapeInv /\ PublicInv /\ LabelInv /\ ExecInv /\ FlowInv
  BY DEF IInv
<1>3. /\ live' = live /\ cred' = cred /\ preparing' = preparing
      /\ prepared' = prepared
      /\ exists' = exists /\ loaded' = loaded /\ core' = core /\ disk' = disk
      /\ knows' = knows /\ holds' = holds
      /\ declassified' = declassified /\ lost' = lost
  BY <1>1 DEF objs, ghosts
<1>4. TypeOK'
  BY <1>1, <1>2, <1>3, SMTT(30) DEF TypeOK
<1>5. ShapeInv' /\ PublicInv'
  BY <1>2, <1>3, ZenonT(30) DEF ShapeInv, PublicInv
<1>6. LabelInv' /\ ExecInv'
  BY <1>2, <1>3 DEF LabelInv, ExecInv
<1>7. FlowInv'
  BY <1>2, <1>3 DEF FlowInv, Followed, TaintFollowsData, LabelFollowsData, Labelled
<1> QED
  BY <1>4, <1>5, <1>6, <1>7 DEF IInv

\* What a change of processes has to keep.  The objects stay as they are.
LEMMA ProcessesKeep ==
  ASSUME IInv, UNCHANGED <<objs, holds, declassified, lost>>,
         live' \subseteq Procs, cred' \in [Procs -> Cred],
         preparing' \subseteq live', prepared' \in [Procs -> Cred],
         tickets' \subseteq tickets,
         \A p \in Procs : /\ cred'[p].identifier # PUBLIC
                          /\ prepared'[p].identifier # PUBLIC,
         ExecInv', knows' \subseteq live', Citadel \notin knows', TaintFollowsData'
  PROVE  IInv'
<1>1. /\ TypeOK /\ ShapeInv /\ PublicInv /\ LabelInv
      /\ holds \subseteq Followed /\ LabelFollowsData
  BY DEF IInv, FlowInv
<1>2. /\ exists' = exists /\ loaded' = loaded /\ core' = core /\ disk' = disk
      /\ holds' = holds /\ declassified' = declassified /\ lost' = lost
  BY DEF objs
<1>3. TypeOK'
  BY <1>1, <1>2 DEF TypeOK
<1>4. ShapeInv' /\ PublicInv'
  BY <1>1, <1>2, SMTT(30) DEF ShapeInv, PublicInv
<1>5. LabelInv'
  BY <1>1, <1>2 DEF LabelInv
<1>6. FlowInv'
  BY <1>1, <1>2 DEF FlowInv, Followed, LabelFollowsData, Labelled
<1> QED
  BY <1>3, <1>4, <1>5, <1>6 DEF IInv

LEMMA NoCredData == NoCred \in Cred /\ NoCred.identifier # PUBLIC
BY RealmAssumption DEF NoCred, Cred, AllIds

LEMMA InitTaskData ==
  ASSUME IInv, NEW p \in Procs, NEW i \in Identifiers
  PROVE  /\ init_task_trm(p, i) \in Cred
         /\ init_task_trm(p, i).identifier # PUBLIC
         /\ init_task_trm(p, i).in_realm = cred[p].in_realm
<1>1. cred[p] \in Cred
  BY DEF IInv, TypeOK
<1> QED
  BY <1>1, RealmAssumption DEF init_task_trm, Cred, AllIds

LEMMA GrantPtyKeeps ==
  ASSUME IInv, NEW p \in Procs, grant_pty(p)
  PROVE  IInv'
<1>1. cred[p] \in Cred
  BY DEF IInv, TypeOK
<1> DEFINE n == [cred[p] EXCEPT !.granted_pty = TRUE]
<1>2. n \in Cred /\ n.identifier = cred[p].identifier /\ n.in_realm = cred[p].in_realm
  BY <1>1, Zenon DEF Cred
<1>3. cred' = [cred EXCEPT ![p] = n]
  BY DEF grant_pty
<1> HIDE DEF n
<1>4. cred' \in [Procs -> Cred] /\ cred'[p] = n
      /\ \A x \in Procs : x # p => cred'[x] = cred[x]
  BY <1>2, <1>3 DEF IInv, TypeOK
<1>5. \A x \in Procs : /\ cred'[x].in_realm = cred[x].in_realm
                       /\ cred'[x].identifier = cred[x].identifier
  BY <1>2, <1>4
<1>6. /\ UNCHANGED <<objs, holds, declassified, lost, live, preparing, prepared,
                     tickets, knows>>
  BY SMTT(30) DEF grant_pty, ghosts
<1>7. ExecInv' /\ TaintFollowsData'
  BY <1>5, <1>6, SMTT(30) DEF IInv, TypeOK, ExecInv, FlowInv, TaintFollowsData
<1>8. \A x \in Procs : cred'[x].identifier # PUBLIC /\ prepared'[x].identifier # PUBLIC
  BY <1>5, <1>6, Zenon DEF IInv, PublicInv
<1>9. live' \subseteq Procs /\ preparing' \subseteq live' /\ knows' \subseteq live'
      /\ prepared' \in [Procs -> Cred] /\ tickets' \subseteq tickets
      /\ Citadel \notin knows'
  BY <1>6 DEF IInv, TypeOK, FlowInv
<1> QED
  BY <1>4, <1>6, <1>7, <1>8, <1>9, ProcessesKeep

LEMMA ForkKeeps ==
  ASSUME IInv, NEW p \in Procs, NEW c \in Procs, NEW i \in Identifiers, fork(p, c, i)
  PROVE  IInv'
<1> DEFINE n == init_task_trm(p, i)
<1>1. n \in Cred /\ n.identifier # PUBLIC /\ n.in_realm = cred[p].in_realm
  BY InitTaskData
<1>2. /\ c \notin live /\ c # Citadel /\ p \in live
      /\ live' = live \union {c}
      /\ cred' = [cred EXCEPT ![c] = n]
      /\ knows' = IF p \in knows THEN knows \union {c} ELSE knows
      /\ UNCHANGED <<objs, holds, declassified, lost, preparing, prepared,
                     tickets>>
  BY DEF fork
<1> HIDE DEF n
<1>3. cred' \in [Procs -> Cred] /\ cred'[c] = n
      /\ \A x \in Procs : x # c => cred'[x] = cred[x]
  BY <1>1, <1>2 DEF IInv, TypeOK
<1>4. ExecInv' /\ TaintFollowsData'
  BY <1>1, <1>2, <1>3, SMTT(30) DEF IInv, TypeOK, ExecInv, FlowInv, TaintFollowsData
<1>5. \A x \in Procs : cred'[x].identifier # PUBLIC /\ prepared'[x].identifier # PUBLIC
  BY <1>1, <1>2, <1>3 DEF IInv, PublicInv
<1>6. live' \subseteq Procs /\ preparing' \subseteq live' /\ knows' \subseteq live'
      /\ prepared' \in [Procs -> Cred] /\ tickets' \subseteq tickets
      /\ Citadel \notin knows'
  BY <1>2 DEF IInv, TypeOK, FlowInv
<1> QED
  BY <1>2, <1>3, <1>4, <1>5, <1>6, ProcessesKeep, SMTT(30)

LEMMA ExecPrepareKeeps ==
  ASSUME IInv, NEW p \in Procs, NEW i \in Identifiers, exec_prepare(p, i)
  PROVE  IInv'
<1> DEFINE n == init_task_trm(p, i)
<1>1. n \in Cred /\ n.identifier # PUBLIC /\ n.in_realm = cred[p].in_realm
  BY InitTaskData
<1>2. /\ p \in live
      /\ preparing' = preparing \union {p}
      /\ prepared' = [prepared EXCEPT ![p] = n]
      /\ UNCHANGED <<objs, holds, declassified, lost, live, cred, tickets, knows>>
  BY DEF exec_prepare, ghosts
<1> HIDE DEF n
<1>3. prepared' \in [Procs -> Cred] /\ prepared'[p] = n
      /\ \A x \in Procs : x # p => prepared'[x] = prepared[x]
  BY <1>1, <1>2 DEF IInv, TypeOK
<1>4. ExecInv' /\ TaintFollowsData'
  BY <1>1, <1>2, <1>3, SMTT(30) DEF IInv, TypeOK, ExecInv, FlowInv, TaintFollowsData
<1>5. \A x \in Procs : cred'[x].identifier # PUBLIC /\ prepared'[x].identifier # PUBLIC
  BY <1>1, <1>2, <1>3 DEF IInv, PublicInv
<1>6. live' \subseteq Procs /\ preparing' \subseteq live' /\ knows' \subseteq live'
      /\ cred' \in [Procs -> Cred] /\ tickets' \subseteq tickets
      /\ Citadel \notin knows'
  BY <1>2 DEF IInv, TypeOK, FlowInv
<1> QED
  BY <1>2, <1>3, <1>4, <1>5, <1>6, ProcessesKeep

LEMMA ExecCommitKeeps ==
  ASSUME IInv, NEW p \in Procs, exec_commit(p)
  PROVE  IInv'
<1>1. prepared[p] \in Cred /\ prepared[p].in_realm = cred[p].in_realm
      /\ prepared[p].identifier # PUBLIC
  BY DEF exec_commit, IInv, TypeOK, ExecInv, PublicInv
<1>2. /\ cred' = [cred EXCEPT ![p] = prepared[p]]
      /\ preparing' = preparing \ {p}
      /\ prepared' = [prepared EXCEPT ![p] = NoCred]
      /\ UNCHANGED <<objs, holds, declassified, lost, live, tickets, knows>>
  BY DEF exec_commit, ghosts
<1>3. /\ cred' \in [Procs -> Cred] /\ prepared' \in [Procs -> Cred]
      /\ cred'[p] = prepared[p] /\ prepared'[p] = NoCred
      /\ \A x \in Procs : x # p => cred'[x] = cred[x] /\ prepared'[x] = prepared[x]
  BY <1>1, <1>2, NoCredData DEF IInv, TypeOK
<1>4. ExecInv' /\ TaintFollowsData'
  BY <1>1, <1>2, <1>3, SMTT(30) DEF IInv, TypeOK, ExecInv, FlowInv, TaintFollowsData
<1>5. \A x \in Procs : cred'[x].identifier # PUBLIC /\ prepared'[x].identifier # PUBLIC
  BY <1>1, <1>3, NoCredData DEF IInv, PublicInv
<1>6. live' \subseteq Procs /\ preparing' \subseteq live' /\ knows' \subseteq live'
      /\ tickets' \subseteq tickets /\ Citadel \notin knows'
  BY <1>2 DEF IInv, TypeOK, FlowInv
<1> QED
  BY <1>2, <1>3, <1>4, <1>5, <1>6, ProcessesKeep, SMTT(30)

LEMMA ExitKeeps ==
  ASSUME IInv, NEW p \in Procs, exit(p)
  PROVE  IInv'
<1>1. /\ live' = live \ {p}
      /\ cred' = [cred EXCEPT ![p] = NoCred]
      /\ preparing' = preparing \ {p}
      /\ prepared' = [prepared EXCEPT ![p] = NoCred]
      /\ tickets' \subseteq tickets
      /\ knows' = knows \ {p}
      /\ UNCHANGED <<objs, holds, declassified, lost>>
  BY DEF exit
<1>2. /\ cred' \in [Procs -> Cred] /\ prepared' \in [Procs -> Cred]
      /\ cred'[p] = NoCred /\ prepared'[p] = NoCred
      /\ \A x \in Procs : x # p => cred'[x] = cred[x] /\ prepared'[x] = prepared[x]
  BY <1>1, NoCredData DEF IInv, TypeOK
<1>3. ExecInv' /\ TaintFollowsData'
  BY <1>1, <1>2 DEF IInv, TypeOK, ExecInv, FlowInv, TaintFollowsData
<1>4. \A x \in Procs : cred'[x].identifier # PUBLIC /\ prepared'[x].identifier # PUBLIC
  BY <1>2, NoCredData DEF IInv, PublicInv
<1>5. live' \subseteq Procs /\ preparing' \subseteq live' /\ knows' \subseteq live'
      /\ Citadel \notin knows'
  BY <1>1 DEF IInv, TypeOK, FlowInv
<1> QED
  BY <1>1, <1>2, <1>3, <1>4, <1>5, ProcessesKeep

-----------------------------------------------------------------------------
(* The theorems.                                                           *)

LEMMA InvariantInit == Init => IInv
<1> SUFFICES ASSUME Init PROVE IInv
  OBVIOUS
<1>1. NoXattrs \in Xattrs
  BY DEF NoXattrs, Xattrs
<1>2. TypeOK
  BY <1>1, NoCredData, BlankInodeData, RealmAssumption, ZenonT(30) DEF Init, TypeOK, Objects
<1>3. ShapeInv /\ LabelInv /\ ExecInv
  BY SMTT(30) DEF Init, ShapeInv, LabelInv, ExecInv, alloc_security, NoXattrs
<1>4. PublicInv
  BY NoCredData, RealmAssumption
  DEF Init, PublicInv, alloc_security, NoXattrs, Objects, AllIds
<1>5. FlowInv
  BY SMTT(30) DEF Init, FlowInv, Followed, TaintFollowsData, LabelFollowsData
<1> QED
  BY <1>2, <1>3, <1>4, <1>5 DEF IInv

LEMMA InvariantNext ==
  ASSUME ~Overlap
  PROVE  IInv /\ [Next]_vars => IInv'
<1> SUFFICES ASSUME IInv, [Next]_vars PROVE IInv'
  OBVIOUS
<1>1. CASE \E p \in Procs, o \in Objects, bad \in Faults :
             \/ read(p, o, bad)
             \/ write(p, o, bad)
             \/ file_ioctl(p, o, bad)
             \/ \E numbered \in Numbered : lookup(p, o, numbered, bad)
             \/ \E subsumed \in BOOLEAN, numbered \in Numbered :
                  create(p, o, subsumed, numbered, bad)
  <2> PICK p \in Procs, o \in Objects, bad \in Faults :
             \/ read(p, o, bad)
             \/ write(p, o, bad)
             \/ file_ioctl(p, o, bad)
             \/ \E numbered \in Numbered : lookup(p, o, numbered, bad)
             \/ \E subsumed \in BOOLEAN, numbered \in Numbered :
                  create(p, o, subsumed, numbered, bad)
    BY <1>1
  <2>1. CASE read(p, o, bad)
    BY <2>1, ReadKeeps
  <2>2. CASE write(p, o, bad)
    BY <2>2, WriteKeeps
  <2>3. CASE \/ file_ioctl(p, o, bad)
             \/ \E numbered \in Numbered : lookup(p, o, numbered, bad)
    BY <2>3, HousekeepingActionsKeep
  <2>4. CASE \E subsumed \in BOOLEAN, numbered \in Numbered :
               create(p, o, subsumed, numbered, bad)
    BY <2>4, CreateKeeps
  <2> QED
    BY <2>1, <2>2, <2>3, <2>4
<1>2. CASE \E p \in Procs, o \in Objects : inode_permission(p, o)
  BY <1>2, InodePermissionKeeps
<1>3. CASE \E o \in Objects : evict(o) \/ unlink(o)
  BY <1>3, RemovalKeeps
<1>4. CASE \E o \in Files, bad \in Faults :
             \/ \E i \in Identifiers \union {PUBLIC} :
                  (i = PUBLIC \/ Fresh(i)) /\ register(o, i, bad)
             \/ declassify(o, bad)
  BY <1>4, RegisterKeeps, DeclassifyKeeps
<1>5. CASE \/ \E p \in Procs, i \in Identifiers : insert_ticket(p, i)
           \/ \E t \in tickets : drop_ticket(t)
  BY <1>5, TicketsKeep
<1>6. CASE \E p \in Procs : grant_pty(p) \/ exec_commit(p) \/ exit(p)
  BY <1>6, GrantPtyKeeps, ExecCommitKeeps, ExitKeeps
<1>7. CASE \/ \E p, c \in Procs, i \in Identifiers : fork(p, c, i)
           \/ \E p \in Procs, i \in Identifiers : exec_prepare(p, i)
  BY <1>7, ForkKeeps, ExecPrepareKeeps
<1>8. CASE UNCHANGED vars
  <2>1. UNCHANGED <<live, cred, preparing, prepared, tickets, objs, ghosts>>
    BY <1>8 DEF vars, procs
  <2>2. ExecInv' /\ TaintFollowsData'
    BY <2>1 DEF IInv, ExecInv, FlowInv, TaintFollowsData, ghosts
  <2>3. /\ UNCHANGED <<objs, holds, declassified, lost, knows>>
    BY <2>1, SMTT(30) DEF ghosts
  <2>4. /\ live' \subseteq Procs /\ cred' \in [Procs -> Cred]
        /\ preparing' \subseteq live' /\ prepared' \in [Procs -> Cred]
        /\ tickets' \subseteq tickets
        /\ knows' \subseteq live' /\ Citadel \notin knows'
        /\ \A p \in Procs : /\ cred'[p].identifier # PUBLIC
                            /\ prepared'[p].identifier # PUBLIC
    BY <2>1, <2>3 DEF IInv, TypeOK, FlowInv, PublicInv
  <2> QED
    BY <2>2, <2>3, <2>4, ProcessesKeep
<1> QED
  BY <1>1, <1>2, <1>3, <1>4, <1>5, <1>6, <1>7, <1>8 DEF Next

\* Confinement of processes: along every behaviour of can_access, the hooks
\* that call it, the label installations, fork, exec and exit, a process that
\* knows classified data is tainted.
THEOREM Confinement ==
  ASSUME ~Overlap
  PROVE  Spec => []TaintFollowsData
<1>1. IInv => TaintFollowsData
  BY DEF IInv, FlowInv
<1> QED
  BY <1>1, InvariantInit, InvariantNext, PTL DEF Spec

\* Confinement of files: a file that contains classified data keeps a label
\* that survives the inode (trm_inode_init_security, set_xattr,
\* dentry_housekeeping).
THEOREM LabelsAreKept ==
  ASSUME ~Overlap
  PROVE  Spec => []LabelFollowsData
<1>1. IInv => LabelFollowsData
  BY SMTT(30) DEF IInv, FlowInv
<1> QED
  BY <1>1, InvariantInit, InvariantNext, PTL DEF Spec
-----------------------------------------------------------------------------
(* Types, and declassification.  Neither needs hooks to stay out of an     *)
(* exec.                                                                   *)

\* Attributes are always read, and when the write of the identifier fails, so
\* does that of the other attribute.
Whole == \A bad \in Faults : /\ "get" \notin bad
                             /\ "identifier" \in bad => "in_realm" \in bad

\* A file in memory knows that it is in the realm if it is so on disk.
InSync == \A f \in Files \intersect loaded : disk[f].in_realm => core[f].in_realm

\* A declassified file has no label, until a registration takes it back.
Released(f) == f \in exists /\ ~disk[f].in_realm /\ (f \in loaded => ~core[f].in_realm)

SInv == TypeOK /\ ShapeInv /\ (Whole => InSync /\ \A f \in declassified : Released(f))

\* What a change of processes and tickets has to keep.
LEMMA ProcessesTyped ==
  ASSUME SInv, UNCHANGED <<objs, holds, declassified, lost>>,
         live' \subseteq Procs, cred' \in [Procs -> Cred],
         preparing' \subseteq live', prepared' \in [Procs -> Cred],
         tickets' \subseteq Procs \X Identifiers, knows' \subseteq live'
  PROVE  SInv'
<1>1. /\ exists' = exists /\ loaded' = loaded /\ core' = core /\ disk' = disk
      /\ holds' = holds /\ declassified' = declassified /\ lost' = lost
  BY DEF objs
<1>2. TypeOK'
  BY <1>1 DEF SInv, TypeOK
<1> QED BY <1>1, <1>2 DEF SInv, ShapeInv, InSync, Released

LEMMA ProcessTypes ==
  ASSUME SInv,
         \/ \E p \in Procs, i \in Identifiers : insert_ticket(p, i)
         \/ \E t \in tickets : drop_ticket(t)
         \/ \E p \in Procs : grant_pty(p) \/ exec_commit(p) \/ exit(p)
         \/ \E p, c \in Procs, i \in Identifiers : fork(p, c, i)
         \/ \E p \in Procs, i \in Identifiers : exec_prepare(p, i)
  PROVE  SInv'
<1>0. TypeOK
  BY DEF SInv
<1>1. ASSUME NEW p \in Procs, NEW i \in Identifiers PROVE init_task_trm(p, i) \in Cred
  <2>1. cred[p] \in Cred
    BY <1>0, SMTT(30) DEF TypeOK
  <2> QED BY <2>1 DEF init_task_trm, Cred, AllIds
<1>2. CASE \/ \E p \in Procs, i \in Identifiers : insert_ticket(p, i)
           \/ \E t \in tickets : drop_ticket(t)
  <2>1. /\ tickets' \subseteq Procs \X Identifiers
        /\ UNCHANGED <<live, cred, preparing, prepared, objs, ghosts>>
    BY <1>0, <1>2, SMTT(30) DEF TypeOK, insert_ticket, drop_ticket
  <2> QED BY <1>0, <2>1, ProcessesTyped DEF TypeOK, ghosts
<1>3. ASSUME NEW p \in Procs, grant_pty(p) PROVE SInv'
  <2> DEFINE n == [cred[p] EXCEPT !.granted_pty = TRUE]
  <2>1. n \in Cred
    BY <1>0, ZenonT(30) DEF TypeOK, Cred
  <2>2. cred' = [cred EXCEPT ![p] = n]
    BY <1>3 DEF grant_pty
  <2> HIDE DEF n
  <2>3. cred' \in [Procs -> Cred]
    BY <1>0, <2>1, <2>2 DEF TypeOK
  <2> QED BY <1>0, <1>3, <2>3, ProcessesTyped DEF grant_pty, TypeOK, ghosts
<1>4. ASSUME NEW p \in Procs, exec_commit(p) PROVE SInv'
  <2>1. cred' \in [Procs -> Cred] /\ prepared' \in [Procs -> Cred]
    BY <1>0, <1>4, NoCredData, SMTT(30) DEF exec_commit, TypeOK
  <2> QED BY <1>0, <1>4, <2>1, ProcessesTyped DEF exec_commit, TypeOK, ghosts
<1>5. ASSUME NEW p \in Procs, exit(p) PROVE SInv'
  <2>1. cred' \in [Procs -> Cred] /\ prepared' \in [Procs -> Cred]
    BY <1>0, <1>5, NoCredData DEF exit, TypeOK
  <2>2. tickets' \subseteq Procs \X Identifiers
    BY <1>0, <1>5, SMTT(30) DEF exit, TypeOK
  <2> QED BY <1>0, <1>5, <2>1, <2>2, ProcessesTyped DEF exit, TypeOK
<1>6. ASSUME NEW p \in Procs, NEW c \in Procs, NEW i \in Identifiers, fork(p, c, i)
      PROVE  SInv'
  <2>1. cred' \in [Procs -> Cred]
    BY <1>0, <1>1, <1>6, SMTT(30) DEF fork, TypeOK
  <2> QED BY <1>0, <1>6, <2>1, ProcessesTyped, SMTT(30) DEF fork, TypeOK
<1>7. ASSUME NEW p \in Procs, NEW i \in Identifiers, exec_prepare(p, i) PROVE SInv'
  <2>1. prepared' \in [Procs -> Cred]
    BY <1>0, <1>1, <1>7 DEF exec_prepare, TypeOK
  <2> QED BY <1>0, <1>7, <2>1, ProcessesTyped DEF exec_prepare, TypeOK, ghosts
<1> QED BY <1>2, <1>3, <1>4, <1>5, <1>6, <1>7

\* What a change of object o to inode data c and attributes d has to keep.
LEMMA ObjectTyped ==
  ASSUME SInv, NEW o \in Objects, NEW c \in InodeData, NEW d \in Xattrs,
         core' = [core EXCEPT ![o] = c], disk' = [disk EXCEPT ![o] = d],
         exists' \subseteq Objects, loaded' \subseteq exists',
         exists' \ {o} = exists \ {o}, loaded' \ {o} = loaded \ {o},
         o \notin loaded' => ~c.checked,
         o \notin Files => ~d.in_realm,
         Whole /\ o \in Files \intersect loaded' => (d.in_realm => c.in_realm),
         declassified' \ {o} \subseteq declassified,
         Whole /\ o \in declassified' =>
           o \in exists' /\ ~d.in_realm /\ (o \in loaded' => ~c.in_realm),
         holds' \subseteq exists', holds' \subseteq Files,
         declassified' \subseteq Files, lost' \subseteq Files,
         cred' \in [Procs -> Cred], knows' \subseteq live,
         UNCHANGED <<live, preparing, prepared, tickets>>
  PROVE  SInv'
<1>1. /\ core' \in [Objects -> InodeData] /\ core'[o] = c
      /\ disk' \in [Objects -> Xattrs] /\ disk'[o] = d
      /\ \A x \in Objects : x # o => core'[x] = core[x] /\ disk'[x] = disk[x]
  BY SMTT(30) DEF SInv, TypeOK
<1>2. TypeOK'
  BY <1>1 DEF SInv, TypeOK
<1>3. ShapeInv'
  <2>1. ShapeInv
    BY SMTT(30) DEF SInv
  <2>2. \A x \in Objects \ loaded' : ~core'[x].checked
    BY <1>1, <2>1 DEF ShapeInv
  <2>3. \A x \in Objects \ Files : ~disk'[x].in_realm
    BY <1>1, <2>1, SMTT(30) DEF ShapeInv
  <2> QED BY <2>2, <2>3 DEF ShapeInv
<1>4. Whole => InSync'
  <2> SUFFICES ASSUME Whole, NEW f \in Files \intersect loaded', disk'[f].in_realm
               PROVE  core'[f].in_realm
    BY DEF InSync
  <2>1. CASE f = o
    BY <1>1, <2>1, SMTT(30)
  <2>2. CASE f # o
    <3>1. f \in loaded /\ f \in Objects
      BY <2>2, SMTT(30) DEF Objects
    <3> QED BY <1>1, <2>2, <3>1, SMTT(30) DEF SInv, InSync
  <2> QED BY <2>1, <2>2
<1>5. ASSUME Whole, NEW f \in declassified' PROVE Released(f)'
  <2>1. CASE f = o
    BY <1>1, <1>5, <2>1 DEF Released
  <2>2. CASE f # o
    <3>1. f \in declassified /\ f \in Objects
      BY <2>2 DEF Objects
    <3>2. Released(f)
      BY <1>5, <3>1 DEF SInv
    <3> QED BY <1>1, <2>2, <3>1, <3>2 DEF Released
  <2> QED BY <2>1, <2>2
<1> QED BY <1>2, <1>3, <1>4, <1>5, SMTT(30) DEF SInv

\* The hooks that read the label of an inode, and the lookup that first does.
LEMMA HouseTyped ==
  ASSUME SInv, NEW p \in Procs, NEW o \in Objects, NEW bad \in Faults,
         NEW c0 \in InodeData,
         \/ c0 = core[o] /\ o \in loaded
         \/ \E n \in BOOLEAN : c0 = alloc_security(n),
         core' = [core EXCEPT ![o] = dentry_housekeeping(p, o, c0, bad)],
         o \in exists, loaded' = loaded \union {o},
         lost' = lost \union Missed(o, bad),
         holds' \subseteq exists', holds' \subseteq Files,
         cred' \in [Procs -> Cred], knows' \subseteq live,
         UNCHANGED <<live, preparing, prepared, tickets, exists, disk, declassified>>
  PROVE  SInv'
<1> PICK c : c = dentry_housekeeping(p, o, c0, bad)
  OBVIOUS
<1>1. TypeOK /\ ShapeInv
  BY DEF SInv
<1>2. /\ c \in InodeData /\ c.checked
      /\ o \in Files => (c.in_realm <=> \/ c0.in_realm
                                        \/ ~c0.checked /\ "get" \notin bad /\ disk[o].in_realm)
  BY <1>1, HousekeptData
<1>3. lost' \subseteq Files
  BY <1>1 DEF TypeOK, ShapeInv, Missed
<1>4. disk[o] \in Xattrs /\ disk' = [disk EXCEPT ![o] = disk[o]]
  BY <1>1, SMTT(30) DEF TypeOK
<1>5. Whole /\ o \in Files => (disk[o].in_realm => c.in_realm)
  <2> SUFFICES ASSUME Whole, o \in Files, disk[o].in_realm PROVE c.in_realm
    OBVIOUS
  <2>1. "get" \notin bad
    BY DEF Whole
  <2>2. CASE c0 = core[o] /\ o \in loaded
    <3>1. core[o].in_realm
      BY <2>2 DEF SInv, InSync
    <3> QED BY <1>2, <2>2, <3>1
  <2>3. CASE \E n \in BOOLEAN : c0 = alloc_security(n)
    <3>1. ~c0.checked
      BY <2>3 DEF alloc_security
    <3> QED BY <1>2, <2>1, <3>1
  <2> QED BY <2>2, <2>3
<1>6. (o \notin Files => ~disk[o].in_realm) /\ exists' \subseteq Objects
      /\ loaded' \subseteq exists' /\ declassified' \subseteq Files
  BY <1>1 DEF TypeOK, ShapeInv
<1>7. core' = [core EXCEPT ![o] = c] /\ loaded' \ {o} = loaded \ {o} /\ o \in loaded'
  OBVIOUS
<1>8. Whole /\ o \in declassified' =>
        o \in exists' /\ ~disk[o].in_realm /\ (o \in loaded' => ~c.in_realm)
  BY <1>1, <1>2 DEF TypeOK, SInv, Released, alloc_security
<1> QED BY <1>2, <1>3, <1>4, <1>5, <1>6, <1>7, <1>8, ObjectTyped
LEMMA HookTypes ==
  ASSUME SInv, NEW p \in Procs, NEW o \in Objects, NEW bad \in Faults,
         \/ read(p, o, bad) \/ write(p, o, bad) \/ file_ioctl(p, o, bad)
         \/ \E numbered \in Numbered : lookup(p, o, numbered, bad)
  PROVE  SInv'
<1>1. /\ TypeOK /\ core[o] \in InodeData /\ loaded \subseteq exists
      /\ holds \subseteq exists /\ holds \subseteq Files
  BY DEF SInv, ShapeInv, TypeOK
<1>2. ASSUME NEW granted \in BOOLEAN, file_permission(p, o, bad, granted),
             holds' \subseteq (holds \ lost') \union {x \in {o} : x \in Followed'},
             knows' \subseteq knows \union {p}
      PROVE  SInv'
  <2> PICK c : c = dentry_housekeeping(p, o, core[o], bad)
    OBVIOUS
  <2>1. /\ p \in live /\ o \in loaded
        /\ core' = [core EXCEPT ![o] = dentry_housekeeping(p, o, core[o], bad)]
        /\ cred' = [cred EXCEPT ![p].in_realm = @ \/ Taints(p, o, c)]
        /\ lost' = lost \union Missed(o, bad)
        /\ UNCHANGED <<live, preparing, prepared, tickets, exists, loaded, disk,
                       declassified>>
    BY <1>2 DEF file_permission, HookRuns
  <2>2. Taints(p, o, c) \in BOOLEAN
    BY DEF Taints, Ticketed
  <2>3. cred' \in [Procs -> Cred]
    BY <1>1, <2>1, <2>2 DEF TypeOK, Cred
  <2>4. /\ holds' \subseteq exists' /\ holds' \subseteq Files
        /\ knows' \subseteq live /\ loaded' = loaded \union {o} /\ o \in exists
    BY <1>1, <1>2, <2>1 DEF TypeOK, Followed
  <2> QED BY <1>1, <2>1, <2>3, <2>4, HouseTyped
<1>3. CASE read(p, o, bad)
  BY <1>2, <1>3, Zenon DEF read
<1>4. CASE write(p, o, bad)
  <2> PICK granted \in BOOLEAN :
        /\ file_permission(p, o, bad, granted)
        /\ holds' = IF granted /\ p \in knows /\ o \in Followed'
                      THEN (holds \ lost') \union {o} ELSE holds \ lost'
        /\ knows' = knows
    BY <1>4 DEF write
  <2>1. holds' \subseteq (holds \ lost') \union {x \in {o} : x \in Followed'}
    OBVIOUS
  <2> QED BY <1>2, <2>1
<1>5. CASE file_ioctl(p, o, bad)
  <2>1. core' = [core EXCEPT ![o] = dentry_housekeeping(p, o, core[o], bad)]
    BY <1>1, <1>5 DEF file_ioctl, TypeOK
  <2>2. o \in loaded /\ o \in exists /\ loaded' = loaded \union {o}
    BY <1>1, <1>5 DEF file_ioctl, HookRuns
  <2>3. holds' \subseteq exists' /\ holds' \subseteq Files
    BY <1>1, <1>5, SMTT(30) DEF file_ioctl
  <2>4. cred' \in [Procs -> Cred] /\ knows' \subseteq live
    BY <1>1, <1>5 DEF file_ioctl, procs, TypeOK
  <2>5. /\ lost' = lost \union Missed(o, bad)
        /\ UNCHANGED <<live, preparing, prepared, tickets, exists, disk, declassified>>
    BY <1>5 DEF file_ioctl, procs
  <2> QED BY <1>1, <2>1, <2>2, <2>3, <2>4, <2>5, HouseTyped
<1>6. ASSUME NEW numbered \in Numbered, lookup(p, o, numbered, bad) PROVE SInv'
  <2>1. numbered \in BOOLEAN
    BY RealmAssumption
  <2> PICK c0 : c0 = alloc_security(numbered)
    OBVIOUS
  <2>2. c0 \in InodeData
    BY <2>1 DEF alloc_security, InodeData, AllIds
  <2>3. core' = [core EXCEPT ![o] = dentry_housekeeping(p, o, c0, bad)]
    BY <1>6 DEF lookup
  <2>4. /\ o \in exists /\ loaded' = loaded \union {o}
        /\ lost' = lost \union Missed(o, bad)
        /\ UNCHANGED <<live, preparing, prepared, tickets, exists, disk, declassified>>
    BY <1>6 DEF lookup, procs
  <2>5. holds' \subseteq exists' /\ holds' \subseteq Files
    BY <1>1, <1>6, SMTT(30) DEF lookup
  <2>6. cred' \in [Procs -> Cred] /\ knows' \subseteq live
    BY <1>1, <1>6 DEF lookup, procs, TypeOK
  <2> QED BY <2>1, <2>2, <2>3, <2>4, <2>5, <2>6, HouseTyped
<1> QED BY <1>3, <1>4, <1>5, <1>6

LEMMA InodePermissionTypes ==
  ASSUME SInv, NEW p \in Procs, NEW o \in Objects, inode_permission(p, o)
  PROVE  SInv'
<1>1. TypeOK /\ ShapeInv /\ core[o] \in InodeData /\ cred[p] \in Cred /\ disk[o] \in Xattrs
  BY DEF SInv, TypeOK
<1> PICK c : c = inode_housekeeping(p, o, core[o])
  OBVIOUS
<1>2. /\ o \in loaded
      /\ core' = [core EXCEPT ![o] = c]
      /\ cred' = [cred EXCEPT ![p].in_realm = @ \/ Taints(p, o, c)]
      /\ UNCHANGED <<live, preparing, prepared, tickets, exists, loaded, disk, ghosts>>
  BY DEF inode_permission, HookRuns
<1>3. c \in InodeData /\ (o \in Files => c = core[o])
  BY <1>1, RealmAssumption, Zenon DEF inode_housekeeping, InodeData, Cred
<1>4. cred' \in [Procs -> Cred]
  <2>1. Taints(p, o, c) \in BOOLEAN
    BY DEF Taints, Ticketed
  <2> QED BY <1>1, <1>2, <2>1 DEF TypeOK, Cred
<1>5. disk' = [disk EXCEPT ![o] = disk[o]] /\ (o \notin Files => ~disk[o].in_realm)
  BY <1>1, <1>2 DEF TypeOK, ShapeInv
<1>6. Whole /\ o \in Files => (disk[o].in_realm => c.in_realm)
  BY <1>2, <1>3 DEF SInv, InSync
<1>7. /\ exists' \subseteq Objects /\ loaded' \subseteq exists' /\ o \in loaded'
      /\ loaded' \ {o} = loaded \ {o}
      /\ holds' \subseteq exists' /\ holds' \subseteq Files /\ knows' \subseteq live
      /\ declassified' \subseteq Files /\ lost' \subseteq Files
  BY <1>1, <1>2 DEF TypeOK, ShapeInv, ghosts
<1>8. Whole /\ o \in declassified' =>
        o \in exists' /\ ~disk[o].in_realm /\ (o \in loaded' => ~c.in_realm)
  BY <1>1, <1>2, <1>3 DEF TypeOK, SInv, Released, ghosts
<1>9. exists' \ {o} = exists \ {o} /\ declassified' \ {o} \subseteq declassified
  BY <1>2 DEF ghosts
<1> QED BY <1>1, <1>2, <1>3, <1>4, <1>5, <1>6, <1>7, <1>8, <1>9, ObjectTyped

LEMMA CreateTypes ==
  ASSUME SInv, NEW p \in Procs, NEW o \in Objects, NEW bad,
         NEW subsumed \in BOOLEAN, NEW numbered \in Numbered,
         create(p, o, subsumed, numbered, bad)
  PROVE  SInv'
<1> DEFINE tainted == o \in Files /\ cred[p].in_realm
           c1 == [alloc_security(numbered) EXCEPT
                    !.in_realm = tainted \/ (o \in Files /\ subsumed),
                    !.anonymous = @ /\ ~tainted,
                    !.identifier = IF tainted THEN cred[p].identifier ELSE @]
           c == dentry_housekeeping(p, o, c1, bad)
           d == [in_realm |-> c.in_realm /\ "in_realm" \notin bad,
                 identifier |-> IF c.in_realm /\ ~c.anonymous /\ "identifier" \notin bad
                                  THEN c.identifier ELSE NONE]
<1>1. /\ o \notin exists
      /\ exists' = exists \union {o}
      /\ loaded' = loaded \union {o}
      /\ core' = [core EXCEPT ![o] = c]
      /\ disk' = [disk EXCEPT ![o] = d]
      /\ lost' = lost \union {x \in {o} : c.in_realm /\ "in_realm" \in bad}
      /\ UNCHANGED <<procs, knows, holds, declassified>>
  BY DEF create
<1>2. TypeOK /\ ShapeInv /\ cred[p] \in Cred /\ numbered \in BOOLEAN
  BY RealmAssumption DEF SInv, TypeOK
<1>3. c1 \in InodeData /\ (c1.in_realm => o \in Files)
  BY <1>2, RealmAssumption, Zenon DEF Cred, InodeData, alloc_security, AllIds
<1> HIDE DEF c1
<1>4. c \in InodeData
  BY <1>2, <1>3, HousekeptData
<1>5. ASSUME o \notin Files PROVE ~c.in_realm
  <2>1. ~disk[o].in_realm /\ ~c1.in_realm
    BY <1>2, <1>3, <1>5 DEF ShapeInv
  <2>2. ~inode_housekeeping(p, o, c1).in_realm
    BY <1>3, <2>1 DEF inode_housekeeping, InodeData
  <2> QED BY <2>1, <2>2, Zenon DEF dentry_housekeeping, NoXattrs
<1> HIDE DEF c
<1>6. d \in Xattrs /\ (d.in_realm => c.in_realm)
  BY <1>4, Zenon DEF Xattrs, InodeData
<1> HIDE DEF d
<1>7. lost' \subseteq Files
  BY <1>1, <1>2, <1>5 DEF TypeOK
<1>8. /\ exists' \subseteq Objects /\ loaded' \subseteq exists' /\ o \in loaded'
      /\ loaded' \ {o} = loaded \ {o}
      /\ holds' \subseteq exists' /\ holds' \subseteq Files /\ knows' \subseteq live
      /\ declassified' \subseteq Files /\ cred' \in [Procs -> Cred]
      /\ UNCHANGED <<live, preparing, prepared, tickets>>
  BY <1>1, <1>2 DEF TypeOK, ShapeInv, procs
<1>9. Whole => o \notin declassified'
  BY <1>1 DEF SInv, Released
<1>10. exists' \ {o} = exists \ {o} /\ declassified' \ {o} \subseteq declassified
  BY <1>1
<1> QED BY <1>1, <1>4, <1>5, <1>6, <1>7, <1>8, <1>9, <1>10, ObjectTyped

LEMMA RemovalTypes ==
  ASSUME SInv, NEW o \in Objects, evict(o) \/ unlink(o)
  PROVE  SInv'
<1> PICK blank : blank = alloc_security(TRUE)
  OBVIOUS
<1>1. TypeOK /\ ShapeInv /\ disk[o] \in Xattrs /\ NoXattrs \in Xattrs
      /\ blank \in InodeData /\ ~blank.checked /\ ~NoXattrs.in_realm
  BY BlankInodeData DEF SInv, TypeOK, NoXattrs, Xattrs, alloc_security
<1>2. /\ loaded' = loaded \ {o} /\ core' = [core EXCEPT ![o] = blank]
      /\ UNCHANGED <<procs, knows>>
  BY Zenon DEF evict, unlink, ghosts
<1>3. \E d \in {disk[o], NoXattrs} : disk' = [disk EXCEPT ![o] = d]
  <2>1. disk = [disk EXCEPT ![o] = disk[o]]
    BY <1>1 DEF TypeOK
  <2> QED BY <2>1, Zenon DEF evict, unlink
<1>4. /\ exists' \subseteq Objects /\ loaded' \subseteq exists'
      /\ holds' \subseteq exists' /\ holds' \subseteq Files
      /\ declassified' \subseteq Files /\ lost' \subseteq Files
  <2>1. CASE evict(o)
    BY <1>1, <2>1 DEF evict, ghosts, TypeOK, ShapeInv
  <2>2. CASE unlink(o)
    BY <1>1, <2>2 DEF unlink, TypeOK, ShapeInv
  <2> QED BY <2>1, <2>2
<1>5. /\ loaded' \ {o} = loaded \ {o} /\ o \notin loaded'
      /\ knows' \subseteq live /\ cred' \in [Procs -> Cred]
      /\ UNCHANGED <<live, preparing, prepared, tickets>>
  BY <1>1, <1>2 DEF TypeOK, procs
<1> PICK d \in {disk[o], NoXattrs} : disk' = [disk EXCEPT ![o] = d]
  BY <1>3
<1>6. d \in Xattrs /\ (o \notin Files => ~d.in_realm)
  BY <1>1 DEF ShapeInv
<1>7. exists' \ {o} = exists \ {o} /\ declassified' \ {o} \subseteq declassified
  BY DEF evict, unlink, ghosts
<1>8. ASSUME Whole, o \in declassified' PROVE o \in exists' /\ ~d.in_realm
  <2>1. evict(o)
    BY <1>8 DEF unlink
  <2>2. Released(o)
    BY <1>8, <2>1 DEF evict, ghosts, SInv
  <2> QED BY <1>1, <2>1, <2>2 DEF evict, Released
<1> QED BY <1>1, <1>2, <1>4, <1>5, <1>6, <1>7, <1>8, ObjectTyped

LEMMA RegisterTypes ==
  ASSUME SInv, NEW o \in Files, NEW i \in Identifiers \union {PUBLIC}, NEW bad \in Faults,
         register(o, i, bad)
  PROVE  SInv'
<1> DEFINE accepted == "identifier" \notin bad
           marked == "in_realm" \notin bad
           c == IF accepted THEN [in_realm |-> TRUE, identifier |-> i,
                                  anonymous |-> FALSE, checked |-> TRUE]
                ELSE [core[o] EXCEPT !.checked = FALSE]
           d == [in_realm |-> disk[o].in_realm \/ marked,
                 identifier |-> IF accepted THEN i ELSE disk[o].identifier]
<1>1. /\ TypeOK /\ ShapeInv
      /\ o \in Objects /\ core[o] \in InodeData /\ disk[o] \in Xattrs /\ i \in AllIds
  BY DEF SInv, TypeOK, Objects, AllIds
<1>2. /\ o \in loaded
      /\ core' = [core EXCEPT ![o] = c]
      /\ disk' = [disk EXCEPT ![o] = d]
      /\ lost' \subseteq lost \union {o}
      /\ declassified' = IF accepted THEN declassified \ {o} ELSE declassified
      /\ holds' \subseteq holds \union {o}
      /\ UNCHANGED <<procs, exists, loaded, knows>>
  BY <1>1 DEF register, TypeOK
<1>3. /\ c \in InodeData /\ d \in Xattrs
      /\ accepted => c.in_realm
      /\ ~accepted => c.in_realm = core[o].in_realm
      /\ d.in_realm <=> disk[o].in_realm \/ marked
  BY <1>1, ZenonT(30) DEF InodeData, Xattrs
<1>4. Whole => (d.in_realm => c.in_realm)
  BY <1>2, <1>3 DEF Whole, SInv, InSync
<1>5. ASSUME Whole, o \in declassified'
      PROVE  o \in exists' /\ ~d.in_realm /\ ~c.in_realm
  <2>1. ~accepted /\ ~marked /\ Released(o)
    BY <1>2, <1>5 DEF Whole, SInv
  <2> QED BY <1>2, <1>3, <2>1 DEF Released
<1> HIDE DEF c, d
<1>6. /\ exists' \subseteq Objects /\ loaded' \subseteq exists' /\ o \in loaded'
      /\ loaded' \ {o} = loaded \ {o}
      /\ holds' \subseteq exists' /\ holds' \subseteq Files /\ knows' \subseteq live
      /\ declassified' \subseteq Files /\ lost' \subseteq Files /\ cred' \in [Procs -> Cred]
      /\ exists' \ {o} = exists \ {o} /\ declassified' \ {o} \subseteq declassified
      /\ UNCHANGED <<live, preparing, prepared, tickets>>
  BY <1>1, <1>2 DEF TypeOK, ShapeInv, procs
<1> QED BY <1>1, <1>2, <1>3, <1>4, <1>5, <1>6, ObjectTyped

\* A declassification that is accepted, now or before, leaves no label.
LEMMA DeclassifyTypes ==
  ASSUME SInv, NEW o \in Files, NEW bad, declassify(o, bad)
  PROVE  /\ SInv'
         /\ Whole /\ o \in declassified' => ~disk'[o].in_realm /\ ~core'[o].in_realm
<1> DEFINE removed == core[o].in_realm /\ disk[o].in_realm /\ "in_realm" \notin bad
           accepted == ~core[o].in_realm \/ removed
           c == CASE ~core[o].in_realm -> core[o]
                  [] removed -> [core[o] EXCEPT !.in_realm = FALSE, !.checked = TRUE]
                  [] OTHER -> [core[o] EXCEPT !.checked = FALSE]
           d == [disk[o] EXCEPT !.in_realm = @ /\ ~removed]
<1>1. /\ TypeOK /\ ShapeInv
      /\ o \in Objects /\ core[o] \in InodeData /\ disk[o] \in Xattrs
  BY DEF SInv, TypeOK, Objects
<1>2. /\ o \in loaded
      /\ core' = [core EXCEPT ![o] = c]
      /\ disk' = [disk EXCEPT ![o] = d]
      /\ declassified' = IF accepted THEN declassified \union {o} ELSE declassified
      /\ holds' \subseteq holds
      /\ UNCHANGED <<procs, exists, loaded, knows, lost>>
  BY <1>1 DEF declassify, TypeOK
<1>3. /\ c \in InodeData /\ d \in Xattrs
      /\ ~core[o].in_realm => ~c.in_realm /\ d.in_realm = disk[o].in_realm
      /\ core[o].in_realm /\ removed => ~c.in_realm /\ ~d.in_realm
      /\ core[o].in_realm /\ ~removed => c.in_realm /\ d.in_realm = disk[o].in_realm
  <2>1. CASE ~core[o].in_realm
    <3>1. c = core[o] /\ ~removed
      BY <2>1
    <3> QED BY <1>1, <2>1, <3>1, Zenon DEF InodeData, Xattrs
  <2>2. CASE core[o].in_realm /\ removed
    <3>1. c = [core[o] EXCEPT !.in_realm = FALSE, !.checked = TRUE]
      BY <2>2
    <3> QED BY <1>1, <2>2, <3>1, Zenon DEF InodeData, Xattrs
  <2>3. CASE core[o].in_realm /\ ~removed
    <3>1. c = [core[o] EXCEPT !.checked = FALSE]
      BY <2>3
    <3> QED BY <1>1, <2>3, <3>1, Zenon DEF InodeData, Xattrs
  <2> QED BY <2>1, <2>2, <2>3
<1> HIDE DEF c, d
<1>4. Whole => (d.in_realm => c.in_realm)
  BY <1>2, <1>3 DEF SInv, InSync
<1>5. ASSUME Whole, o \in declassified'
      PROVE  o \in exists' /\ ~d.in_realm /\ ~c.in_realm
  <2>1. o \in exists'
    BY <1>1, <1>2 DEF TypeOK
  <2>2. CASE ~core[o].in_realm
    <3>1. ~disk[o].in_realm
      BY <1>2, <1>5, <2>2 DEF SInv, InSync
    <3> QED BY <1>3, <2>1, <2>2, <3>1
  <2>3. CASE core[o].in_realm
    <3>1. removed
      BY <1>2, <1>5, <2>3 DEF SInv, Released
    <3> QED BY <1>3, <2>1, <2>3, <3>1
  <2> QED BY <2>2, <2>3
<1>6. /\ exists' \subseteq Objects /\ loaded' \subseteq exists' /\ o \in loaded'
      /\ loaded' \ {o} = loaded \ {o}
      /\ holds' \subseteq exists' /\ holds' \subseteq Files /\ knows' \subseteq live
      /\ declassified' \subseteq Files /\ lost' \subseteq Files /\ cred' \in [Procs -> Cred]
      /\ exists' \ {o} = exists \ {o} /\ declassified' \ {o} \subseteq declassified
      /\ UNCHANGED <<live, preparing, prepared, tickets>>
  BY <1>1, <1>2, SMTT(30) DEF TypeOK, ShapeInv, procs
<1>7. SInv'
  BY <1>1, <1>2, <1>3, <1>4, <1>5, <1>6, ObjectTyped
<1>8. core'[o] = c /\ disk'[o] = d
  BY <1>1, <1>2 DEF TypeOK
<1> QED BY <1>5, <1>7, <1>8

LEMMA SyncInit == Init => SInv
<1>1. Init => TypeOK /\ ShapeInv
  BY InvariantInit DEF IInv
<1>2. Init => loaded = {} /\ declassified = {}
  BY DEF Init
<1> QED BY <1>1, <1>2 DEF SInv, InSync

LEMMA SyncNext == SInv /\ [Next]_vars => SInv'
<1> SUFFICES ASSUME SInv, [Next]_vars PROVE SInv'
  OBVIOUS
<1>1. CASE \E p \in Procs, o \in Objects, bad \in Faults :
             \/ read(p, o, bad)
             \/ write(p, o, bad)
             \/ file_ioctl(p, o, bad)
             \/ \E numbered \in Numbered : lookup(p, o, numbered, bad)
             \/ \E subsumed \in BOOLEAN, numbered \in Numbered :
                  create(p, o, subsumed, numbered, bad)
  BY <1>1, HookTypes, CreateTypes
<1>2. CASE \/ \E p \in Procs, o \in Objects : inode_permission(p, o)
           \/ \E o \in Objects : evict(o) \/ unlink(o)
  BY <1>2, InodePermissionTypes, RemovalTypes, SMTT(30)
<1>3. CASE \E o \in Files, bad \in Faults :
             \/ \E i \in Identifiers \union {PUBLIC} :
                  (i = PUBLIC \/ Fresh(i)) /\ register(o, i, bad)
             \/ declassify(o, bad)
  BY <1>3, RegisterTypes, DeclassifyTypes
<1>4. CASE \/ \E p \in Procs, i \in Identifiers : insert_ticket(p, i)
           \/ \E t \in tickets : drop_ticket(t)
           \/ \E p \in Procs : grant_pty(p) \/ exec_commit(p) \/ exit(p)
           \/ \E p, c \in Procs, i \in Identifiers : fork(p, c, i)
           \/ \E p \in Procs, i \in Identifiers : exec_prepare(p, i)
  BY <1>4, ProcessTypes
<1>5. CASE UNCHANGED vars
  <2>1. UNCHANGED <<live, cred, preparing, prepared, tickets, objs, knows, holds,
                    declassified, lost>>
    BY <1>5 DEF vars, procs, ghosts
  <2> QED BY <2>1, ProcessesTyped DEF SInv, TypeOK
<1> QED BY <1>1, <1>2, <1>3, <1>4, <1>5 DEF Next

\* The state of the module keeps its types, also when hooks run in the middle
\* of an exec and whatever attribute operations fail.
THEOREM TypeCorrect == Spec => []TypeOK
<1>1. SInv => TypeOK
  BY DEF SInv
<1> QED BY <1>1, SyncInit, SyncNext, PTL DEF Spec

\* A declassification that xattr_enclave_installation accepts leaves no label
\* in memory or on disk, if attributes can be read and the identifier is not
\* the only one that cannot be written.
THEOREM DeclassificationIsWhole == Whole /\ Spec => DeclassifyClears
<1>1. CASE Whole
  <2>1. SInv /\ [Next]_vars =>
          [\A o \in Files, bad \in Faults :
             declassify(o, bad) /\ o \in declassified' =>
               ~disk'[o].in_realm /\ ~core'[o].in_realm]_vars
    BY <1>1, DeclassifyTypes
  <2> QED BY <2>1, SyncInit, SyncNext, PTL DEF Spec, DeclassifyClears
<1>2. CASE ~Whole
  BY <1>2, PTL
<1> QED BY <1>1, <1>2
=============================================================================
