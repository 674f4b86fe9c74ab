--------------------------- MODULE IdentifierCache ---------------------------
(***************************************************************************)
(* The daemon's cache of the identifiers of files.  A request to open a    *)
(* file names a path; the daemon puts the identifier of the file in its    *)
(* place before the enclave sees the request.  The cache is filled from    *)
(* the attribute of the file, loses an entry when it expires, and when a   *)
(* claim names its path.  Paths can come to name other files meanwhile.    *)
(*                                                                         *)
(* An operation of the cache is an operator on its contents; module        *)
(* DaemonServer has the thread that calls them.                            *)
(***************************************************************************)
EXTENDS Integers

CONSTANTS
  Paths,
  Inodes,
  Ids,          \* identifiers, which the enclave draws at random
  NONE,         \* no file, no identifier, no entry
  Found,        \* the files when the daemon starts: names and label
  CacheExpiry,  \* _CITADEL_CACHE_EXPIRY
  MaxClock      \* bound on the clock

ASSUME CacheAssumption ==
  /\ NONE \notin Paths \union Inodes \union Ids
  /\ CacheExpiry \in Nat
  /\ MaxClock \in Nat

ASSUME FoundAssumption ==
  Found \in [names : [Paths -> Inodes \union {NONE}], label : [Inodes -> Ids \union {NONE}]]

VARIABLES
  now,      \* gettimeofday()
  names,    \* the file that a path names
  label,    \* the identifier of a file
  cache,    \* identifierCache
  had       \* history: the identifiers that the file at a path had since the
            \* path was last claimed

cache_vars == <<now, names, label, cache, had>>

Entry == [id : Ids, time : 0..MaxClock]

NoEntry == [id |-> NONE, time |-> 0]

\* The identifier at p when paths name files as in n and files have the labels l.
IdAt(n, l, p) == IF n[p] = NONE THEN NONE ELSE l[n[p]]

get_identifier_for_path(p) == IdAt(names, label, p)

CacheInit ==
  /\ now = 0
  /\ names = Found.names
  /\ label = Found.label
  /\ cache = [p \in Paths |-> NoEntry]
  /\ had = [p \in Paths |-> {get_identifier_for_path(p)} \ {NONE}]

expired(e) == now - e.time > CacheExpiry

\* The contents after p is inserted.  The table copies entries to make room,
\* and a copy of an entry takes the time at which it is made.
Inserted(c, p, id) ==
  {[q \in Paths |-> IF q = p THEN [id |-> id, time |-> now]
                    ELSE IF q \in copied /\ c[q] # NoEntry THEN [c[q] EXCEPT !.time = now]
                    ELSE c[q]] : copied \in SUBSET Paths}

\* The contents after a lookup of p, and the identifier it finds.
metadata_path_to_identifier(p) ==
  LET id == get_identifier_for_path(p)
      erased == [cache EXCEPT ![p] = NoEntry]
  IN  IF cache[p] # NoEntry /\ ~expired(cache[p]) THEN {[cache |-> cache, id |-> cache[p].id]}
      ELSE IF id = NONE THEN {[cache |-> erased, id |-> NONE]}
      ELSE {[cache |-> c, id |-> id] : c \in Inserted(erased, p, id)}

\* Mutant of clear_entry_from_cache: only an expired entry goes.
clear_if_expired(p) == IF expired(cache[p]) THEN [cache EXCEPT ![p] = NoEntry] ELSE cache

clear_entry_from_cache(p) == [cache EXCEPT ![p] = NoEntry]

\* What a request leaves in the cache, and the identifier it is given.
cache_passthrough(r) ==
  CASE r.op = "claim" -> {[cache |-> clear_entry_from_cache(r.path), id |-> NONE]}
    [] r.op = "open"  -> metadata_path_to_identifier(r.path)
    [] OTHER          -> {[cache |-> cache, id |-> NONE]}

-----------------------------------------------------------------------------
(* The files.                                                              *)

\* Identifiers that nothing has or had.
Unused ==
  {i \in Ids : /\ \A f \in Inodes : label[f] # i
               /\ \A p \in Paths : cache[p].id # i /\ i \notin had[p]}

\* The files change to n and l; the path in claimed, if any, has been claimed.
FilesBecome(n, l, claimed) ==
  /\ names' = n
  /\ label' = l
  /\ had' = [p \in Paths |-> (IF p = claimed THEN {} ELSE had[p])
                               \union ({IdAt(n, l, p)} \ {NONE})]

\* A process makes p name another file, or none.
rebind(p, i) ==
  /\ names[p] # i
  /\ FilesBecome([names EXCEPT ![p] = i], label, NONE)
  /\ UNCHANGED <<now, cache>>

Tick ==
  /\ now < MaxClock
  /\ now' = now + 1
  /\ UNCHANGED <<names, label, cache, had>>

CacheTypeOK ==
  /\ now \in 0..MaxClock
  /\ names \in [Paths -> Inodes \union {NONE}]
  /\ label \in [Inodes -> Ids \union {NONE}]
  /\ cache \in [Paths -> Entry \union {NoEntry}]
  /\ had \in [Paths -> SUBSET Ids]
=============================================================================
