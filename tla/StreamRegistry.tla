---------------------------- MODULE StreamRegistry ----------------------------
(***************************************************************************)
(* The bookkeeping shared by every long-lived transport of the Electron    *)
(* main process: electron/main/ipc/stream-registry.ts (StreamRegistry),    *)
(* and electron/main/ipc/connection-cleanup.ts (the renderer teardown).    *)
(*                                                                         *)
(* A registry is a JavaScript Map from owner-scoped keys to entries.  Here *)
(* it is a function on Key, None where the Map has no entry.  An operator  *)
(* below returns the Map after a method ran, or a set of entries the       *)
(* method hands to the registry's dispose callback; what dispose does to   *)
(* an entry belongs to the handler that owns the registry.                 *)
(***************************************************************************)
EXTENDS Naturals, FiniteSets

CONSTANTS Owner,   \* the webContents ids of the renderers
          Id,      \* the connection ids the renderers choose
          None     \* no entry

(* ownerScopedKey: the id a renderer supplies, scoped to that renderer. *)
Key == Owner \X Id

OwnerOf(k) == k[1]

EmptyMap == [k \in Key |-> None]

KeysIn(map) == {k \in Key : map[k] # None}

Entries(map) == {map[k] : k \in KeysIn(map)}

Size(map) == Cardinality(KeysIn(map))

(* A slip the owner-scoped key rules out: the bare id as the key.          *)
PutUnscoped(map, k, entry) ==
    [j \in Key \cup {k[2]} |-> IF j = k[2] THEN entry ELSE map[j]]

Put(map, k, entry) == [map EXCEPT ![k] = entry]

Drop(map, k) == [map EXCEPT ![k] = None]

(* The entries a renderer owns, and the map without them: disposeByOwner.  *)
OwnedBy(map, o) == {map[k] : k \in {j \in KeysIn(map) : OwnerOf(j) = o}}

WithoutOwner(map, o) == [k \in Key |-> IF OwnerOf(k) = o THEN None ELSE map[k]]

(* bindRendererCleanup: o gets its one 'destroyed' listener, once.  bound  *)
(* is the handler's set in boundByHandler; a renderer already destroyed is *)
(* torn down at once instead, which TeardownIfDead gives.                  *)
Bind(bound, alive, o) == IF o \in alive THEN bound \cup {o} ELSE bound

TeardownIfDead(map, alive, o) ==
    IF o \in alive THEN map ELSE WithoutOwner(map, o)

(* The 'destroyed' listener: it runs only where one was bound.             *)
AfterDestroyed(map, bound, o) == IF o \in bound THEN WithoutOwner(map, o) ELSE map

DisposedOnDestroyed(map, bound, o) == IF o \in bound THEN OwnedBy(map, o) ELSE {}
================================================================================
