------------------------------ MODULE Informer ------------------------------
(***************************************************************************)
(* One kind of Kubernetes object as a controller meets it: the API         *)
(* server's store, the client-go shared informer's cache that the listers  *)
(* read, and the watch events that are on their way from the one to the    *)
(* other.  Reads go to the cache, writes go to the store; nothing tells    *)
(* the reader how old the cache is.                                        *)
(*                                                                         *)
(* client-go is not part of the repository.  This module is what           *)
(* pkg/controller/controller.go and pkg/managed/utils.go rely on when they *)
(* start informer factories and hand out listers: snapshots arrive in the  *)
(* order in which they were written, none is invented, and the first one   *)
(* (the initial list) makes HasSynced true.                                *)
(***************************************************************************)
EXTENDS Naturals, Sequences

CONSTANT MaxLag          \* bound: watch events that may be under way at once

VARIABLES store, cache, watch

\* A writer waits while the watch is MaxLag events behind (a bound of the
\* model: it only limits how stale the cache can get).
Room == Len(watch) < MaxLag

\* The API server stores new and notifies the watchers; an update that changes
\* nothing produces no event.
Write(new) ==
    /\ store' = new
    /\ watch' = IF new = store THEN watch ELSE Append(watch, new)
    /\ UNCHANGED cache

\* The informer applies the next watch event (or the initial list).
Deliver ==
    /\ watch # <<>>
    /\ cache' = Head(watch)
    /\ watch' = Tail(watch)
    /\ UNCHANGED store

\* A new process starts with an empty cache and an initial list under way.
Relist(empty) ==
    /\ cache' = empty
    /\ watch' = <<store>>
    /\ UNCHANGED store

\* The last event under way is the stored object, and with none under way the
\* cache is.
Follows ==
    IF watch = <<>> THEN cache = store ELSE watch[Len(watch)] = store
=============================================================================
