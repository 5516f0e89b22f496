--------------------------- MODULE AcmeDns_proofs ---------------------------
(***************************************************************************)
(* Proofs about AcmeDns, for any bindings, contents, lag and number of     *)
(* failures: an accepted Update only adds entries, and only a failed       *)
(* request leaves the cache telling something else than the store.         *)
(***************************************************************************)
EXTENDS AcmeDns, SequenceTheorems, TLAPS

\* A copy is no newer than the last revision, and one without a revision is
\* that of no secret.
Dated(x) == x.rv <= version /\ (x.rv = 0 => x = Absent)

\* A copy with the store's resourceVersion has what is stored: an event exactly
\* that, the objects UpdateAcmeDNSSecret writes into perhaps more.
CopiesOK ==
    /\ Dated(store) /\ Dated(cache) /\ Dated(held)
    /\ \A i \in 1..Len(watch) : Dated(watch[i]) /\ (watch[i].rv = store.rv => watch[i] = store)
    /\ cache.rv = store.rv => OnlyAdds(cache.data, store.data)
    /\ held.rv = store.rv => OnlyAdds(held.data, store.data)

\* The last event under way is what is stored.
WatchOK ==
    /\ watch = <<>> => cache.rv = store.rv
    /\ watch # <<>> => watch[Len(watch)] = store

\* As long as nothing has failed, a copy that is up to date and differs from the
\* store is the one about to be sent.
HonestOK ==
    /\ mishaps <= MaxMishaps
    /\ mishaps = MaxMishaps /\ cache.rv = store.rv =>
         cache = store \/ (held # Absent /\ held.rv = cache.rv)

IInv == TypeOK /\ CopiesOK /\ WatchOK /\ HonestOK

LEMMA NoDataType == NoData \in Data /\ Absent \in Secret
BY DEF NoData, Data, Absent, Secret

LEMMA UriName == Uri \in Names /\ Uri \notin HostNames
BY ConstantsAssumption DEF Names

\* Two revisions of the secret are the same if number and data are.
LEMMA SameSecret ==
    ASSUME NEW x \in Secret, NEW y \in Secret, x.rv = y.rv, x.data = y.data
    PROVE  x = y
BY DEF Secret

LEMMA UriCredentialsType ==
    ASSUME NEW data \in Data
    PROVE  UriCredentials(data) \in Credentials \cup {Blank}
BY UriName DEF UriCredentials, Data

LEMMA WithEntriesType ==
    ASSUME NEW data \in Data, NEW b \in Bindings
    PROVE  WithEntries(data, b) \in Data
BY UriCredentialsType DEF WithEntries, Data

\* Adding the entries of one more binding to a copy that only adds to the stored
\* data gives another such copy.
LEMMA AddingMore ==
    ASSUME NEW old \in Data, NEW data \in Data, NEW b \in Bindings, OnlyAdds(data, old)
    PROVE  OnlyAdds(WithEntries(data, b), old)
<1>1. data[Uri] = old[Uri]
  BY UriName DEF OnlyAdds
<1>2. UriCredentials(data) = UriCredentials(old)
  BY <1>1 DEF UriCredentials
<1>3. UriCredentials(old) # Missing
  BY UriCredentialsType, ConstantsAssumption
<1>4. DnsNames(b) \subseteq HostNames
  BY DEF HostNames
<1> SUFFICES ASSUME NEW n \in Names
             PROVE  WithEntries(data, b)[n] = old[n]
                    \/ (old[n] = Missing /\ n \in HostNames
                        /\ WithEntries(data, b)[n] = UriCredentials(old))
  BY DEF OnlyAdds
<1>5. CASE n \in DnsNames(b) /\ data[n] = Missing
  <2>1. WithEntries(data, b)[n] = UriCredentials(data)
    BY <1>5 DEF WithEntries
  <2>2. old[n] = Missing
    BY <1>3, <1>5 DEF OnlyAdds
  <2> QED
    BY <1>2, <1>4, <1>5, <2>1, <2>2
<1>6. CASE ~(n \in DnsNames(b) /\ data[n] = Missing)
  <2>1. WithEntries(data, b)[n] = data[n]
    BY <1>6 DEF WithEntries
  <2> QED
    BY <2>1 DEF OnlyAdds
<1> QED
  BY <1>5, <1>6

LEMMA OnlyAddsSelf == ASSUME NEW data PROVE OnlyAdds(data, data)
BY DEF OnlyAdds

\* A new revision, or the removal of the secret, is told by the watch and is
\* newer than every copy.
LEMMA Writing ==
    ASSUME IInv, NEW new \in Secret, new # store, new.rv = version + 1 \/ new = Absent,
           I!Write(new), version' = version + 1, mishaps' = mishaps, writes' \in Nat,
           held' = held \/ held' = Absent
    PROVE  IInv'
<1> USE DEF IInv, TypeOK
<1>1. store' = new /\ watch' = Append(watch, new) /\ cache' = cache
  BY DEF I!Write
<1>2. TypeOK'
  BY <1>1, NoDataType DEF TypeOK
<1>3. \A x \in Secret : Dated(x) => Dated(x)'
  BY DEF Dated, Secret
<1>4. /\ \A x \in Secret : Dated(x) /\ x.rv = new.rv => x = new
      /\ Dated(new)' /\ Dated(Absent)'
  <2>1. \A x \in Secret : Dated(x) /\ x.rv = new.rv => x = new
    BY DEF Dated, Secret, Absent
  <2>2. Dated(new)' /\ Dated(Absent)'
    BY DEF Dated, Secret, Absent
  <2> QED
    BY <2>1, <2>2
<1>5. cache'.rv = store'.rv => cache' = store'
  BY <1>1, <1>4 DEF CopiesOK
<1>6. held'.rv = store'.rv => held' = store'
  BY <1>1, <1>4, NoDataType DEF CopiesOK, Dated, Absent
<1>7. \A i \in 1..Len(watch') : Dated(watch[i])' /\ (watch'[i].rv = store'.rv => watch'[i] = store')
  <2> TAKE i \in 1..Len(watch')
  <2>1. CASE i = Len(watch) + 1
    <3>1. watch'[i] = new
      BY <1>1, <2>1
    <3> QED
      BY <1>1, <1>4, <3>1 DEF Dated
  <2>2. CASE i # Len(watch) + 1
    <3>1. i \in 1..Len(watch) /\ watch'[i] = watch[i]
      BY <1>1, <2>2
    <3>2. watch[i] \in Secret /\ Dated(watch[i])
      BY <3>1 DEF CopiesOK
    <3>3. Dated(watch[i])'
      BY <1>3, <3>1, <3>2 DEF Dated
    <3> QED
      BY <1>1, <1>4, <3>1, <3>2, <3>3
  <2> QED
    BY <2>1, <2>2
<1>8. Dated(store)' /\ Dated(cache)' /\ Dated(held)'
  BY <1>1, <1>3, <1>4, NoDataType DEF CopiesOK, Dated
<1>9. CopiesOK'
  BY <1>5, <1>6, <1>7, <1>8, OnlyAddsSelf DEF CopiesOK
<1>10. WatchOK'
  BY <1>1 DEF WatchOK
<1>11. HonestOK'
  BY <1>5 DEF HonestOK
<1> QED
  BY <1>2, <1>9, <1>10, <1>11

\* Put is such a write.
LEMMA Putting ==
    ASSUME IInv, NEW data \in Data, Put(data), mishaps' = mishaps, writes' \in Nat,
           held' = held \/ held' = Absent
    PROVE  IInv'
<1> DEFINE new == [rv |-> version + 1, data |-> data]
<1>1. I!Write(new) /\ version' = version + 1
  BY DEF Put
<1>2. new \in Secret /\ new.rv = version + 1 /\ version \in Nat /\ store.rv \in Nat
  BY DEF IInv, TypeOK, Secret
<1>3. store.rv <= version
  BY DEF IInv, CopiesOK, Dated
<1>4. new # store
  BY <1>2, <1>3
<1> HIDE DEF new
<1> QED
  BY <1>1, <1>2, <1>4, Writing

LEMMA InitOK == Init => IInv
<1> SUFFICES ASSUME Init PROVE IInv
  OBVIOUS
<1>1. store \in Secret /\ Dated(store)
  BY NoDataType, ConstantsAssumption DEF Init, Secret, Dated, Absent
<1>2. TypeOK
  BY <1>1, NoDataType, ConstantsAssumption DEF Init, TypeOK
<1>3. Dated(Absent)
  BY DEF Init, Dated, Absent
<1>4. watch = <<store>> /\ cache = Absent /\ held = Absent
  BY DEF Init
<1>5. store.rv = Absent.rv => store = Absent
  BY <1>1 DEF Dated, Absent
<1>6. CopiesOK
  BY <1>1, <1>3, <1>4, <1>5, OnlyAddsSelf DEF CopiesOK
<1>7. WatchOK
  BY <1>4 DEF WatchOK
<1>8. HonestOK
  BY <1>4, <1>5, ConstantsAssumption DEF Init, HonestOK
<1> QED
  BY <1>2, <1>6, <1>7, <1>8 DEF IInv

LEMMA UpdateAcmeDNSSecretOK ==
    ASSUME IInv, NEW b \in Bindings, UpdateAcmeDNSSecret(b) PROVE IInv'
<1>1. /\ cache.data # NoData /\ cache' = [cache EXCEPT !.data = WithEntries(cache.data, b)]
      /\ held' = cache' /\ UNCHANGED <<store, watch, version, writes, mishaps>>
  BY DEF UpdateAcmeDNSSecret
<1>2. cache \in Secret /\ store \in Secret /\ cache.data \in Data /\ store.data \in Data
      /\ cache.rv \in Nat
  BY DEF IInv, TypeOK, Secret
<1>3. cache' \in Secret /\ cache'.rv = cache.rv /\ cache'.data = WithEntries(cache.data, b)
  BY <1>1, <1>2, WithEntriesType DEF Secret
<1>4. cache.rv # 0
  BY <1>1 DEF IInv, CopiesOK, Dated, Absent
<1>5. cache' # Absent
  BY <1>3, <1>4 DEF Absent
<1>6. TypeOK'
  BY <1>1, <1>3 DEF IInv, TypeOK
<1>7. Dated(cache)' /\ Dated(held)' /\ Dated(store)'
  BY <1>1, <1>3, <1>4 DEF IInv, CopiesOK, Dated
<1>8. cache'.rv = store'.rv => OnlyAdds(cache.data, store.data)'
  BY <1>1, <1>2, <1>3, AddingMore DEF IInv, CopiesOK
<1>9. CopiesOK'
  BY <1>1, <1>7, <1>8 DEF IInv, CopiesOK, Dated
<1>10. WatchOK'
  BY <1>1, <1>3 DEF IInv, WatchOK
<1>11. HonestOK'
  BY <1>1, <1>5 DEF IInv, HonestOK
<1> QED
  BY <1>6, <1>9, <1>10, <1>11 DEF IInv

LEMMA SendUpdateOK ==
    ASSUME IInv, SendUpdate PROVE IInv'
<1>1. held # Absent /\ held' = Absent /\ writes' = writes /\ writes' \in Nat
  BY DEF SendUpdate, IInv, TypeOK
<1>2. CASE Current(held) /\ Put(held.data) /\ UNCHANGED mishaps
  <2>1. held.data \in Data
    BY DEF IInv, TypeOK, Secret
  <2> QED
    BY <1>1, <1>2, <2>1, Putting
<1>3. CASE UNCHANGED <<informer, version>>
           /\ ((~Current(held) /\ mishaps' = mishaps) \/ Mishap)
  <2>1. store' = store /\ cache' = cache /\ watch' = watch /\ version' = version
    BY <1>3 DEF informer
  <2>2. mishaps' \in Nat /\ mishaps' <= mishaps
    BY <1>3 DEF Mishap, IInv, TypeOK
  <2>3. TypeOK'
    BY <1>1, <2>1, <2>2, NoDataType DEF IInv, TypeOK
  <2>4. Dated(Absent) /\ (Absent.rv = store.rv => store = Absent)
    BY DEF Dated, Absent, IInv, CopiesOK, TypeOK
  <2>5. CopiesOK'
    BY <1>1, <2>1, <2>4, OnlyAddsSelf DEF IInv, CopiesOK, Dated
  <2>6. WatchOK'
    BY <2>1 DEF IInv, WatchOK
  <2>7. HonestOK'
    <3>1. CASE ~Current(held) /\ mishaps' = mishaps
      BY <2>1, <3>1 DEF IInv, HonestOK, Current
    <3>2. CASE Mishap
      BY <3>2, ConstantsAssumption DEF Mishap, IInv, TypeOK, HonestOK
    <3> QED
      BY <1>3, <3>1, <3>2
  <2> QED
    BY <2>3, <2>5, <2>6, <2>7 DEF IInv
<1> QED
  BY <1>2, <1>3 DEF SendUpdate, informer

LEMMA DeliverOK ==
    ASSUME IInv, Deliver PROVE IInv'
<1>1. /\ watch # <<>> /\ cache' = Head(watch) /\ watch' = Tail(watch) /\ store' = store
      /\ held' = held /\ version' = version /\ writes' = writes /\ mishaps' = mishaps
  BY DEF Deliver, I!Deliver
<1>2. watch \in Seq(Secret) /\ Len(watch) \in Nat \ {0}
  BY <1>1 DEF IInv, TypeOK
<1>3. /\ Head(watch) = watch[1] /\ Head(watch) \in Secret /\ Tail(watch) \in Seq(Secret)
      /\ Len(Tail(watch)) = Len(watch) - 1
      /\ \A i \in 1..Len(Tail(watch)) : Tail(watch)[i] = watch[i + 1]
  BY <1>1, <1>2
<1>4. TypeOK'
  BY <1>1, <1>3 DEF IInv, TypeOK
<1>5. Dated(cache') /\ (cache'.rv = store.rv => cache' = store)
  BY <1>1, <1>2, <1>3 DEF IInv, CopiesOK
<1>6. \A i \in 1..Len(watch') : Dated(watch'[i]) /\ (watch'[i].rv = store.rv => watch'[i] = store)
  BY <1>1, <1>2, <1>3 DEF IInv, CopiesOK
<1>7. CopiesOK'
  BY <1>1, <1>5, <1>6, OnlyAddsSelf DEF IInv, CopiesOK, Dated
<1>8. WatchOK'
  <2>1. CASE Len(watch) = 1
    <3>1. cache' = store' /\ watch' = <<>>
      BY <1>1, <1>2, <1>3, <2>1 DEF IInv, WatchOK
    <3> QED
      BY <3>1 DEF WatchOK
  <2>2. CASE Len(watch) # 1
    <3>1. watch' # <<>> /\ Len(watch') \in 1..Len(watch')
      <4>1. Len(watch') = Len(watch) - 1 /\ Len(watch') # 0 /\ Len(watch') \in Nat
        BY <1>1, <1>2, <1>3, <2>2
      <4>2. Len(<<>>) = 0
        OBVIOUS
      <4> QED
        BY <4>1, <4>2
    <3>2. watch'[Len(watch')] = watch[Len(watch)]
      BY <1>1, <1>2, <1>3, <3>1
    <3> QED
      BY <1>1, <3>1, <3>2 DEF IInv, WatchOK
  <2> QED
    BY <2>1, <2>2
<1>9. HonestOK'
  BY <1>1, <1>5 DEF IInv, HonestOK
<1> QED
  BY <1>4, <1>7, <1>8, <1>9 DEF IInv

LEMMA InstallerWritesOK ==
    ASSUME IInv, InstallerWrites PROVE IInv'
<1>1. held' = held /\ mishaps' = mishaps /\ writes' \in Nat
  BY DEF InstallerWrites, IInv, TypeOK
<1>2. ASSUME NEW data \in Installs, Put(data) PROVE IInv'
  BY <1>1, <1>2, Putting, ConstantsAssumption
<1>3. CASE store # Absent /\ I!Write(Absent) /\ version' = version + 1
  BY <1>1, <1>3, Writing, NoDataType
<1> QED
  BY <1>2, <1>3 DEF InstallerWrites

LEMMA RestartOK ==
    ASSUME IInv, Restart PROVE IInv'
<1>1. /\ held' = Absent /\ cache' = Absent /\ watch' = <<store>> /\ store' = store
      /\ version' = version /\ writes' = writes
  BY DEF Restart, I!Relist
<1>2. mishaps' \in Nat /\ mishaps' < MaxMishaps
  BY ConstantsAssumption DEF Restart, Mishap, IInv, TypeOK, HonestOK
<1>3. TypeOK'
  BY <1>1, <1>2, NoDataType DEF IInv, TypeOK
<1>4. Dated(Absent) /\ Dated(store) /\ (Absent.rv = store.rv => store = Absent)
  BY DEF Dated, Absent, IInv, CopiesOK, TypeOK
<1>5. CopiesOK'
  BY <1>1, <1>4, OnlyAddsSelf DEF CopiesOK, Dated
<1>6. WatchOK'
  BY <1>1 DEF WatchOK
<1>7. HonestOK'
  BY <1>2, ConstantsAssumption DEF HonestOK
<1> QED
  BY <1>3, <1>5, <1>6, <1>7 DEF IInv

LEMMA NextOK == IInv /\ [Next]_vars => IInv'
<1> SUFFICES ASSUME IInv, [Next]_vars PROVE IInv'
  OBVIOUS
<1>1. CASE UNCHANGED vars
  BY <1>1 DEF vars, informer, IInv, TypeOK, CopiesOK, Dated, OnlyAdds, WatchOK, HonestOK
<1> QED
  BY <1>1, UpdateAcmeDNSSecretOK, SendUpdateOK, DeliverOK, InstallerWritesOK, RestartOK DEF Next

LEMMA Inductive == Spec => []IInv
BY InitOK, NextOK, PTL DEF Spec

-----------------------------------------------------------------------------
(* Theorems *)

\* The secret and its copies keep their types.
THEOREM TypeCorrect == Spec => []TypeOK
<1>1. IInv => TypeOK
  BY DEF IInv
<1> QED
  BY <1>1, Inductive, PTL

\* An accepted Update loses and changes no entry, and what it adds are host
\* names of bindings with the stored credentials of the URI.
THEOREM OnlyAddsEntries == Spec => UpdateOnlyAdds
<1>1. IInv /\ [Next]_vars => [SendUpdate => OnlyAdds(store'.data, store.data)]_vars
  <2> SUFFICES ASSUME IInv, SendUpdate PROVE OnlyAdds(store'.data, store.data)
    OBVIOUS
  <2>1. CASE Current(held) /\ Put(held.data)
    <3>1. store'.data = held.data
      BY <2>1 DEF Put, I!Write
    <3> QED
      BY <2>1, <3>1 DEF Current, IInv, CopiesOK
  <2>2. CASE UNCHANGED informer
    BY <2>2, OnlyAddsSelf DEF informer
  <2> QED
    BY <2>1, <2>2 DEF SendUpdate, informer
<1> QED
  BY <1>1, Inductive, PTL DEF Spec, UpdateOnlyAdds

\* Unless a request has failed, a cache that is up to date shows the store.
THEOREM HonestCache == Spec => []CacheHonest
<1>1. IInv => CacheHonest
  BY DEF IInv, WatchOK, HonestOK, CacheHonest
<1> QED
  BY <1>1, Inductive, PTL
=============================================================================
