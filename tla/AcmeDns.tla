------------------------------ MODULE AcmeDns ------------------------------
(***************************************************************************)
(* UpdateAcmeDNSSecret (pkg/local/secrets.go): every sync of a binding     *)
(* sees to it that the secret with the ACME DNS credentials, which the     *)
(* installer made, has entries for the binding's host names.  It reads the *)
(* secret from the lister, adds the entries to the very object the         *)
(* informer's cache holds, and sends that object, with the resourceVersion *)
(* it was read with, as an Update.  Nothing takes the entries back out of  *)
(* the cache if the Update fails.                                          *)
(***************************************************************************)
EXTENDS Naturals, Sequences

CONSTANTS
    Bindings,
    Records, Uri,        \* names the installer uses, the Verrazzano URI among them
    Credentials,         \* what an entry holds,
    Blank, Missing,      \* with no credentials in it; there is no such entry
    Installs,            \* the contents the installer may write
    MaxLag,
    MaxWrites,           \* bound: writes of the installer
    MaxMishaps           \* bound: failing requests and restarts

\* The host names of a binding.
DnsNames(b) == {<<"vmi", b>>, <<"*.vmi", b>>}
HostNames == UNION {DnsNames(b) : b \in Bindings}
Names == Records \cup HostNames

\* The decoded data of a secret.  Data that lacks the key, cannot be decoded or
\* has no entry are alike: the function then returns an error.
Data == [Names -> Credentials \cup {Blank, Missing}]
NoData == [n \in Names |-> Missing]

Secret == [rv : Nat, data : Data]
Absent == [rv |-> 0, data |-> NoData]

ASSUME ConstantsAssumption ==
    /\ Uri \in Records /\ Records \cap HostNames = {}
    /\ Blank \notin Credentials /\ Missing \notin Credentials /\ Blank # Missing
    /\ Installs \subseteq Data
    /\ MaxLag \in Nat \ {0} /\ MaxWrites \in Nat /\ MaxMishaps \in Nat

VARIABLES
    store, cache, watch, \* the secret, as in Informer
    held,                \* the object a call has changed and is about to send
    version,             \* the API server's last resourceVersion
    writes, mishaps      \* what is left of the bounds

informer == <<store, cache, watch>>
vars == <<informer, held, version, writes, mishaps>>

I == INSTANCE Informer

TypeOK ==
    /\ store \in Secret /\ cache \in Secret /\ watch \in Seq(Secret) /\ held \in Secret
    /\ version \in Nat /\ writes \in Nat /\ mishaps \in Nat

-----------------------------------------------------------------------------
(* UpdateAcmeDNSSecret *)

\* The entry of the URI; Go's zero value if there is none.
UriCredentials(data) == IF data[Uri] = Missing THEN Blank ELSE data[Uri]

\* The data with the entries a binding lacks.
WithEntries_PlainOnly(data, b) ==
    [n \in Names |-> IF n = <<"vmi", b>> /\ data[n] = Missing THEN UriCredentials(data) ELSE data[n]]
WithEntries(data, b) ==
    [n \in Names |-> IF n \in DnsNames(b) /\ data[n] = Missing THEN UriCredentials(data) ELSE data[n]]

\* Up to the request: a secret that is not there, cannot be used, or has the
\* entries already needs none.
UpdateAcmeDNSSecret_NotSent(b) ==
    /\ held = Absent /\ cache.data # NoData
    /\ WithEntries(cache.data, b) # cache.data
    /\ cache' = [cache EXCEPT !.data = WithEntries(cache.data, b)]
    /\ UNCHANGED <<store, watch, held, version, writes, mishaps>>
UpdateAcmeDNSSecret(b) ==
    /\ held = Absent /\ cache.data # NoData
    /\ WithEntries(cache.data, b) # cache.data
    /\ cache' = [cache EXCEPT !.data = WithEntries(cache.data, b)]
    /\ held' = cache'
    /\ UNCHANGED <<store, watch, version, writes, mishaps>>

Mishap == mishaps > 0 /\ mishaps' = mishaps - 1

\* Store a new revision.
Put(data) ==
    /\ I!Room /\ I!Write([rv |-> version + 1, data |-> data])
    /\ version' = version + 1

\* The object carries the resourceVersion of the copy that was read.
Current_Unversioned(secret) == store # Absent
Current(secret) == secret.rv = store.rv

\* The Update is accepted; it is refused (Conflict, NotFound); or it fails.
SendUpdate ==
    /\ held # Absent /\ held' = Absent
    /\ \/ Current(held) /\ Put(held.data) /\ UNCHANGED mishaps
       \/ ~Current(held) /\ UNCHANGED <<informer, version, mishaps>>
       \/ Mishap /\ UNCHANGED <<informer, version>>
    /\ UNCHANGED writes

-----------------------------------------------------------------------------
(* Surroundings (external) *)

\* The installer makes the secret, replaces its contents or removes it.
InstallerWrites ==
    /\ writes > 0 /\ writes' = writes - 1
    /\ \/ \E data \in Installs : Put(data)
       \/ store # Absent /\ I!Room /\ I!Write(Absent) /\ version' = version + 1
    /\ UNCHANGED <<held, mishaps>>

Deliver == I!Deliver /\ UNCHANGED <<held, version, writes, mishaps>>

Restart ==
    /\ Mishap /\ held' = Absent /\ I!Relist(Absent)
    /\ UNCHANGED <<version, writes>>

Init ==
    /\ store \in {Absent} \cup {[rv |-> 1, data |-> d] : d \in Installs} /\ version = 1
    /\ cache = Absent /\ watch = <<store>> /\ held = Absent
    /\ writes = MaxWrites /\ mishaps = MaxMishaps

Next ==
    \/ \E b \in Bindings : UpdateAcmeDNSSecret(b)
    \/ SendUpdate \/ Deliver \/ InstallerWrites \/ Restart

\* Every binding is synced again and again (see BindingRegistry), requests
\* return, and watch events arrive.
Fairness ==
    /\ \A b \in Bindings : SF_vars(UpdateAcmeDNSSecret(b))
    /\ WF_vars(SendUpdate) /\ WF_vars(Deliver)

Spec == Init /\ [][Next]_vars /\ Fairness

-----------------------------------------------------------------------------
(* Properties *)

\* An accepted Update only adds: no entry that is stored is lost or changed,
\* although the object sent comes from a cache that may be old and that earlier,
\* failed calls for other bindings have written into; and what is added are host
\* names of bindings with the credentials stored under the URI.
OnlyAdds(new, old) ==
    \A n \in Names : new[n] = old[n]
        \/ (old[n] = Missing /\ n \in HostNames /\ new[n] = UriCredentials(old))
UpdateOnlyAdds == [][SendUpdate => OnlyAdds(store'.data, store.data)]_vars

\* As long as no request has failed, a cache that is up to date shows what is
\* stored: an Update that is refused for its resourceVersion does no lasting
\* harm, the event that outdated it replaces the copy it changed.
CacheHonest ==
    mishaps = MaxMishaps /\ held = Absent /\ watch = <<>> => cache = store

\* If the secret stays usable, the entries of every binding get into it and
\* stay, unless a failed Update has left them in the cache alone: then every
\* later call finds them there and sends nothing.
HasEntries(secret, b) == \A n \in DnsNames(b) : secret.data[n] # Missing
CacheAhead(b) ==
    /\ mishaps < MaxMishaps /\ held = Absent /\ watch = <<>>
    /\ HasEntries(cache, b) /\ ~HasEntries(store, b)
EntriesAppear ==
    \A b \in Bindings : <>[](store.data # NoData) =>
        <>[](HasEntries(store, b) \/ CacheAhead(b))
=============================================================================
