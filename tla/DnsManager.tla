---------------------------- MODULE DnsManager ----------------------------
(***************************************************************************)
(* The DNS manager of src/net/src/dns_manager.cpp: the system DNS servers  *)
(* and the subscribers that are told when they change.                     *)
(*                                                                         *)
(* dns_manager_set_system_servers, _subscribe_ and _unsubscribe_ run on    *)
(* any thread and hold the manager's mutex for their whole body, so each   *)
(* is one action. A change submits, to the event loop of every subscriber  *)
(* that has none pending, a notification task. That task takes the mutex,  *)
(* finds its subscription, clears the pending marker and reads the         *)
(* callback (TaskStart), then calls the callback with the mutex released   *)
(* (Notify). Each subscription's tasks run one at a time on its loop.      *)
(***************************************************************************)
EXTENDS Naturals, Sequences

CONSTANTS
    MaxSubs,     \* subscriptions created in a run
    MaxSets      \* dns_manager_set_system_servers calls in a run

ASSUME ManagerAssumption ==
    /\ MaxSubs \in Nat
    /\ MaxSets \in Nat

\* DnsChangeSubscriptionId values handed out by next_dns_change_subscription_id++
SubIds == 0..(MaxSubs - 1)

\* Server addresses, abstracted to what prepare_system_servers tells apart:
\* a loopback address, one of AG_UNFILTERED_DNS_IPS, any other server.
Addresses == {"loopback", "unfiltered", "other"}
IsLoopback(a) == a = "loopback"
IsUnfiltered(a) == a = "unfiltered"

\* EXTRA_FALLBACK_SYSTEM_DNS
ExtraFallbacks == <<"tls://1.1.1.1", "tls://8.8.8.8">>

\* SystemDnsServers with lists of at most one entry each
Lists == {<<>>} \cup {<<a>> : a \in Addresses}
Inputs == [main : Lists, fallback : Lists]
NoServers == [main |-> <<>>, fallback |-> <<>>]

SeqElems(s) == {s[i] : i \in DOMAIN s}

\* Mutant: the pass that removes AdGuard's unfiltered servers is missing.
FilteredLoopbackOnly(in) ==
    {a \in SeqElems(in.main) \cup SeqElems(in.fallback) : ~IsLoopback(a)}

\* The set of addresses left after both erase_if passes.
Filtered(in) ==
    {a \in SeqElems(in.main) \cup SeqElems(in.fallback) :
        ~IsLoopback(a) /\ ~IsUnfiltered(a)}

\* prepare_system_servers: the servers are kept as given; the extra
\* fallbacks are appended when nothing usable is left but both lists were
\* given.
PrepareSystemServers(in) ==
    IF Filtered(in) = {} /\ in.main # <<>> /\ in.fallback # <<>>
    THEN [main |-> in.main, fallback |-> in.fallback \o ExtraFallbacks]
    ELSE in

VARIABLES
    servers,      \* system_servers
    version,      \* number of set_system_servers calls so far (history)
    nextSub,      \* next_dns_change_subscription_id
    subs,         \* ids present in dns_change_subscriptions
    marker,       \* notification_task.has_value() of each subscription
    queued,       \* notification tasks submitted and not yet run or cancelled
    calling,      \* loops whose task has read a callback and not yet called it
    since,        \* version when each subscription was created (history)
    seen          \* version each subscriber last read in its callback (history)

vars == <<servers, version, nextSub, subs, marker, queued, calling, since, seen>>

NoVersion == MaxSets + 1

-----------------------------------------------------------------------------
(* Calls under the mutex *)

\* engage_notifications: a task for every subscription without one.
EngageNotifications ==
    LET idle == {s \in subs : ~marker[s]} IN
    /\ marker' = [s \in SubIds |-> IF s \in idle THEN TRUE ELSE marker[s]]
    /\ queued' = queued \cup idle

\* dns_manager_set_system_servers(servers)
SetSystemServers(in) ==
    /\ version < MaxSets
    /\ servers' = PrepareSystemServers(in)
    /\ version' = version + 1
    /\ EngageNotifications
    /\ UNCHANGED <<nextSub, subs, calling, since, seen>>

\* Mutant: the subscription id is pre-incremented.
SubscribePreIncrement ==
    /\ nextSub < MaxSubs
    /\ nextSub' = nextSub + 1
    /\ subs' = subs \cup {nextSub + 1}
    /\ marker' = [marker EXCEPT ![nextSub + 1] = FALSE]
    /\ since' = [since EXCEPT ![nextSub + 1] = version]
    /\ UNCHANGED <<servers, version, queued, calling, seen>>

\* dns_manager_subscribe_servers_change: a new subscription, no task yet.
Subscribe ==
    /\ nextSub < MaxSubs
    /\ nextSub' = nextSub + 1
    /\ subs' = subs \cup {nextSub}
    /\ marker' = [marker EXCEPT ![nextSub] = FALSE]
    /\ since' = [since EXCEPT ![nextSub] = version]
    /\ UNCHANGED <<servers, version, queued, calling, seen>>

\* dns_manager_unsubscribe_servers_change, from any thread: erase the
\* subscription; its AutoTaskId cancels a pending task, unless that task's
\* loop has already taken it off its queue and waits for the mutex.
Unsubscribe(s) ==
    /\ s \in subs
    /\ subs' = subs \ {s}
    /\ marker' = [marker EXCEPT ![s] = FALSE]
    /\ \/ queued' = queued \ {s}
       \/ UNCHANGED queued
    /\ UNCHANGED <<servers, version, nextSub, calling, since, seen>>

-----------------------------------------------------------------------------
(* The notification task, on the subscriber's event loop *)

\* Mutant: the task does not release its marker.
TaskStartKeepsMarker(s) ==
    /\ s \in queued
    /\ s \notin calling
    /\ queued' = queued \ {s}
    /\ calling' = IF s \in subs THEN calling \cup {s} ELSE calling
    /\ UNCHANGED <<servers, version, nextSub, subs, marker, since, seen>>

\* The locked part of the task: find the subscription, release the
\* marker, read the callback. A task of an erased subscription does nothing.
TaskStart(s) ==
    /\ s \in queued
    /\ s \notin calling
    /\ queued' = queued \ {s}
    /\ IF s \in subs
       THEN /\ marker' = [marker EXCEPT ![s] = FALSE]
            /\ calling' = calling \cup {s}
       ELSE UNCHANGED <<marker, calling>>
    /\ UNCHANGED <<servers, version, nextSub, subs, since, seen>>

\* notification(notification_arg), outside the mutex. The subscriber's
\* callback reads the servers with dns_manager_get_system_servers.
Notify(s) ==
    /\ s \in calling
    /\ calling' = calling \ {s}
    /\ seen' = [seen EXCEPT ![s] = version]
    /\ UNCHANGED <<servers, version, nextSub, subs, marker, queued, since>>

-----------------------------------------------------------------------------

Init ==
    /\ servers = NoServers
    /\ version = 0
    /\ nextSub = 0
    /\ subs = {}
    /\ marker = [s \in SubIds |-> FALSE]
    /\ queued = {}
    /\ calling = {}
    /\ since = [s \in SubIds |-> 0]
    /\ seen = [s \in SubIds |-> NoVersion]

Next ==
    \/ \E in \in Inputs : SetSystemServers(in)
    \/ Subscribe
    \/ \E s \in SubIds : Unsubscribe(s) \/ TaskStart(s) \/ Notify(s)

\* Each loop runs the tasks submitted to it.
Fairness == \A s \in SubIds : WF_vars(TaskStart(s)) /\ WF_vars(Notify(s))

Spec == Init /\ [][Next]_vars
FairSpec == Spec /\ Fairness

-----------------------------------------------------------------------------
(* Properties *)

\* What prepare_system_servers can return for the inputs above.
StoredServers ==
    [main : Lists, fallback : Lists \cup {<<a>> \o ExtraFallbacks : a \in Addresses}]

TypeOK ==
    /\ servers \in StoredServers
    /\ version \in 0..MaxSets
    /\ nextSub \in 0..MaxSubs
    /\ subs \subseteq 0..(nextSub - 1)
    /\ marker \in [SubIds -> BOOLEAN]
    /\ queued \subseteq SubIds
    /\ calling \subseteq SubIds
    /\ since \in [SubIds -> 0..MaxSets]
    /\ seen \in [SubIds -> 0..MaxSets \cup {NoVersion}]

\* Stale(s): the servers changed since s subscribed and the subscriber has
\* not read the latest servers.
Stale(s) == version # since[s] /\ seen[s] # version

\* No lost update (the debounce of engage_notifications and the release of
\* the marker in the task): a live subscriber that has not seen the latest
\* servers has a notification task queued or its callback about to run.
NoLostUpdate ==
    \A s \in subs : Stale(s) => s \in queued \/ s \in calling

\* Whenever both server lists are given, the stored servers contain one that
\* is neither loopback nor one of AdGuard's unfiltered servers
\* (prepare_system_servers' extra fallbacks).
Usable(sv) ==
    sv.main # <<>> /\ sv.fallback # <<>> =>
        \E a \in SeqElems(sv.main) \cup SeqElems(sv.fallback) :
            ~IsLoopback(a) /\ ~IsUnfiltered(a)

UsableServers == Usable(servers)

\* Every live subscriber that misses a change eventually reads the latest
\* servers, unless it unsubscribes.
EventuallyNotified ==
    \A s \in SubIds : (s \in subs /\ Stale(s)) ~> (s \notin subs \/ ~Stale(s))

\* The callback of a subscription is never called after
\* dns_manager_unsubscribe_servers_change has erased it.
NoNotifyAfterUnsubscribe ==
    [][\A s \in SubIds : Notify(s) => s \in subs]_vars

=============================================================================
