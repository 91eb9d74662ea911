-------------------------- MODULE DnsManagerProofs --------------------------
(***************************************************************************)
(* Proofs about the DNS manager of src/net/src/dns_manager.cpp, for every  *)
(* number of subscriptions and server changes.                             *)
(***************************************************************************)
EXTENDS DnsManager, SequenceTheorems, TLAPS

-----------------------------------------------------------------------------
(* prepare_system_servers *)

\* prepare_system_servers returns servers of the stored shape.
LEMMA PrepareType ==
    ASSUME NEW in \in Inputs
    PROVE  PrepareSystemServers(in) \in StoredServers
<1>1. CASE Filtered(in) = {} /\ in.main # <<>> /\ in.fallback # <<>>
  <2>1. PICK a \in Addresses : in.fallback = <<a>>
    BY <1>1 DEF Inputs, Lists
  <2>2. PrepareSystemServers(in)
          = [main |-> in.main, fallback |-> <<a>> \o ExtraFallbacks]
    BY <1>1, <2>1 DEF PrepareSystemServers, Inputs
  <2>. QED  BY <2>2 DEF StoredServers, Inputs
<1>2. CASE ~(Filtered(in) = {} /\ in.main # <<>> /\ in.fallback # <<>>)
  BY <1>2 DEF PrepareSystemServers, StoredServers, Inputs
<1>. QED  BY <1>1, <1>2

\* The names that can appear in a stored server list.
ServerNames == Addresses \cup {"tls://1.1.1.1", "tls://8.8.8.8"}

\* Whatever the system gives, prepare_system_servers leaves a server that is
\* neither loopback nor AdGuard's unfiltered one whenever both lists are
\* non-empty: either one survived the erase_if passes, or the extra
\* fallbacks were appended.
LEMMA PrepareUsable ==
    ASSUME NEW in \in Inputs
    PROVE  Usable(PrepareSystemServers(in))
<1>1. CASE Filtered(in) = {} /\ in.main # <<>> /\ in.fallback # <<>>
  <2>1. PICK a \in Addresses : in.fallback = <<a>>
    BY <1>1 DEF Inputs, Lists
  <2>2. PrepareSystemServers(in).fallback = in.fallback \o ExtraFallbacks
    BY <1>1 DEF PrepareSystemServers
  <2>3. <<a>> \in Seq(ServerNames) /\ ExtraFallbacks \in Seq(ServerNames)
    BY DEF ServerNames, ExtraFallbacks
  <2>4. /\ 2 \in DOMAIN (<<a>> \o ExtraFallbacks)
        /\ (<<a>> \o ExtraFallbacks)[2] = "tls://1.1.1.1"
    BY <2>3, ConcatProperties DEF ExtraFallbacks
  <2>5. "tls://1.1.1.1" \in SeqElems(PrepareSystemServers(in).fallback)
    BY <2>1, <2>2, <2>4 DEF SeqElems
  <2>. QED  BY <2>5 DEF Usable, IsLoopback, IsUnfiltered
<1>2. CASE Filtered(in) # {}
  <2>1. PrepareSystemServers(in) = in
    BY <1>2 DEF PrepareSystemServers
  <2>. QED  BY <1>2, <2>1 DEF Usable, Filtered
<1>3. CASE in.main = <<>> \/ in.fallback = <<>>
  <2>1. PrepareSystemServers(in) = in
    BY <1>3 DEF PrepareSystemServers
  <2>. QED  BY <1>3, <2>1 DEF Usable
<1>. QED  BY <1>1, <1>2, <1>3

-----------------------------------------------------------------------------
(* Type correctness *)

LEMMA InitTypeOK == Init => TypeOK
BY ManagerAssumption DEF Init, TypeOK, StoredServers, NoServers, Lists, SubIds,
   NoVersion

LEMMA NextTypeOK == TypeOK /\ [Next]_vars => TypeOK'
<1> SUFFICES ASSUME TypeOK, [Next]_vars PROVE TypeOK'
  OBVIOUS
<1>1. ASSUME NEW in \in Inputs, SetSystemServers(in) PROVE TypeOK'
  <2>1. servers' = PrepareSystemServers(in) /\ EngageNotifications
    BY <1>1 DEF SetSystemServers
  <2>2. servers' \in StoredServers
    BY <2>1, PrepareType
  <2>3. marker' \in [SubIds -> BOOLEAN]
    BY <2>1 DEF EngageNotifications, TypeOK
  <2>4. queued' \subseteq queued \cup subs
    BY <2>1 DEF EngageNotifications
  <2>5. subs \subseteq SubIds
    BY ManagerAssumption DEF TypeOK, SubIds
  <2>6. version < MaxSets /\ version' = version + 1
    BY <1>1 DEF SetSystemServers
  <2>7. version' \in 0..MaxSets
    BY <2>6, ManagerAssumption DEF TypeOK
  <2>. QED  BY <1>1, <2>2, <2>3, <2>4, <2>5, <2>7 DEF SetSystemServers, TypeOK
<1>2. CASE Subscribe
  BY <1>2, ManagerAssumption DEF Subscribe, TypeOK, SubIds
<1>3. ASSUME NEW s \in SubIds, Unsubscribe(s) PROVE TypeOK'
  BY <1>3 DEF Unsubscribe, TypeOK
<1>4. ASSUME NEW s \in SubIds, TaskStart(s) PROVE TypeOK'
  BY <1>4 DEF TaskStart, TypeOK
<1>5. ASSUME NEW s \in SubIds, Notify(s) PROVE TypeOK'
  BY <1>5 DEF Notify, TypeOK
<1>6. CASE UNCHANGED vars
  BY <1>6 DEF vars, TypeOK, StoredServers
<1>. QED  BY <1>1, <1>2, <1>3, <1>4, <1>5, <1>6 DEF Next

\* The manager's state keeps its shape across every call and task.
THEOREM TypeCorrect == Spec => []TypeOK
BY InitTypeOK, NextTypeOK, PTL DEF Spec

-----------------------------------------------------------------------------
(* Usable servers *)

\* Whenever both server lists are given, the stored servers contain a usable
\* one: dns_manager_set_system_servers stores only what
\* prepare_system_servers returns, and nothing else writes system_servers.
THEOREM ServersUsable == Spec => []UsableServers
<1>1. Init => UsableServers
  BY DEF Init, UsableServers, Usable, NoServers
<1>2. UsableServers /\ [Next]_vars => UsableServers'
  <2> SUFFICES ASSUME UsableServers, [Next]_vars PROVE UsableServers'
    OBVIOUS
  <2>1. ASSUME NEW in \in Inputs, SetSystemServers(in) PROVE UsableServers'
    BY <2>1, PrepareUsable DEF SetSystemServers, UsableServers
  <2>2. servers' = servers => UsableServers'
    BY DEF UsableServers, Usable
  <2>. QED
    BY <2>1, <2>2 DEF Next, Subscribe, Unsubscribe, TaskStart, Notify, vars
<1>. QED  BY <1>1, <1>2, PTL DEF Spec

-----------------------------------------------------------------------------
(* No lost update *)

\* A live subscription whose marker is set has its task queued: the marker
\* is set only together with a submit, and released only by the task.
MarkerQueued == \A s \in subs : marker[s] => s \in queued

IInv == TypeOK /\ NoLostUpdate /\ MarkerQueued

LEMMA InitIInv == Init => IInv
BY InitTypeOK DEF Init, IInv, NoLostUpdate, MarkerQueued

LEMMA NextIInv == IInv /\ [Next]_vars => IInv'
<1> SUFFICES ASSUME IInv, [Next]_vars PROVE IInv'
  OBVIOUS
<1>0. TypeOK'
  BY NextTypeOK DEF IInv
<1>1. ASSUME NEW in \in Inputs, SetSystemServers(in)
      PROVE  NoLostUpdate' /\ MarkerQueued'
  <2>1. \A s \in subs : s \in queued'
    BY <1>1 DEF SetSystemServers, EngageNotifications, IInv, MarkerQueued
  <2>. QED  BY <1>1, <2>1 DEF SetSystemServers, NoLostUpdate, MarkerQueued
<1>2. CASE Subscribe
  <2>1. ASSUME NEW t \in subs'
        PROVE  (Stale(t) => t \in queued \/ t \in calling)'
    <3>1. CASE t = nextSub
      BY <1>2, <3>1, ManagerAssumption DEF Subscribe, Stale, IInv, TypeOK, SubIds
    <3>2. CASE t # nextSub
      <4>1. t \in subs
        BY <1>2, <3>2 DEF Subscribe
      <4>. QED
        BY <1>2, <3>2, <4>1 DEF Subscribe, Stale, IInv, NoLostUpdate, TypeOK
    <3>. QED  BY <3>1, <3>2
  <2>2. MarkerQueued'
    BY <1>2, ManagerAssumption DEF Subscribe, IInv, MarkerQueued, TypeOK, SubIds
  <2>. QED  BY <1>0, <2>1, <2>2 DEF NoLostUpdate, IInv
<1>3. ASSUME NEW s \in SubIds, Unsubscribe(s)
      PROVE  NoLostUpdate' /\ MarkerQueued'
  BY <1>3 DEF Unsubscribe, IInv, NoLostUpdate, MarkerQueued, Stale, TypeOK
<1>4. ASSUME NEW s \in SubIds, TaskStart(s)
      PROVE  NoLostUpdate' /\ MarkerQueued'
  <2>1. CASE s \in subs
    <3>1. /\ queued' = queued \ {s}
          /\ marker' = [marker EXCEPT ![s] = FALSE]
          /\ calling' = calling \cup {s}
          /\ UNCHANGED <<version, subs, since, seen>>
      BY <1>4, <2>1 DEF TaskStart
    <3>. QED
      BY <3>1 DEF IInv, NoLostUpdate, MarkerQueued, Stale, TypeOK
  <2>2. CASE s \notin subs
    <3>2. /\ queued' = queued \ {s}
          /\ UNCHANGED <<marker, calling, version, subs, since, seen>>
      BY <1>4, <2>2 DEF TaskStart
    <3>. QED
      BY <2>2, <3>2 DEF IInv, NoLostUpdate, MarkerQueued, Stale
  <2>. QED  BY <2>1, <2>2
<1>5. ASSUME NEW s \in SubIds, Notify(s)
      PROVE  NoLostUpdate' /\ MarkerQueued'
  BY <1>5 DEF Notify, IInv, NoLostUpdate, MarkerQueued, Stale, TypeOK
<1>6. CASE UNCHANGED vars
  BY <1>6 DEF vars, IInv, NoLostUpdate, MarkerQueued, Stale, TypeOK
<1>. QED  BY <1>0, <1>1, <1>2, <1>3, <1>4, <1>5, <1>6 DEF Next, IInv

\* No change of the system servers is lost to the debounce in
\* engage_notifications: a live subscriber that has not read the latest
\* servers always has a notification task queued or its callback pending.
THEOREM NoUpdateLost == Spec => []NoLostUpdate
<1>1. IInv => NoLostUpdate
  BY DEF IInv
<1>. QED  BY InitIInv, NextIInv, <1>1, PTL DEF Spec

=============================================================================
