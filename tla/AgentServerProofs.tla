-------------------------- MODULE AgentServerProofs --------------------------
(***************************************************************************)
(* Proofs about AgentServer, for every number of slugs, requests and runs. *)
(***************************************************************************)
EXTENDS AgentServer, TLAPS

USE ServerAssumption
USE DEF Goto, Answer, Fail, served, runs, Slug, Kind

\* Between its two waits under the lock a request is the first of the queue.
LockHeld == \A r \in Requests : pc[r] \in {"closing", "discovering"} => Holds(r)

\* While it holds the lock there, nobody fills its slug.
SlugFree ==
  \A r \in Requests : pc[r] \in {"closing", "discovering"} => ~HasAgent(Slug(r))

\* A runtime is registered under its own slug only.
Owned == \A s \in Slugs : HasAgent(s) => AgentSlug(registry[s]) = s

Placed == TypeOK /\ LockHeld /\ SlugFree /\ Owned /\ RegistryAgrees

\* The actions of Next, in three groups.
Asking ==
  \/ \E r \in Requests : Arrive(r) \/ StartReload(r)
  \/ \E u \in Runs : (\E s \in Slugs : Resolve(u, s)) \/ GetProvider(u)

Failing == \E r \in Requests : LoadTwice(r) \/ BuildFails(r) \/ UnloadMissing(r)

Changing == \E r \in Requests : Build(r) \/ Mount(r) \/ Take(r) \/ Close(r)

LEMMA NextSplit == Next => Asking \/ Failing \/ Changing
  BY DEF Next, Serve, Asking, Failing, Changing

-----------------------------------------------------------------------------
(* Types                                                                   *)

LEMMA InitTyped == Init => TypeOK
  BY DEF Init, TypeOK, Runtimes, Ops, Steps, Answers

\* The lock's queue is only appended to, by a request, or loses its first.
LEMMA Appending ==
  ASSUME NEW q \in Seq(Requests), NEW r \in Requests
  PROVE  Append(q, r) \in Seq(Requests) /\ Append(q, r) # <<>>
  OBVIOUS

LEMMA Taking ==
  ASSUME NEW q \in Seq(Requests), q # <<>>
  PROVE  Tail(q) \in Seq(Requests)
  OBVIOUS

\* The holder stays first when another request waits.
LEMMA FirstStays ==
  ASSUME NEW q \in Seq(Requests), NEW r \in Requests, q # <<>>
  PROVE  Head(Append(q, r)) = Head(q)
  OBVIOUS

LEMMA NextQueue == TypeOK /\ LockHeld /\ [Next]_vars => queue' \in Seq(Requests)
<1> SUFFICES ASSUME TypeOK, LockHeld, [Next]_vars PROVE queue' \in Seq(Requests)
  OBVIOUS
<1>0. queue \in Seq(Requests)
  BY DEF TypeOK
<1>1. CASE Asking
  <2>1. ASSUME NEW r \in Requests, Arrive(r) PROVE queue' \in Seq(Requests)
    <3>1. CASE AcceptLoad(r)
      BY <1>0, <3>1, Appending DEF AcceptLoad, Acquire
    <3>2. CASE AcceptDelete(r)
      BY <1>0, <3>2, Appending DEF AcceptDelete, Acquire
    <3> QED
      BY <1>0, <2>1, <3>1, <3>2 DEF Arrive, RefuseRequest, AcceptReload
  <2>2. ASSUME NEW r \in Requests, StartReload(r) PROVE queue' \in Seq(Requests)
    BY <1>0, <2>2, Appending DEF StartReload, Acquire
  <2> QED
    BY <1>0, <1>1, <2>1, <2>2 DEF Asking, Resolve, GetProvider
<1>2. CASE Failing
  <2>1. PICK r \in Requests : LoadTwice(r) \/ BuildFails(r) \/ UnloadMissing(r)
    BY <1>2 DEF Failing
  <2>2. Holds(r) /\ queue' = Tail(queue)
    BY <2>1 DEF LoadTwice, BuildFails, UnloadMissing, LockHeld
  <2> QED
    BY <1>0, <2>2, Taking DEF Holds
<1>3. ASSUME NEW r \in Requests, Build(r) \/ Take(r) PROVE queue' \in Seq(Requests)
  BY <1>0, <1>3 DEF Build, Take
<1>4. ASSUME NEW r \in Requests, Mount(r) PROVE queue' \in Seq(Requests)
  BY <1>0, <1>4, Taking DEF Mount, LockHeld, Holds
<1>5. ASSUME NEW r \in Requests, Close(r) PROVE queue' \in Seq(Requests)
  <2>1. Tail(queue) \in Seq(Requests)
    BY <1>0, <1>5, Taking DEF Close, LockHeld, Holds
  <2> QED
    BY <1>5, <2>1, Appending DEF Close
<1> QED
  BY <1>0, <1>1, <1>2, <1>3, <1>4, <1>5, NextSplit DEF Changing, vars

LEMMA NextTyped == TypeOK /\ LockHeld /\ [Next]_vars => TypeOK'
<1> SUFFICES ASSUME TypeOK, LockHeld, [Next]_vars PROVE TypeOK'
  OBVIOUS
<1>0. queue' \in Seq(Requests)
  BY NextQueue
<1> USE DEF TypeOK, Runtimes, Ops, Steps, Answers
<1>1. CASE Asking
  <2>1. ASSUME NEW r \in Requests, RefuseRequest(r) PROVE TypeOK'
    <3>1. PICK a \in {"400", "404", "409"} : Answer(r, a)
      BY <2>1 DEF RefuseRequest
    <3> QED
      BY <2>1, <3>1 DEF RefuseRequest
  <2>2. ASSUME NEW r \in Requests, AcceptLoad(r) PROVE TypeOK'
    BY <1>0, <2>2 DEF AcceptLoad
  <2>6. ASSUME NEW r \in Requests, AcceptDelete(r) PROVE TypeOK'
    BY <1>0, <2>6 DEF AcceptDelete
  <2>3. ASSUME NEW r \in Requests, AcceptReload(r) PROVE TypeOK'
    BY <2>3 DEF AcceptReload
  <2>7. ASSUME NEW r \in Requests, StartReload(r) PROVE TypeOK'
    <3>1. CASE HasAgent(Slug(r))
      BY <1>0, <2>7, <3>1 DEF StartReload
    <3>2. CASE ~HasAgent(Slug(r))
      BY <2>7, <3>2 DEF StartReload
    <3> QED
      BY <3>1, <3>2
  <2>4. ASSUME NEW u \in Runs, NEW s \in Slugs, Resolve(u, s) PROVE TypeOK'
    BY <2>4 DEF Resolve
  <2>5. ASSUME NEW u \in Runs, GetProvider(u) PROVE TypeOK'
    BY <2>5 DEF GetProvider
  <2> QED
    BY <1>1, <2>1, <2>2, <2>3, <2>4, <2>5, <2>6, <2>7 DEF Asking, Arrive
<1>2. ASSUME NEW r \in Requests, LoadTwice(r) \/ BuildFails(r) \/ UnloadMissing(r)
      PROVE  TypeOK'
  <2>1. PICK status \in {"400", "500"} : Fail(r, status)
    BY <1>2 DEF LoadTwice, BuildFails, UnloadMissing
  <2> QED
    BY <1>0, <2>1
<1>3. ASSUME NEW r \in Requests, Build(r) \/ Take(r) PROVE TypeOK'
  BY ZenonT(30), <1>3 DEF Build, Take, HasAgent
<1>4. ASSUME NEW r \in Requests, Mount(r) PROVE TypeOK'
  BY <1>0, <1>4 DEF Mount
<1>5. ASSUME NEW r \in Requests, Close(r) PROVE TypeOK'
  BY <1>0, <1>5 DEF Close
<1>6. CASE UNCHANGED vars
  BY <1>6 DEF vars
<1> QED
  BY <1>1, <1>2, <1>3, <1>4, <1>5, <1>6, NextSplit DEF Changing, Failing

-----------------------------------------------------------------------------
(* The lock                                                                *)

LEMMA OneHolder ==
  ASSUME NEW p \in Requests, NEW q \in Requests, Holds(p), Holds(q)
  PROVE  p = q
  BY DEF Holds

LEMMA HolderStays ==
  ASSUME TypeOK, NEW r \in Requests, Acquire(r), NEW q \in Requests, Holds(q)
  PROVE  Holds(q)'
  BY FirstStays, Appending DEF TypeOK, Acquire, Holds

\* The steps of a request that holds the lock find no other one between its
\* two waits.
Sole(r) == \A q \in Requests : pc[q] \in {"closing", "discovering"} => q = r

LEMMA HolderIsSole ==
  ASSUME LockHeld, NEW r \in Requests, Holds(r)
  PROVE  Sole(r)
  BY OneHolder DEF LockHeld, Sole

LEMMA InitLock == Init => LockHeld /\ SlugFree
  BY DEF Init, LockHeld, SlugFree

LEMMA NextLock == TypeOK /\ LockHeld /\ [Next]_vars => LockHeld'
<1> SUFFICES ASSUME TypeOK, LockHeld, [Next]_vars,
                    NEW q \in Requests, pc'[q] \in {"closing", "discovering"}
             PROVE  Holds(q)'
  BY DEF LockHeld
<1>0. pc \in [Requests -> Steps]
  BY DEF TypeOK
<1>1. CASE Asking
  <2>1. ASSUME NEW r \in Requests, Arrive(r) \/ StartReload(r) PROVE Holds(q)'
    <3>1. q # r /\ pc[q] = pc'[q]
      BY <1>0, <2>1 DEF Arrive, RefuseRequest, AcceptLoad, AcceptDelete,
                        AcceptReload, StartReload
    <3>2. Holds(q)
      BY <3>1 DEF LockHeld
    <3>3. Acquire(r) \/ UNCHANGED queue
      BY <2>1 DEF Arrive, RefuseRequest, AcceptLoad, AcceptDelete,
                  AcceptReload, StartReload
    <3> QED
      BY <3>2, <3>3, HolderStays DEF Holds
  <2>2. ASSUME NEW u \in Runs, (\E s \in Slugs : Resolve(u, s)) \/ GetProvider(u)
        PROVE  Holds(q)'
    BY <2>2 DEF Resolve, GetProvider, LockHeld, Holds
  <2> QED
    BY <1>1, <2>1, <2>2 DEF Asking
<1>2. CASE Failing
  <2>1. PICK r \in Requests : LoadTwice(r) \/ BuildFails(r) \/ UnloadMissing(r)
    BY <1>2 DEF Failing
  <2>2. Sole(r) /\ pc' = [pc EXCEPT ![r] = "done"]
    BY <2>1, HolderIsSole DEF LoadTwice, BuildFails, UnloadMissing, LockHeld
  <2> QED
    BY <1>0, <2>2 DEF Sole
<1>3. ASSUME NEW r \in Requests, Build(r) \/ Take(r) PROVE Holds(q)'
  <2>1. Sole(r) /\ Holds(r) /\ UNCHANGED queue
    BY <1>3, HolderIsSole DEF Build, Take
  <2>2. q = r
    BY <1>0, <1>3, <2>1 DEF Sole, Build, Take
  <2> QED
    BY <2>1, <2>2 DEF Holds
<1>4. ASSUME NEW r \in Requests, Mount(r) \/ Close(r) PROVE Holds(q)'
  <2>1. Sole(r) /\ pc'[r] \in {"done", "load"} /\ (q # r => pc'[q] = pc[q])
    BY <1>0, <1>4, HolderIsSole DEF Mount, Close, LockHeld
  <2> QED
    BY <2>1 DEF Sole
<1>5. CASE UNCHANGED vars
  BY <1>5 DEF vars, LockHeld, Holds
<1> QED
  BY <1>1, <1>2, <1>3, <1>4, <1>5, NextSplit DEF Changing

-----------------------------------------------------------------------------
(* The registry                                                            *)

\* A step that touches neither registry nor routes, and brings nobody between
\* its two waits, except with a free slug.
Keeps ==
  /\ UNCHANGED <<op, registry, directory, mounted>>
  /\ \A q \in Requests :
       /\ pc'[q] = "closing" <=> pc[q] = "closing"
       /\ pc'[q] = "discovering" => pc[q] = "discovering" \/ ~HasAgent(Slug(q))

LEMMA KeepsPlaces ==
  ASSUME SlugFree, Owned, RegistryAgrees, Keeps
  PROVE  (SlugFree /\ Owned /\ RegistryAgrees)'
  BY DEF SlugFree, Owned, RegistryAgrees, Keeps, HasAgent, AgentSlug

LEMMA MostKeep ==
  ASSUME TypeOK, LockHeld, Asking \/ Failing \/ UNCHANGED vars
  PROVE  Keeps
<1>0. pc \in [Requests -> Steps]
  BY DEF TypeOK
<1>1. CASE Asking
  BY <1>0, <1>1 DEF Keeps, Asking, Arrive, RefuseRequest, AcceptLoad, AcceptDelete,
                    AcceptReload, StartReload, Resolve, GetProvider
<1>2. CASE Failing
  BY <1>0, <1>2 DEF Keeps, Failing, LoadTwice, BuildFails, UnloadMissing
<1>3. CASE UNCHANGED vars
  BY <1>3 DEF Keeps, vars
<1> QED
  BY <1>1, <1>2, <1>3

LEMMA InitPlaced == Init => Placed
<1> SUFFICES ASSUME Init PROVE Placed
  OBVIOUS
<1>1. Owned
  BY DEF Init, Owned, HasAgent, AgentSlug
<1>2. directory = {registry[s] : s \in {t \in Slugs : HasAgent(t)}}
  BY DEF Init, HasAgent
<1>3. ASSUME NEW s \in Slugs
      PROVE  IF HasAgent(s) THEN mounted[s] = {registry[s]} ELSE mounted[s] = {}
  <2>1. mounted[s] = {s} \cap directory
    BY DEF Init
  <2>2. IF s \in directory THEN HasAgent(s) /\ registry[s] = s ELSE ~HasAgent(s)
    BY DEF Init, HasAgent
  <2> QED
    BY <2>1, <2>2
<1>4. RegistryAgrees
  BY <1>2, <1>3 DEF RegistryAgrees
<1> QED
  BY <1>1, <1>4, InitTyped, InitLock DEF Placed

LEMMA NextPlaced == Placed /\ [Next]_vars => Placed'
<1> SUFFICES ASSUME Placed, [Next]_vars PROVE Placed'
  OBVIOUS
<1>0. TypeOK /\ LockHeld /\ SlugFree /\ Owned /\ RegistryAgrees
  BY DEF Placed
<1>1. TypeOK' /\ LockHeld'
  BY <1>0, NextTyped, NextLock
<1>2. CASE Asking \/ Failing \/ UNCHANGED vars
  BY <1>0, <1>1, <1>2, MostKeep, KeepsPlaces DEF Placed
<1>3. ASSUME NEW r \in Requests, Build(r) PROVE Placed'
  <2>1. Keeps
    BY <1>0, <1>3 DEF Keeps, Build, TypeOK
  <2> QED
    BY <1>0, <1>1, <2>1, KeepsPlaces DEF Placed
<1>4. ASSUME NEW r \in Requests, Mount(r) PROVE Placed'
  <2>1. Sole(r) /\ ~HasAgent(Slug(r)) /\ Slug(r) \in Slugs /\ r \notin Slugs /\ r # Vacant
    BY <1>0, <1>4, HolderIsSole DEF Mount, LockHeld, SlugFree, TypeOK, Ops
  <2>2. mounted[Slug(r)] = {}
    BY <1>0, <1>4, <2>1 DEF RegistryAgrees, Sole, Mount
  <2>3. /\ registry' = [registry EXCEPT ![Slug(r)] = r]
        /\ mounted' = [mounted EXCEPT ![Slug(r)] = {r}]
        /\ directory' = directory \cup {r}
        /\ UNCHANGED op
        /\ registry \in [Slugs -> Runtimes \cup {Vacant}]
        /\ mounted \in [Slugs -> SUBSET Runtimes]
    BY <1>0, <1>4, <2>1, <2>2 DEF Mount, TypeOK
  <2>4. \A q \in Requests : pc'[q] \notin {"closing", "discovering"}
    BY <1>0, <1>4, <2>1 DEF Sole, Mount, TypeOK
  <2>5. SlugFree'
    BY <2>4 DEF SlugFree
  <2>6. Owned'
    BY <1>0, <2>1, <2>3 DEF Owned, HasAgent, AgentSlug
  <2>7. RegistryAgrees'
    <3>1. directory' = {registry'[s] : s \in {t \in Slugs : HasAgent(t)'}}
      BY <1>0, <2>1, <2>3 DEF RegistryAgrees, HasAgent
    <3>2. ASSUME NEW s \in Slugs
          PROVE  IF HasAgent(s)' THEN mounted'[s] = {registry'[s]} ELSE mounted'[s] = {}
      BY <1>0, <1>4, <2>1, <2>3 DEF RegistryAgrees, HasAgent, Sole, Mount
    <3> QED
      BY <3>1, <3>2 DEF RegistryAgrees
  <2> QED
    BY <1>1, <2>5, <2>6, <2>7 DEF Placed
<1>5. ASSUME NEW r \in Requests, Take(r) PROVE Placed'
  <2>1. Sole(r) /\ Slug(r) \in Slugs
    BY <1>0, <1>5, HolderIsSole DEF Take, TypeOK, Ops
  <2>2. /\ registry' = [registry EXCEPT ![Slug(r)] = Vacant]
        /\ directory' = {x \in directory : AgentSlug(x) # Slug(r)}
        /\ pc' = [pc EXCEPT ![r] = "closing"]
        /\ UNCHANGED <<op, mounted>>
        /\ registry \in [Slugs -> Runtimes \cup {Vacant}]
        /\ pc \in [Requests -> Steps]
    BY <1>0, <1>5 DEF Take, TypeOK
  <2>3. SlugFree'
    BY <2>1, <2>2 DEF SlugFree, HasAgent, Sole
  <2>4. Owned'
    BY <1>0, <2>2 DEF Owned, HasAgent, AgentSlug
  <2>5. RegistryAgrees'
    <3>1. directory' = {registry'[s] : s \in {t \in Slugs : HasAgent(t)'}}
      <4>1. directory = {registry[s] : s \in {t \in Slugs : HasAgent(t)}}
        BY <1>0 DEF RegistryAgrees
      <4>2. \A s \in Slugs : HasAgent(s) =>
              (AgentSlug(registry[s]) # Slug(r) <=> s # Slug(r))
        BY <1>0 DEF Owned
      <4>3. \A s \in Slugs :
              /\ HasAgent(s)' <=> HasAgent(s) /\ s # Slug(r)
              /\ s # Slug(r) => registry'[s] = registry[s]
        BY <2>2 DEF HasAgent
      <4> QED
        BY <2>2, <4>1, <4>2, <4>3
    <3>2. ASSUME NEW s \in Slugs
          PROVE  IF HasAgent(s)' THEN mounted'[s] = {registry'[s]}
                 ELSE mounted'[s] = {} \/ \E q \in Requests : pc'[q] = "closing" /\ (Slug(q) = s)'
      <4>1. CASE s = Slug(r)
        BY <2>1, <2>2, <4>1 DEF HasAgent
      <4>2. CASE s # Slug(r)
        BY <1>0, <1>5, <2>1, <2>2, <4>2 DEF RegistryAgrees, HasAgent, Sole, Take
      <4> QED
        BY <4>1, <4>2
    <3> QED
      BY <3>1, <3>2 DEF RegistryAgrees
  <2> QED
    BY <1>1, <2>3, <2>4, <2>5 DEF Placed
<1>6. ASSUME NEW r \in Requests, Close(r) PROVE Placed'
  <2>1. Sole(r) /\ ~HasAgent(Slug(r)) /\ Slug(r) \in Slugs
    BY <1>0, <1>6, HolderIsSole DEF Close, LockHeld, SlugFree, TypeOK, Ops
  <2>2. /\ mounted' = [mounted EXCEPT ![Slug(r)] = {}]
        /\ UNCHANGED <<op, registry, directory>>
        /\ mounted \in [Slugs -> SUBSET Runtimes]
    BY <1>0, <1>6 DEF Close, TypeOK
  <2>3. \A q \in Requests : pc'[q] \notin {"closing", "discovering"}
    BY <1>0, <1>6, <2>1 DEF Sole, Close, TypeOK
  <2>4. SlugFree' /\ Owned'
    BY <1>0, <2>2, <2>3 DEF SlugFree, Owned, HasAgent, AgentSlug
  <2>5. RegistryAgrees'
    <3>1. directory' = {registry'[s] : s \in {t \in Slugs : HasAgent(t)'}}
      BY <1>0, <2>2 DEF RegistryAgrees, HasAgent
    <3>2. ASSUME NEW s \in Slugs
          PROVE  IF HasAgent(s)' THEN mounted'[s] = {registry'[s]} ELSE mounted'[s] = {}
      BY <1>0, <1>6, <2>1, <2>2 DEF RegistryAgrees, HasAgent, Sole, Close
    <3> QED
      BY <3>1, <3>2 DEF RegistryAgrees
  <2> QED
    BY <1>1, <2>4, <2>5 DEF Placed
<1> QED
  BY <1>2, <1>3, <1>4, <1>5, <1>6, NextSplit DEF Changing

\* However requests and runs interleave, the directory lists exactly the loaded
\* agents, and routes agree with the registry (load_agent, unload_agent).
THEOREM ServerAgrees == Spec => []RegistryAgrees
<1>1. Spec => []Placed
  BY InitPlaced, NextPlaced, PTL DEF Spec
<1>2. Placed => RegistryAgrees
  BY DEF Placed
<1> QED
  BY <1>1, <1>2, PTL

-----------------------------------------------------------------------------
(* Runtimes                                                                *)

\* The runtime of a request that is not through has been seen by nobody.
Fresh ==
  \A r \in Requests : pc[r] # "done" =>
    /\ provider[r] = "none"
    /\ \A s \in Slugs : registry[s] # r
    /\ \A q \in Requests : entry[q] # r
    /\ \A u \in Runs : on[u] # r

\* What is being closed is not registered any more.
Gone ==
  \A r \in Requests : pc[r] = "closing" =>
    entry[r] \in Runtimes /\ \A s \in Slugs : registry[s] # entry[r]

Usable == Fresh /\ Gone /\ LoadedIsUsable

LEMMA InitUsable == Init => Usable
  BY DEF Init, Usable, Fresh, Gone, LoadedIsUsable, HasAgent, Runtimes

\* A step that leaves the registry and every runtime as they are.
LEMMA StillUsable ==
  ASSUME TypeOK, Usable, UNCHANGED <<registry, discovered, provider, entry, on>>,
         \A q \in Requests : /\ pc[q] = "done" => pc'[q] = "done"
                             /\ pc'[q] = "closing" => pc[q] = "closing"
  PROVE  Usable'
  BY DEF Usable, Fresh, Gone, LoadedIsUsable, HasAgent

LEMMA NextUsable == Placed /\ Usable /\ [Next]_vars => Usable'
<1> SUFFICES ASSUME Placed, Usable, [Next]_vars PROVE Usable'
  OBVIOUS
<1>0. TypeOK /\ LockHeld /\ Owned /\ Fresh /\ Gone /\ LoadedIsUsable
  BY DEF Placed, Usable
<1>1. ASSUME NEW r \in Requests, Arrive(r) \/ StartReload(r) PROVE Usable'
  <2>1. UNCHANGED <<registry, discovered, provider, entry, on>>
    BY <1>1 DEF Arrive, RefuseRequest, AcceptLoad, AcceptDelete, AcceptReload, StartReload
  <2>2. \A q \in Requests : /\ pc[q] = "done" => pc'[q] = "done"
                            /\ pc'[q] = "closing" => pc[q] = "closing"
    BY <1>0, <1>1 DEF Arrive, RefuseRequest, AcceptLoad, AcceptDelete, AcceptReload,
                      StartReload, TypeOK
  <2> QED
    BY <1>0, <2>1, <2>2, StillUsable
<1>2. ASSUME NEW u \in Runs, NEW s \in Slugs, Resolve(u, s) PROVE Usable'
  <2>1. on' = [on EXCEPT ![u] = registry[s]]
    BY <1>2 DEF Resolve
  <2> QED
    BY <1>0, <1>2, <2>1 DEF Resolve, Usable, Fresh, Gone, LoadedIsUsable, HasAgent, TypeOK
<1>3. ASSUME NEW u \in Runs, GetProvider(u) PROVE Usable'
  <2>1. on[u] \in Runtimes
    BY <1>0, <1>3 DEF GetProvider, TypeOK
  <2>2. \A x \in Runtimes : provider'[x] = IF x = on[u] THEN "open" ELSE provider[x]
    BY <1>0, <1>3, <2>1 DEF GetProvider, TypeOK
  <2>3. Fresh'
    BY <1>0, <1>3, <2>2 DEF GetProvider, Fresh, Runtimes
  <2>4. Gone'
    BY <1>0, <1>3 DEF GetProvider, Gone
  <2>5. LoadedIsUsable'
    BY <1>0, <1>3, <2>2 DEF GetProvider, LoadedIsUsable, HasAgent, TypeOK
  <2> QED
    BY <2>3, <2>4, <2>5 DEF Usable
<1>4. CASE Failing
  BY <1>0, <1>4, StillUsable
     DEF Failing, LoadTwice, BuildFails, UnloadMissing, TypeOK
<1>5. ASSUME NEW r \in Requests, Build(r) PROVE Usable'
  BY <1>0, <1>5, StillUsable DEF Build, TypeOK
<1>6. ASSUME NEW r \in Requests, Mount(r) PROVE Usable'
  <2>1. Sole(r) /\ Slug(r) \in Slugs
    BY <1>0, <1>6, HolderIsSole DEF Mount, LockHeld, TypeOK, Ops
  <2>2. /\ registry' = [registry EXCEPT ![Slug(r)] = r]
        /\ pc' = [pc EXCEPT ![r] = "done"]
        /\ registry \in [Slugs -> Runtimes \cup {Vacant}]
        /\ pc \in [Requests -> Steps]
        /\ UNCHANGED <<entry, provider, on>>
    BY <1>0, <1>6 DEF Mount, TypeOK
  <2>3. Fresh'
    BY <1>0, <2>1, <2>2 DEF Fresh
  <2>4. Gone'
    BY <1>6, <2>1, <2>2 DEF Gone, Sole, Mount
  <2>5. LoadedIsUsable'
    BY <1>0, <1>6, <2>1, <2>2 DEF LoadedIsUsable, HasAgent, Fresh, Mount
  <2> QED
    BY <2>3, <2>4, <2>5 DEF Usable
<1>7. ASSUME NEW r \in Requests, Take(r) PROVE Usable'
  <2>1. Slug(r) \in Slugs /\ HasAgent(Slug(r)) /\ Sole(r)
    BY <1>0, <1>7, HolderIsSole DEF Take, TypeOK, Ops
  <2>2. /\ registry' = [registry EXCEPT ![Slug(r)] = Vacant]
        /\ entry' = [entry EXCEPT ![r] = registry[Slug(r)]]
        /\ pc' = [pc EXCEPT ![r] = "closing"]
        /\ registry \in [Slugs -> Runtimes \cup {Vacant}]
        /\ entry \in [Requests -> Runtimes \cup {Vacant}]
        /\ pc \in [Requests -> Steps]
        /\ UNCHANGED <<provider, on>>
    BY <1>0, <1>7 DEF Take, TypeOK
  <2>3. \A s \in Slugs : HasAgent(s) /\ s # Slug(r) => registry[s] # registry[Slug(r)]
    BY <1>0, <2>1 DEF Owned
  <2>4. Fresh'
    BY <1>0, <1>7, <2>1, <2>2 DEF Fresh, Take
  <2>5. Gone'
    BY <1>0, <2>1, <2>2, <2>3 DEF Gone, Sole, HasAgent
  <2>6. LoadedIsUsable'
    BY <1>0, <1>7, <2>1, <2>2, <2>3 DEF LoadedIsUsable, HasAgent, Take
  <2> QED
    BY <2>4, <2>5, <2>6 DEF Usable
<1>8. ASSUME NEW r \in Requests, Close(r) PROVE Usable'
  <2>1. entry[r] \in Runtimes /\ \A s \in Slugs : registry[s] # entry[r]
    BY <1>0, <1>8 DEF Close, Gone
  <2>2. /\ \A x \in Runtimes : x # entry[r] => provider'[x] = provider[x]
        /\ UNCHANGED <<registry, discovered, entry, on>>
        /\ \A q \in Requests : /\ pc[q] = "done" => pc'[q] = "done"
                               /\ pc'[q] = "closing" => pc[q] = "closing"
    BY <1>0, <1>8, <2>1 DEF Close, TypeOK
  <2>3. Fresh'
    BY <1>0, <2>1, <2>2 DEF Fresh, Runtimes
  <2>4. Gone'
    BY <1>0, <2>2 DEF Gone
  <2>5. LoadedIsUsable'
    BY <1>0, <2>1, <2>2 DEF LoadedIsUsable, HasAgent, TypeOK
  <2> QED
    BY <2>3, <2>4, <2>5 DEF Usable
<1>9. CASE UNCHANGED vars
  BY <1>0, <1>9, StillUsable DEF vars, Usable
<1> QED
  BY <1>1, <1>2, <1>3, <1>4, <1>5, <1>6, <1>7, <1>8, <1>9, NextSplit
     DEF Asking, Changing

\* Whoever resolves an agent finds its tools discovered and its provider not
\* closed: a runtime is registered last and taken out first.
THEOREM ResolvedIsUsable == Spec => []LoadedIsUsable
<1>1. Spec => [](Placed /\ Usable)
  BY InitPlaced, NextPlaced, InitUsable, NextUsable, PTL DEF Spec
<1>2. Placed /\ Usable => LoadedIsUsable
  BY DEF Usable
<1> QED
  BY <1>1, <1>2, PTL

-----------------------------------------------------------------------------
(* AgentServer implements AtomicRegistry                                   *)

\* What a request has been told, by where it is.
Told ==
  \A r \in Requests :
    /\ pc[r] = "idle" => answer[r] = "none"
    /\ pc[r] = "scheduled" => Kind(r) = "reload" /\ answer[r] = "pending"
    /\ pc[r] \in {"unload", "closing"} => Kind(r) # "load"
    /\ pc[r] \in {"load", "discovering"} => Kind(r) # "delete"
    /\ pc[r] \in {"unload", "closing", "load", "discovering"} =>
         answer[r] = IF Kind(r) = "reload" THEN "running" ELSE "none"

LEMMA InitTold == Init => Told
  BY DEF Init, Told

LEMMA NextTold == TypeOK /\ Told /\ [Next]_vars => Told'
<1> SUFFICES ASSUME TypeOK, Told, [Next]_vars PROVE Told'
  OBVIOUS
<1>0. /\ pc \in [Requests -> Steps] /\ answer \in [Requests -> Answers]
      /\ \A r \in Requests : Kind(r) \in {"load", "delete", "reload"}
  BY DEF TypeOK, Ops
<1>1. ASSUME NEW r \in Requests, RefuseRequest(r) PROVE Told'
  <2>1. PICK a : Answer(r, a)
    BY <1>1 DEF RefuseRequest
  <2> QED
    BY <1>0, <1>1, <2>1 DEF RefuseRequest, Told
<1>2. ASSUME NEW r \in Requests, AcceptLoad(r) \/ AcceptDelete(r) PROVE Told'
  BY <1>0, <1>2 DEF AcceptLoad, AcceptDelete, Told
<1>3. ASSUME NEW r \in Requests, AcceptReload(r) PROVE Told'
  BY <1>0, <1>3 DEF AcceptReload, Told
<1>4. ASSUME NEW r \in Requests, StartReload(r) PROVE Told'
  BY <1>0, <1>4 DEF StartReload, Told
<1>5. ASSUME NEW r \in Requests, LoadTwice(r) \/ BuildFails(r) \/ UnloadMissing(r)
      PROVE  Told'
  <2>1. PICK a : UNCHANGED op /\ pc' = [pc EXCEPT ![r] = "done"] /\ Answer(r, a)
    BY <1>5 DEF LoadTwice, BuildFails, UnloadMissing
  <2> QED
    BY <1>0, <2>1 DEF Told
<1>6. ASSUME NEW r \in Requests, Build(r) \/ Take(r) PROVE Told'
  BY <1>0, <1>6 DEF Build, Take, Told
<1>7. ASSUME NEW r \in Requests, Mount(r) PROVE Told'
  BY <1>0, <1>7 DEF Mount, Told
<1>8. ASSUME NEW r \in Requests, Close(r) PROVE Told'
  BY <1>0, <1>8 DEF Close, Told
<1>9. ASSUME (\E u \in Runs : (\E s \in Slugs : Resolve(u, s)) \/ GetProvider(u))
               \/ UNCHANGED vars
      PROVE  Told'
  BY <1>9 DEF Resolve, GetProvider, vars, Told
<1> QED
  BY <1>1, <1>2, <1>3, <1>4, <1>5, <1>6, <1>7, <1>8, <1>9
     DEF Next, Arrive, Serve

\* The outcome of every request, the `outcome` of AtomicRegistry.
Outcomes == [x \in Requests |-> Outcome(x)]

\* A step of r that keeps op moves at most the outcome of r.
LEMMA OwnOutcome ==
  ASSUME NEW r \in Requests, UNCHANGED op,
         \A q \in Requests : q # r => pc'[q] = pc[q] /\ answer'[q] = answer[q]
  PROVE  Outcomes' = [Outcomes EXCEPT ![r] = Outcome(r)']
<1>1. \A q \in Requests : q # r => Outcome(q)' = Outcome(q)
  BY DEF Outcome
<1> QED
  BY <1>1 DEF Outcomes

LEMMA InitAtomic == Init => Atomic!Init
<1> SUFFICES ASSUME Init PROVE Atomic!Init
  OBVIOUS
<1>1. Outcomes = [x \in Requests |-> "none"]
  BY DEF Init, Outcomes, Outcome
<1> QED
  BY <1>1 DEF Init, Ops, Outcomes, Atomic!Init

LEMMA NextAtomic == Placed /\ Told /\ [Next]_vars => [Atomic!Next]_(Atomic!vars)
<1> SUFFICES ASSUME Placed, Told, [Next]_vars
             PROVE  Atomic!Next \/ UNCHANGED <<op, registry, Outcomes>>
  BY DEF Atomic!vars, Outcomes
<1>0. /\ pc \in [Requests -> Steps] /\ answer \in [Requests -> Answers]
      /\ \A r \in Requests : Kind(r) \in {"load", "delete", "reload"}
      /\ LockHeld /\ SlugFree
  BY DEF Placed, TypeOK, Ops
<1> DEFINE Moves(r, a) ==
      UNCHANGED op /\ Outcomes' = [Outcomes EXCEPT ![r] = a]
<1>1. ASSUME NEW r \in Requests, NEW a, Moves(r, a), UNCHANGED registry,
             \/ /\ Outcome(r) = "none" /\ Kind(r) = "load"
                /\ (a = "400" \/ (HasAgent(Slug(r)) /\ a \in {"409", "500"}))
             \/ /\ Outcome(r) = "none" /\ Kind(r) = "delete"
                /\ ~HasAgent(Slug(r)) /\ a \in {"404", "500"}
             \/ /\ Outcome(r) = "none" /\ Kind(r) = "reload"
                /\ (a = "400" \/ (~HasAgent(Slug(r)) /\ a \in {"404", "failed"}))
             \/ Outcome(r) = "removed" /\ a = "failed"
      PROVE  Atomic!Next
  <2>1. Atomic!TurnDown(r)
    BY <1>1 DEF Atomic!TurnDown, Atomic!Decide, Atomic!Kind, Atomic!Occupied, Outcomes, HasAgent
  <2> QED
    BY <2>1 DEF Atomic!Next
<1>2. ASSUME NEW r \in Requests, RefuseRequest(r) PROVE Atomic!Next
  <2>1. ASSUME NEW a \in {"400", "404", "409"}, Answer(r, a) PROVE Moves(r, a) /\ Outcome(r) = "none"
    <3>1. pc[r] = "idle" /\ answer[r] = "none"
      BY <1>2 DEF RefuseRequest, Told
    <3>2. Outcome(r) = "none" /\ Outcome(r)' = a
      BY <1>0, <1>2, <2>1, <3>1 DEF Outcome, RefuseRequest
    <3> QED
      BY <1>0, <1>2, <2>1, <3>2, OwnOutcome DEF RefuseRequest
  <2> HIDE DEF Moves
  <2>2. UNCHANGED registry
    BY <1>2 DEF RefuseRequest
  <2>3. CASE Kind(r) = "load" /\ Answer(r, "400")
    BY <1>1, <2>1, <2>2, <2>3
  <2>4. CASE Kind(r) = "load" /\ HasAgent(Slug(r)) /\ Answer(r, "409")
    BY <1>1, <2>1, <2>2, <2>4
  <2>5. CASE Kind(r) = "reload" /\ Answer(r, "400")
    BY <1>1, <2>1, <2>2, <2>5
  <2>6. CASE Kind(r) = "delete" /\ ~HasAgent(Slug(r)) /\ Answer(r, "404")
    BY <1>1, <2>1, <2>2, <2>6
  <2>7. CASE Kind(r) = "reload" /\ ~HasAgent(Slug(r)) /\ Answer(r, "404")
    BY <1>1, <2>1, <2>2, <2>7
  <2> QED
    BY <1>0, <1>2, <2>3, <2>4, <2>5, <2>6, <2>7 DEF RefuseRequest
<1>3. ASSUME NEW r \in Requests, AcceptLoad(r) \/ AcceptDelete(r) \/ AcceptReload(r)
      PROVE  UNCHANGED <<op, registry, Outcomes>>
  <2>1. Outcome(r)' = Outcome(r)
    BY <1>0, <1>3 DEF Outcome, AcceptLoad, AcceptDelete, AcceptReload, Told
  <2>2. Outcomes' = [Outcomes EXCEPT ![r] = Outcome(r)]
    BY <1>0, <1>3, <2>1, OwnOutcome DEF AcceptLoad, AcceptDelete, AcceptReload
  <2> QED
    BY <1>3, <2>2 DEF Outcomes, AcceptLoad, AcceptDelete, AcceptReload
<1>4. ASSUME NEW r \in Requests, StartReload(r)
      PROVE  Atomic!Next \/ UNCHANGED <<op, registry, Outcomes>>
  <2>1. UNCHANGED <<op, registry>> /\ Outcome(r) = "none" /\ Kind(r) = "reload"
    BY <1>4 DEF StartReload, Outcome, Told
  <2>2. Outcomes' = [Outcomes EXCEPT ![r] = Outcome(r)']
    BY <1>0, <1>4, OwnOutcome DEF StartReload
  <2>3. CASE HasAgent(Slug(r))
    <3>1. Outcome(r)' = "none"
      BY <1>0, <1>4, <2>1, <2>3 DEF StartReload, Outcome
    <3> QED
      BY <2>1, <2>2, <3>1 DEF Outcomes
  <2>4. CASE ~HasAgent(Slug(r))
    <3>1. Outcome(r)' = "failed"
      BY <1>0, <1>4, <2>1, <2>4 DEF StartReload, Outcome
    <3>2. Moves(r, "failed")
      BY <2>1, <2>2, <3>1
    <3> HIDE DEF Moves
    <3> QED
      BY <1>1, <2>1, <2>4, <3>2
  <2> QED
    BY <2>3, <2>4
<1>5. ASSUME NEW r \in Requests, LoadTwice(r) \/ BuildFails(r) \/ UnloadMissing(r)
      PROVE  Atomic!Next
  <2>1. PICK a \in {"400", "500", "failed"} :
          /\ UNCHANGED <<op, registry>>
          /\ pc' = [pc EXCEPT ![r] = "done"] /\ Answer(r, a)
          /\ Kind(r) = "reload" => a = "failed"
          /\ Kind(r) # "reload" => a = IF BuildFails(r) THEN "400" ELSE "500"
    BY <1>5 DEF LoadTwice, BuildFails, UnloadMissing
  <2>2. Outcome(r)' = a
    BY <1>0, <2>1 DEF Outcome
  <2>3. Moves(r, a)
    BY <1>0, <2>1, <2>2, OwnOutcome
  <2> HIDE DEF Moves
  <2>4. CASE Kind(r) = "reload" /\ ~UnloadMissing(r)
    <3>1. Outcome(r) = "removed"
      BY <1>5, <2>4 DEF LoadTwice, BuildFails, Outcome
    <3> QED
      BY <1>1, <2>1, <2>3, <2>4, <3>1
  <2>5. CASE UnloadMissing(r)
    <3>1. Outcome(r) = "none" /\ ~HasAgent(Slug(r)) /\ Kind(r) # "load"
      BY <1>0, <2>5 DEF UnloadMissing, Outcome, Told
    <3>2. ~BuildFails(r)
      BY <2>5 DEF UnloadMissing, BuildFails
    <3>3. CASE Kind(r) = "delete"
      BY <1>1, <2>1, <2>3, <3>1, <3>2, <3>3
    <3>4. CASE Kind(r) = "reload"
      BY <1>1, <2>1, <2>3, <3>1, <3>4
    <3> QED
      BY <1>0, <3>1, <3>3, <3>4
  <2>6. CASE Kind(r) # "reload" /\ ~UnloadMissing(r)
    <3>1. Kind(r) = "load" /\ Outcome(r) = "none"
      BY <1>0, <1>5, <2>6 DEF LoadTwice, BuildFails, Outcome, Told
    <3>2. CASE BuildFails(r)
      <4>1. a = "400"
        BY <2>1, <2>6, <3>2
      <4> QED
        BY <1>1, <2>1, <2>3, <3>1, <4>1
    <3>3. CASE ~BuildFails(r)
      <4>1. HasAgent(Slug(r)) /\ a = "500"
        BY <1>5, <2>1, <2>6, <3>3 DEF LoadTwice
      <4> QED
        BY <1>1, <2>1, <2>3, <3>1, <4>1
    <3> QED
      BY <3>2, <3>3
  <2> QED
    BY <2>4, <2>5, <2>6
<1>6. ASSUME NEW r \in Requests, Build(r) PROVE UNCHANGED <<op, registry, Outcomes>>
  <2>1. Outcome(r)' = Outcome(r)
    BY <1>0, <1>6 DEF Build, Outcome
  <2>2. Outcomes' = [Outcomes EXCEPT ![r] = Outcome(r)]
    BY <1>0, <1>6, <2>1, OwnOutcome DEF Build
  <2> QED
    BY <1>6, <2>2 DEF Build, Outcomes
<1>7. ASSUME NEW r \in Requests, Mount(r) PROVE Atomic!Next
  <2>1. ~HasAgent(Slug(r)) /\ registry' = [registry EXCEPT ![Slug(r)] = r] /\ UNCHANGED op
    BY <1>0, <1>7 DEF Mount, SlugFree
  <2>2. \/ Kind(r) = "load" /\ Outcome(r) = "none" /\ Outcome(r)' = "201"
        \/ Outcome(r) = "removed" /\ Outcome(r)' = "completed"
    BY <1>0, <1>7 DEF Mount, Outcome, Told
  <2>3. Outcomes' = [Outcomes EXCEPT ![r] = Outcome(r)']
    BY <1>0, <1>7, OwnOutcome DEF Mount
  <2>4. Atomic!Put(r)
    BY <2>1, <2>2, <2>3 DEF Atomic!Put, Atomic!Decide, Atomic!Kind, Atomic!Occupied,
                            Outcomes, HasAgent
  <2> QED
    BY <2>4 DEF Atomic!Next
<1>8. ASSUME NEW r \in Requests, Take(r) PROVE Atomic!Next
  <2>1. HasAgent(Slug(r)) /\ registry' = [registry EXCEPT ![Slug(r)] = Vacant] /\ UNCHANGED op
    BY <1>8 DEF Take
  <2>2. /\ Outcome(r) = "none"
        /\ \/ Kind(r) = "delete" /\ Outcome(r)' = "200"
           \/ Kind(r) = "reload" /\ Outcome(r)' = "removed"
    BY <1>0, <1>8 DEF Take, Outcome, Told
  <2>3. Outcomes' = [Outcomes EXCEPT ![r] = Outcome(r)']
    BY <1>0, <1>8, OwnOutcome DEF Take
  <2>4. Atomic!Remove(r)
    BY <2>1, <2>2, <2>3 DEF Atomic!Remove, Atomic!Decide, Atomic!Kind, Atomic!Occupied,
                            Outcomes, HasAgent
  <2> QED
    BY <2>4 DEF Atomic!Next
<1>9. ASSUME NEW r \in Requests, Close(r) PROVE UNCHANGED <<op, registry, Outcomes>>
  <2>1. Outcome(r)' = Outcome(r)
    BY <1>0, <1>9 DEF Close, Outcome, Told
  <2>2. Outcomes' = [Outcomes EXCEPT ![r] = Outcome(r)]
    BY <1>0, <1>9, <2>1, OwnOutcome DEF Close
  <2> QED
    BY <1>9, <2>2 DEF Close, Outcomes
<1>10. ASSUME (\E u \in Runs : (\E s \in Slugs : Resolve(u, s)) \/ GetProvider(u))
                \/ UNCHANGED vars
       PROVE  UNCHANGED <<op, registry, Outcomes>>
  BY <1>10 DEF Resolve, GetProvider, vars, Outcomes, Outcome
<1> QED
  BY <1>2, <1>3, <1>4, <1>5, <1>6, <1>7, <1>8, <1>9, <1>10
     DEF Next, Arrive, Serve

\* Every answer is true of the registry at one instant of its request, and a
\* request takes effect at most once: load_agent, unload_agent and reload_agent
\* under the lock implement the atomic registry the handlers promise.
THEOREM ServerIsAtomic == Spec => AnswersAreTrue
<1>1. Spec => [](Placed /\ Told)
  <2>1. Placed /\ Told /\ [Next]_vars => (Placed /\ Told)'
    BY NextPlaced, NextTold DEF Placed
  <2>2. Init => Placed /\ Told
    BY InitPlaced, InitTold
  <2> QED
    BY <2>1, <2>2, PTL DEF Spec
<1> QED
  BY <1>1, InitAtomic, NextAtomic, PTL DEF Spec, Atomic!Spec, AnswersAreTrue
=============================================================================
