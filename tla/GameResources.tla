--------------------------- MODULE GameResources ---------------------------
(***************************************************************************)
(* AnoxGameResourceManager.cpp and the handles of SandboxResourceLoader.h: *)
(* the game's code knows requests and resources by numbers, each of which  *)
(* a handle owns and gives back when it ends.                              *)
(*                                                                         *)
(* Abstractions.  The calls are made by one thread, as in the program, and *)
(* each is a step.  A resource's type is part of its key.  A number of     *)
(* references, and of numbers, stays below 2^32.  Memory may be exhausted  *)
(* where something is left behind, which is when the map grows.            *)
(***************************************************************************)
EXTENDS Integers, SequencesExt

CONSTANTS
  Handles,    \* the handles of the game's code, first of a request and then of a resource
  AssetKeys,  \* what is asked for
  Addresses,  \* where a resource may be
  None

ASSUME GameResourcesAssumption == None \notin AssetKeys \cup Addresses /\ IsFiniteSet(Handles)

VARIABLES
  handle,     \* per handle: what it refers to, by number, and the key it asked for
  requests,   \* m_requests.m_items: m_future
  requestIDs, \* the first m_numFreeIDs of m_requests.m_freeIDs
  resources,  \* m_resources.m_items: m_resource and m_refCount
  resourceIDs, \* the first m_numFreeIDs of m_resources.m_freeIDs
  resourceAt, \* m_resourcesMap
  keyAt       \* per address: the key of the resource that is there, or was the last there

grVars == <<handle, requests, requestIDs, resources, resourceIDs, resourceAt, keyAt>>

NoHandle == [to |-> "nothing", id |-> 0, key |-> None]
NoRequest == [future |-> "reset", at |-> None]
NoResource == [at |-> None, refs |-> 0]

Requested(h) == handle[h].to = "request"
Acquired(h) == handle[h].to = "resource"

(* ReserveFreeID: the list with one free number at least.                  *)
Reserved(items, ids, none) ==
  IF ids # <<>> THEN [items |-> items, ids |-> ids]
  ELSE [items |-> Append(items, none), ids |-> <<Len(items) + 1>>]

InUse(a) ==
  \/ \E r \in 1..Len(requests) : requests[r].at = a
  \/ \E i \in 1..Len(resources) : resources[i].at = a

-----------------------------------------------------------------------------

\* GetContentIDKeyedResource and GetCIPathKeyedResource.
GetKeyedResource(h, k) ==
  LET l  == Reserved(requests, requestIDs, NoRequest)
      id == Last(l.ids)
  IN  /\ handle[h].to = "nothing"
      /\ requests' = [l.items EXCEPT ![id] = [future |-> "pending", at |-> None]]
      /\ requestIDs' = Front(l.ids)
      /\ handle' = [handle EXCEPT ![h] = [to |-> "request", id |-> id, key |-> k]]
      /\ UNCHANGED <<resources, resourceIDs, resourceAt, keyAt>>

(* The resource manager ends a load: it has one resource of a key at most, *)
(* where nothing else is.                                                  *)
Load(h) ==
  LET id == handle[h].id
      k  == handle[h].key
      loaded == {a \in Addresses : InUse(a) /\ keyAt[a] = k}
  IN  /\ Requested(h) /\ requests[id].future = "pending"
      /\ \/ /\ requests' = [requests EXCEPT ![id].future = "failed"]
            /\ UNCHANGED keyAt
         \/ \E a \in IF loaded # {} THEN loaded ELSE {x \in Addresses : ~InUse(x)} :
              /\ requests' = [requests EXCEPT ![id] = [future |-> "completed", at |-> a]]
              /\ keyAt' = [keyAt EXCEPT ![a] = k]
      /\ UNCHANGED <<handle, requestIDs, resources, resourceIDs, resourceAt>>

(* TryFinishLoadingResourceRequest of a completed future.  Another one is  *)
(* left as it is, and asked again.                                         *)
TryFinishLoading(h) ==
  LET req == handle[h].id
      a   == requests[req].at
      l   == Reserved(resources, resourceIDs, NoResource)
      id  == IF a \in DOMAIN resourceAt THEN resourceAt[a] ELSE Last(l.ids)
  IN  /\ Requested(h) /\ requests[req].future = "completed"
      /\ IF a \in DOMAIN resourceAt
         THEN /\ resources' = [resources EXCEPT ![id].refs = @ + 1]
              /\ UNCHANGED <<resourceIDs, resourceAt>>
         ELSE /\ resources' = [l.items EXCEPT ![id] = [at |-> a, refs |-> 1]]
              /\ resourceIDs' = Front(l.ids)
              /\ resourceAt' = [x \in DOMAIN resourceAt \cup {a} |->
                                 IF x = a THEN id ELSE resourceAt[x]]
      /\ requests' = [requests EXCEPT ![req] = NoRequest]
      /\ requestIDs' = Append(requestIDs, req)
      /\ handle' = [handle EXCEPT ![h] = [@ EXCEPT !.to = "resource", !.id = id]]
      /\ UNCHANGED keyAt

\* The same, when the map cannot grow: the number that has been reserved stays free.
FailToFinish(h) ==
  LET req == handle[h].id
      l   == Reserved(resources, resourceIDs, NoResource)
  IN  /\ Requested(h) /\ requests[req].future = "completed"
      /\ requests[req].at \notin DOMAIN resourceAt
      /\ resources' = l.items /\ resourceIDs' = l.ids
      /\ UNCHANGED <<handle, requests, requestIDs, resourceAt, keyAt>>

\* DiscardRequest, when a request's handle ends.
DiscardRequest(h) ==
  /\ Requested(h)
  /\ requests' = [requests EXCEPT ![handle[h].id] = NoRequest]
  /\ requestIDs' = Append(requestIDs, handle[h].id)
  /\ handle' = [handle EXCEPT ![h] = NoHandle]
  /\ UNCHANGED <<resources, resourceIDs, resourceAt, keyAt>>

\* Mutant of Forgotten: the map keeps the resource.
ForgottenLater(a) == resourceAt

Forgotten(a) == [x \in DOMAIN resourceAt \ {a} |-> resourceAt[x]]

\* DecRefResource, when a resource's handle ends.
DecRefResource(h) ==
  LET id == handle[h].id
  IN  /\ Acquired(h)
      /\ IF resources[id].refs = 1
         THEN /\ resourceAt' = Forgotten(resources[id].at)
              /\ resources' = [resources EXCEPT ![id] = NoResource]
              /\ resourceIDs' = Append(resourceIDs, id)
         ELSE /\ resources' = [resources EXCEPT ![id].refs = @ - 1]
              /\ UNCHANGED <<resourceAt, resourceIDs>>
      /\ handle' = [handle EXCEPT ![h] = NoHandle]
      /\ UNCHANGED <<requests, requestIDs, keyAt>>

-----------------------------------------------------------------------------

GameResourcesInit ==
  /\ handle = [h \in Handles |-> NoHandle]
  /\ requests = <<>> /\ requestIDs = <<>> /\ resources = <<>> /\ resourceIDs = <<>>
  /\ resourceAt = <<>>
  /\ keyAt = [a \in Addresses |-> None]

GameResourcesNext ==
  \E h \in Handles :
    \/ \E k \in AssetKeys : GetKeyedResource(h, k)
    \/ Load(h)
    \/ TryFinishLoading(h)
    \/ FailToFinish(h)
    \/ DiscardRequest(h)
    \/ DecRefResource(h)

GameResourcesSpec == GameResourcesInit /\ [][GameResourcesNext]_grVars

-----------------------------------------------------------------------------

\* Every number of a list is free once or used, and not both.
FreeIDs(ids, items, none) ==
  IsInjective(ids) /\ ToSet(ids) = {i \in 1..Len(items) : items[i] = none}

(* The type invariant of the variables above.                              *)
GameResourcesTypeOK ==
  /\ handle \in [Handles -> [to : {"nothing", "request", "resource"}, id : Nat,
                             key : AssetKeys \cup {None}]]
  /\ requests \in Seq([future : {"reset", "pending", "completed", "failed"},
                       at : Addresses \cup {None}])
  /\ resources \in Seq([at : Addresses \cup {None}, refs : Nat])
  /\ requestIDs \in Seq(Nat) /\ resourceIDs \in Seq(Nat)
  /\ DOMAIN resourceAt \subseteq Addresses
  /\ keyAt \in [Addresses -> AssetKeys \cup {None}]

(* A handle's number stays its own: a request's is not given to another    *)
(* request, and a resource's stands for what the handle asked for however  *)
(* the numbers and addresses of ended resources are used again.  A         *)
(* resource has one number and as many references as handles.              *)
HandlesAreSound ==
  /\ \A h \in Handles : Requested(h) =>
       /\ requests[handle[h].id].future # "reset"
       /\ \A g \in Handles \ {h} : Requested(g) => handle[g].id # handle[h].id
  /\ \A h \in Handles : Acquired(h) =>
       /\ resources[handle[h].id].at # None
       /\ keyAt[resources[handle[h].id].at] = handle[h].key
  /\ \A i \in 1..Len(resources) :
       resources[i].refs = Cardinality({h \in Handles : Acquired(h) /\ handle[h].id = i})
  /\ \A a \in Addresses : \A i \in 1..Len(resources) :
       resources[i].at = a <=> a \in DOMAIN resourceAt /\ resourceAt[a] = i
  /\ FreeIDs(requestIDs, requests, NoRequest)
  /\ FreeIDs(resourceIDs, resources, NoResource)
=============================================================================
