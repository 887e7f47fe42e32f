-------------------------- MODULE EntityStoreProofs --------------------------
(***************************************************************************)
(* Proofs about EntityStore, for every set of types, names, original ids   *)
(* and transaction handles.  Nothing is assumed of the clients in the type *)
(* invariant, the caches and the original ids; the names, the children and *)
(* the hosts depend on what clients do, and their theorems say on what.    *)
(*                                                                         *)
(* Everything rests on NewIds: genUniqueId_() never gives an id that an    *)
(* entity or an open transaction has, and a new entity is in the store     *)
(* exactly from its commit on, because none is removed before its release. *)
(***************************************************************************)
EXTENDS EntityStore, TLAPS

IsNew(t) == transactions[t].kind = "new"

\* A new entity has an id of its own and is in the store once committed.
NewIds ==
  /\ \A t \in Tids : IsNew(t) =>
        /\ transactions[t].id \in 1 .. baseId
        /\ transactions[t].committed <=> transactions[t].id \in Existing
  /\ \A t, u \in Tids : IsNew(t) /\ IsNew(u) /\ transactions[t].id = transactions[u].id => t = u

StoreInv == TypeOK /\ NewIds

\* The index holds the entities that are announced; it is up to date but for
\* the entities with a committed change that is not released.
PropertiesCommitted(i) ==
  \E t \in Tids : transactions[t].kind = "properties" /\ transactions[t].id = i /\ transactions[t].committed

OriginalsInv ==
  /\ DOMAIN originals \subseteq Existing
  /\ \A i \in Existing : ~Pending(i, "new") => i \in DOMAIN originals
  /\ \A i \in Existing : ~Pending(i, "new") /\ ~PropertiesCommitted(i) => originals[i] = entities[i].orig

\* Where clients do not rehost, an open transaction names the host that the
\* entity has in the store, and only platforms have none.  A change is never
\* that of an entity that is still to be committed.
HostsFixed ==
  \A t \in Tids :
    /\ transactions[t].kind = "properties" =>
         /\ transactions[t].id \in 1 .. baseId
         /\ \A u \in Tids : IsNew(u) /\ transactions[u].id = transactions[t].id => transactions[u].committed
         /\ transactions[t].id \in Existing =>
              transactions[t].properties.host = entities[transactions[t].id].host
    /\ IsNew(t) /\ transactions[t].committed =>
         entities[transactions[t].id].host = transactions[t].properties.host
    /\ IsNew(t) /\ transactions[t].type # "PLATFORM" => transactions[t].properties.host # NoHost

ChildrenInv == HostsFixed /\ ChildrenMatchHosts
HostsInv    == HostsFixed /\ ChildrenMatchHosts /\ NoOrphans

\* Where clients do not share entities, the names of an entity are the one the
\* cache was last told of: that of the store, or the one a committed change,
\* which is not released yet, replaced.
NamedOnly(i, name) == \A n \in names : n.id = i => n.name = name
Named(i, name)     == [name |-> name, id |-> i] \in names /\ NamedOnly(i, name)
PrefsCommitted(i, t) ==
  transactions[t].kind = "prefs" /\ transactions[t].id = i /\ transactions[t].committed

\* A change is of an entity of the store, and nobody else has a transaction on it.
OnePerEntity ==
  /\ \A t, u \in Tids : ~IsNone(t) /\ ~IsNone(u) /\ transactions[t].id = transactions[u].id => t = u
  /\ \A t \in Tids : transactions[t].kind \in {"prefs", "properties"} => transactions[t].id \in Existing
NewNamed == \A t \in Tids : IsNew(t) /\ ~transactions[t].committed => Named(transactions[t].id, defaultName)
OldNamed ==
  \A t \in Tids, i \in Existing : PrefsCommitted(i, t) =>
    Named(i, transactions[t].oldName) /\ entities[i].name = transactions[t].name
StoreNamed == \A i \in Existing : (\A t \in Tids : ~PrefsCommitted(i, t)) => Named(i, entities[i].name)
NamesLead  == \A n \in names : n.id \in Existing \/ Pending(n.id, "new")

NamesInv == OnePerEntity /\ NewNamed /\ OldNamed /\ StoreNamed /\ NamesLead

-----------------------------------------------------------------------------
(* The store: types and ids                                                *)

\* What a transaction of each kind holds.
LEMMA TransactionFields ==
  ASSUME TypeOK, NEW t \in Tids
  PROVE  /\ IsNew(t) => transactions[t] \in
              [kind : {"new"}, id : Ids, committed : BOOLEAN, type : Types, properties : Properties]
         /\ transactions[t].kind = "prefs" => transactions[t] \in
              [kind : {"prefs"}, id : Ids, committed : BOOLEAN, name : Names, oldName : Names]
         /\ transactions[t].kind = "properties" => transactions[t] \in
              [kind : {"properties"}, id : Ids, committed : BOOLEAN, properties : Properties]
         /\ transactions[t].kind \in {"none", "new", "prefs", "properties"}
         /\ ~IsNone(t) => transactions[t].id \in Ids
  BY DEF TypeOK, Transactions, NoTransaction, IsNew, IsNone

\* An entity of the store has an id, a type, a host, an original id and a name.
LEMMA EntityFields ==
  ASSUME TypeOK, NEW i \in Existing
  PROVE  /\ i \in 1 .. baseId /\ i \in Ids
         /\ entities[i].type \in Types /\ entities[i].host \in Ids \cup {NoHost}
         /\ entities[i].orig \in OriginalIds /\ entities[i].name \in Names
<1>1. i \in 1 .. baseId /\ i \in Ids
  BY MaxIdAssumption DEF TypeOK, Ids
<1>2. entities[i] \in [type : Types, host : Ids \cup {NoHost}, orig : OriginalIds, name : Names]
  BY DEF TypeOK
<1>. QED BY <1>1, <1>2

\* The entry of a child in the index, with its type.
LEMMA ChildEntryType ==
  ASSUME TypeOK, NEW i \in Existing
  PROVE  ChildEntry(i) \in [host : Ids \cup {NoHost}, type : Types, id : Ids]
  BY EntityFields DEF ChildEntry

\* Init gives the types and there is nothing in the store.
LEMMA InitStore ==
  ASSUME Init
  PROVE  StoreInv
<1>1. Existing = {} /\ DOMAIN originals = {}
  BY DEF Init, Existing
<1>2. \A t \in Tids : transactions[t].kind = "none" /\ transactions[t] \in Transactions
  BY DEF Init, NoTransaction, Transactions
<1>3. transactions \in [Tids -> Transactions]
  BY <1>2 DEF Init
<1>. QED BY <1>1, <1>2, <1>3, MaxIdAssumption DEF Init, StoreInv, TypeOK, NewIds, IsNew, ScenarioId

\* New entities keep the types and the ids.
LEMMA NewEntityKeepsStore ==
  ASSUME StoreInv, NEW t \in Tids,
         \/ \E type \in Types, p \in Properties : AddEntity(t, type, p)
         \/ CommitNew(t) \/ ReleaseNew(t) \/ CancelNew(t)
  PROVE  StoreInv'
<1>. USE DEF StoreInv
<1>0. baseId \in Nat /\ MaxId \in Nat
  BY MaxIdAssumption DEF TypeOK
<1>1. ASSUME NEW type \in Types, NEW p \in Properties, AddEntity(t, type, p)
      PROVE  StoreInv'
  <2>1. NewId \in Ids /\ NewId \notin Existing /\ 1 .. baseId \subseteq 1 .. baseId' /\ NewId \in 1 .. baseId'
        /\ baseId' \in 0 .. MaxId /\ NewId \notin 1 .. baseId
    BY <1>0, <1>1 DEF AddEntity, NewId, Ids, TypeOK
  <2>2. transactions' \in [Tids -> Transactions]
    BY <1>1, <2>1 DEF AddEntity, Begin, TypeOK, Transactions
  <2>3. names' \subseteq [name : Names, id : Ids]
    BY <1>1, <2>1 DEF AddEntity, TypeOK
  <2>4. TypeOK'
    BY <1>1, <2>1, <2>2, <2>3 DEF AddEntity, TypeOK, Existing
  <2>5. \A u \in Tids : transactions'[u] =
          IF u = t THEN [kind |-> "new", id |-> NewId, committed |-> FALSE, type |-> type, properties |-> p]
          ELSE transactions[u]
    BY <1>1 DEF AddEntity, Begin, TypeOK
  <2>6. Existing' = Existing
    BY <1>1 DEF AddEntity, Existing
  <2>. QED BY <2>1, <2>4, <2>5, <2>6 DEF NewIds, IsNew
<1>2. CASE CommitNew(t)
  <2>1. /\ transactions[t] \in
            [kind : {"new"}, id : Ids, committed : BOOLEAN, type : Types, properties : Properties]
        /\ ~transactions[t].committed
    BY <1>2, TransactionFields DEF CommitNew, IsNew
  <2>2. /\ Existing' = Existing \cup {transactions[t].id}
        /\ transactions[t].id \in 1 .. baseId
    BY <1>2, <2>1 DEF CommitNew, Existing, NewIds, IsNew
  <2>3. \A i \in Existing' :
          entities'[i] \in [type : Types, host : Ids \cup {NoHost}, orig : OriginalIds, name : Names]
    BY <1>2, <2>1 DEF CommitNew, Existing, TypeOK, Properties
  <2>4. \A u \in Tids : transactions'[u] =
          IF u = t THEN [transactions[t] EXCEPT !.committed = TRUE] ELSE transactions[u]
    BY <1>2 DEF CommitNew, Committed, TypeOK
  <2>5. [transactions[t] EXCEPT !.committed = TRUE] \in Transactions
    BY <2>1 DEF Transactions
  <2>6. transactions' \in [Tids -> Transactions]
    BY <1>2, <2>5 DEF CommitNew, Committed, TypeOK
  <2>7. TypeOK'
    BY <1>2, <2>1, <2>2, <2>3, <2>6 DEF CommitNew, TypeOK
  <2>8. NewIds'
    BY <1>2, <2>1, <2>2, <2>4, ZenonT(90) DEF CommitNew, NewIds, IsNew
  <2>. QED BY <2>7, <2>8
<1>3. CASE ReleaseNew(t)
  <2>1. transactions[t].id \in Existing /\ transactions[t].id \in Ids
    BY <1>3, TransactionFields DEF ReleaseNew, NewIds, IsNew
  <2>2. transactions' \in [Tids -> Transactions]
    BY <1>3 DEF ReleaseNew, End, TypeOK, Transactions
  <2>3. children' \subseteq [host : Ids \cup {NoHost}, type : Types, id : Ids]
    BY <1>3, <2>1, ChildEntryType DEF ReleaseNew, TypeOK
  <2>4. DOMAIN originals' \subseteq Ids /\ \A i \in DOMAIN originals' : originals'[i] \in OriginalIds
    BY <1>3, <2>1, EntityFields DEF ReleaseNew, TypeOK, Recorded
  <2>5. TypeOK'
    BY <1>3, <2>1, <2>2, <2>3, <2>4 DEF ReleaseNew, TypeOK, Existing
  <2>6. \A u \in Tids : transactions'[u] = IF u = t THEN NoTransaction ELSE transactions[u]
    BY <1>3 DEF ReleaseNew, End, TypeOK
  <2>. QED BY <1>3, <2>5, <2>6 DEF ReleaseNew, NewIds, IsNew, Existing, NoTransaction
<1>4. CASE CancelNew(t)
  <2>1. transactions' \in [Tids -> Transactions]
    BY <1>4 DEF CancelNew, End, TypeOK, Transactions
  <2>2. TypeOK'
    BY <1>4, <2>1 DEF CancelNew, TypeOK, Existing, indexes
  <2>3. \A u \in Tids : transactions'[u] = IF u = t THEN NoTransaction ELSE transactions[u]
    BY <1>4 DEF CancelNew, End, TypeOK
  <2>. QED BY <1>4, <2>2, <2>3 DEF CancelNew, NewIds, IsNew, Existing, NoTransaction
<1>. QED BY <1>1, <1>2, <1>3, <1>4

\* Changes of preferences and properties keep the types and the ids.
LEMMA ChangeKeepsStore ==
  ASSUME StoreInv, NEW t \in Tids,
         \/ \E id \in Existing, name \in Names : OpenPrefs(t, id, name)
         \/ CommitPrefs(t) \/ ReleasePrefs(t)
         \/ \E id \in Existing, p \in Properties : OpenProperties(t, id, p)
         \/ CommitProperties(t) \/ ReleaseProperties(t)
  PROVE  StoreInv'
<1>. USE DEF StoreInv
<1>0. \A i \in Existing : i \in Ids
  BY EntityFields
<1>1. ASSUME NEW id \in Existing, NEW name \in Names, OpenPrefs(t, id, name)
      PROVE  StoreInv'
  <2>1. transactions' \in [Tids -> Transactions]
    BY <1>0, <1>1 DEF OpenPrefs, Begin, TypeOK, Transactions
  <2>2. TypeOK'
    BY <1>1, <2>1 DEF OpenPrefs, TypeOK, Existing, indexes
  <2>3. \A u \in Tids : IsNew(u)' => u # t /\ IsNew(u) /\ transactions'[u] = transactions[u]
    BY <1>1 DEF OpenPrefs, Begin, TypeOK, IsNew
  <2>. QED BY <1>1, <2>2, <2>3 DEF OpenPrefs, NewIds, IsNew, Existing
<1>2. CASE CommitPrefs(t)
  <2>1. /\ transactions[t] \in
            [kind : {"prefs"}, id : Ids, committed : BOOLEAN, name : Names, oldName : Names]
        /\ transactions[t].id \in Existing
    BY <1>2, TransactionFields DEF CommitPrefs
  <2>2. \A u \in Tids : transactions'[u] =
          IF u = t THEN [transactions[t] EXCEPT !.committed = TRUE, !.oldName = entities[transactions[t].id].name]
          ELSE transactions[u]
    BY <1>2 DEF CommitPrefs, TypeOK
  <2>3. [transactions[t] EXCEPT !.committed = TRUE, !.oldName = entities[transactions[t].id].name]
          \in [kind : {"prefs"}, id : Ids, committed : BOOLEAN, name : Names, oldName : Names]
    BY <2>1, EntityFields
  <2>4. transactions' \in [Tids -> Transactions]
    <3>1. \A u \in Tids : transactions'[u] \in Transactions
      BY <2>2, <2>3 DEF Transactions, TypeOK
    <3>. QED BY <1>2, <3>1 DEF CommitPrefs, TypeOK
  <2>5. Existing' = Existing
    BY <1>2 DEF CommitPrefs, Existing
  <2>6. \A i \in Existing :
          entities'[i] \in [type : Types, host : Ids \cup {NoHost}, orig : OriginalIds, name : Names]
    BY <1>2, <2>1 DEF CommitPrefs, Existing, TypeOK
  <2>7. TypeOK'
    BY <1>2, <2>4, <2>5, <2>6 DEF CommitPrefs, TypeOK, indexes
  <2>8. \A u \in Tids : IsNew(u)' => u # t /\ IsNew(u) /\ transactions'[u] = transactions[u]
    BY <2>2, <2>3 DEF IsNew
  <2>9. baseId' = baseId
    BY <1>2 DEF CommitPrefs
  <2>. QED BY <2>5, <2>7, <2>8, <2>9 DEF NewIds, IsNew
<1>3. CASE ReleasePrefs(t)
  <2>1. transactions' \in [Tids -> Transactions]
    BY <1>3 DEF ReleasePrefs, End, TypeOK, Transactions
  <2>2. transactions[t] \in
            [kind : {"prefs"}, id : Ids, committed : BOOLEAN, name : Names, oldName : Names]
    BY <1>3, TransactionFields DEF ReleasePrefs
  <2>3. names' \subseteq [name : Names, id : Ids]
    BY <1>3, <2>2 DEF ReleasePrefs, TypeOK, NameChange
  <2>4. TypeOK'
    BY <1>3, <2>1, <2>3 DEF ReleasePrefs, TypeOK, Existing
  <2>5. \A u \in Tids : IsNew(u)' => u # t /\ IsNew(u) /\ transactions'[u] = transactions[u]
    BY <1>3 DEF ReleasePrefs, End, TypeOK, IsNew, NoTransaction
  <2>. QED BY <1>3, <2>4, <2>5 DEF ReleasePrefs, NewIds, IsNew, Existing
<1>4. ASSUME NEW id \in Existing, NEW p \in Properties, OpenProperties(t, id, p)
      PROVE  StoreInv'
  <2>1. transactions' \in [Tids -> Transactions]
    BY <1>0, <1>4 DEF OpenProperties, Begin, TypeOK, Transactions
  <2>2. TypeOK'
    BY <1>4, <2>1 DEF OpenProperties, TypeOK, Existing, indexes
  <2>3. \A u \in Tids : IsNew(u)' => u # t /\ IsNew(u) /\ transactions'[u] = transactions[u]
    BY <1>4 DEF OpenProperties, Begin, TypeOK, IsNew
  <2>. QED BY <1>4, <2>2, <2>3 DEF OpenProperties, NewIds, IsNew, Existing
<1>5. CASE CommitProperties(t)
  <2>1. /\ transactions[t] \in [kind : {"properties"}, id : Ids, committed : BOOLEAN, properties : Properties]
        /\ transactions[t].id \in Existing
    BY <1>5, TransactionFields DEF CommitProperties
  <2>2. \A u \in Tids : transactions'[u] =
          IF u = t THEN [transactions[t] EXCEPT !.committed = TRUE] ELSE transactions[u]
    BY <1>5 DEF CommitProperties, Committed, TypeOK
  <2>3. [transactions[t] EXCEPT !.committed = TRUE]
          \in [kind : {"properties"}, id : Ids, committed : BOOLEAN, properties : Properties]
    BY <2>1
  <2>4. transactions' \in [Tids -> Transactions]
    <3>1. [transactions[t] EXCEPT !.committed = TRUE] \in Transactions
      BY <2>3 DEF Transactions
    <3>. QED BY <1>5, <3>1 DEF CommitProperties, Committed, TypeOK
  <2>5. Existing' = Existing
    BY <1>5 DEF CommitProperties, Existing
  <2>6. \A i \in Existing :
          entities'[i] \in [type : Types, host : Ids \cup {NoHost}, orig : OriginalIds, name : Names]
    BY <1>5, <2>1 DEF CommitProperties, Existing, TypeOK, Properties
  <2>7. TypeOK'
    BY <1>5, <2>4, <2>5, <2>6 DEF CommitProperties, TypeOK, indexes
  <2>8. \A u \in Tids : IsNew(u)' => u # t /\ IsNew(u) /\ transactions'[u] = transactions[u]
    BY <2>2, <2>3 DEF IsNew
  <2>. QED BY <1>5, <2>5, <2>7, <2>8 DEF CommitProperties, NewIds, IsNew
<1>6. CASE ReleaseProperties(t)
  <2>1. transactions' \in [Tids -> Transactions]
    BY <1>6 DEF ReleaseProperties, End, TypeOK, Transactions
  <2>2. DOMAIN originals' \subseteq Ids /\ \A i \in DOMAIN originals' : originals'[i] \in OriginalIds
    BY <1>6, EntityFields DEF ReleaseProperties, OriginalsAfter, TypeOK, Recorded
  <2>3. TypeOK'
    BY <1>6, <2>1, <2>2 DEF ReleaseProperties, TypeOK, Existing
  <2>4. \A u \in Tids : IsNew(u)' => u # t /\ IsNew(u) /\ transactions'[u] = transactions[u]
    BY <1>6 DEF ReleaseProperties, End, TypeOK, IsNew, NoTransaction
  <2>. QED BY <1>6, <2>3, <2>4 DEF ReleaseProperties, NewIds, IsNew, Existing
<1>. QED BY <1>1, <1>2, <1>3, <1>4, <1>5, <1>6

\* Removing announced entities leaves the others as they are.
LEMMA ForgetKeepsEntities ==
  ASSUME NEW ids, Forget(ids)
  PROVE  /\ Existing' = Existing \ ids
         /\ \A i \in Existing' : entities'[i] = entities[i] /\ ChildEntry(i)' = ChildEntry(i)
  BY DEF Forget, Existing, ChildEntry

\* Removing entities and the default preferences keep the types and the ids.
LEMMA StoreStepKeepsStore ==
  ASSUME StoreInv,
         \/ \E id \in Existing : RemoveEntity(id)
         \/ Clear
         \/ \E name \in Names : SetDefaultPrefs(name)
  PROVE  StoreInv'
<1>. USE DEF StoreInv
<1>1. ASSUME NEW id \in Existing, RemoveEntity(id)
      PROVE  StoreInv'
  <2>1. Existing' = Existing \ Doomed(id) /\ \A i \in Existing' : entities'[i] = entities[i]
    BY <1>1, ForgetKeepsEntities DEF RemoveEntity
  <2>2. TypeOK'
    BY <1>1, <2>1 DEF RemoveEntity, Forget, TypeOK, NamesWithout, ChildrenWithout, OriginalsWithout, CachedWithout
  <2>3. Announced(Doomed(id))
    BY <1>1 DEF RemoveEntity
  <2>. QED BY <1>1, <2>1, <2>2, <2>3 DEF RemoveEntity, NewIds, IsNew, Announced
<1>2. CASE Clear
  <2>1. Existing' = {} /\ DOMAIN originals' = {}
    BY <1>2, ForgetKeepsEntities DEF Clear
  <2>2. TypeOK'
    BY <1>2, <2>1 DEF Clear, Forget, TypeOK, NamesWithout, ChildrenWithout
  <2>. QED BY <1>2, <2>1, <2>2 DEF Clear, NewIds, IsNew, Announced
<1>3. ASSUME NEW name \in Names, SetDefaultPrefs(name)
      PROVE  StoreInv'
  BY <1>3 DEF SetDefaultPrefs, indexes, TypeOK, NewIds, IsNew, Existing
<1>. QED BY <1>1, <1>2, <1>3

\* Every step keeps the types and the ids.
LEMMA StepKeepsStore ==
  ASSUME StoreInv, [Next]_vars
  PROVE  StoreInv'
<1>1. CASE UNCHANGED vars
  BY <1>1 DEF vars, indexes, StoreInv, TypeOK, NewIds, IsNew, Existing
<1>2. CASE Next
  BY <1>2, NewEntityKeepsStore, ChangeKeepsStore, StoreStepKeepsStore DEF Next, ClientStep
<1>. QED BY <1>1, <1>2

\* The store holds values the code can give it, whatever the clients do, and
\* the ids genUniqueId_() gives out are not those of anything else.
THEOREM TypeCorrect == Spec => []StoreInv
<1>1. Init => StoreInv
  BY InitStore
<1>2. StoreInv /\ [Next]_vars => StoreInv'
  BY StepKeepsStore
<1>. QED BY <1>1, <1>2, PTL DEF Spec

-----------------------------------------------------------------------------
(* The slice caches                                                        *)

\* The new entities that wait for their release, in other words.
LEMMA PendingNew ==
  ASSUME NEW i
  PROVE  Pending(i, "new") <=> \E t \in Tids : IsNew(t) /\ transactions[t].id = i
  BY DEF Pending, On, IsNone, IsNew

\* How the steps of a client change what waits: one more entity, one less, or
\* the same.
LEMMA NewEntityPending ==
  ASSUME StoreInv, NEW t \in Tids
  PROVE  /\ \A type \in Types, p \in Properties : AddEntity(t, type, p) =>
              \A i : Pending(i, "new")' <=> (Pending(i, "new") \/ i = NewId)
         /\ CommitNew(t) => \A i : Pending(i, "new")' <=> Pending(i, "new")
         /\ ReleaseNew(t) \/ CancelNew(t) =>
              \A i : Pending(i, "new")' <=> (Pending(i, "new") /\ i # transactions[t].id)
<1>. USE DEF StoreInv
<1>1. ASSUME NEW type \in Types, NEW p \in Properties, AddEntity(t, type, p), NEW i
      PROVE  Pending(i, "new")' <=> (Pending(i, "new") \/ i = NewId)
  <2>1. \A u \in Tids : transactions'[u] =
          IF u = t THEN [kind |-> "new", id |-> NewId, committed |-> FALSE, type |-> type, properties |-> p]
          ELSE transactions[u]
    BY <1>1 DEF AddEntity, Begin, TypeOK
  <2>2. ~IsNew(t)
    BY <1>1 DEF AddEntity, IsNone, IsNew
  <2>. QED BY <2>1, <2>2 DEF Pending, On, IsNone, IsNew
<1>2. ASSUME CommitNew(t), NEW i
      PROVE  Pending(i, "new")' <=> Pending(i, "new")
  <2>1. \A u \in Tids : transactions'[u] =
          IF u = t THEN [transactions[t] EXCEPT !.committed = TRUE] ELSE transactions[u]
    BY <1>2 DEF CommitNew, Committed, TypeOK
  <2>2. /\ [transactions[t] EXCEPT !.committed = TRUE].kind = transactions[t].kind
        /\ [transactions[t] EXCEPT !.committed = TRUE].id = transactions[t].id
    BY <1>2, TransactionFields DEF CommitNew, IsNew
  <2>. QED BY <2>1, <2>2 DEF Pending, On, IsNone
<1>3. ASSUME ReleaseNew(t) \/ CancelNew(t), NEW i
      PROVE  Pending(i, "new")' <=> (Pending(i, "new") /\ i # transactions[t].id)
  <2>1. \A u \in Tids : transactions'[u] = IF u = t THEN NoTransaction ELSE transactions[u]
    BY <1>3 DEF ReleaseNew, CancelNew, End, TypeOK
  <2>2. IsNew(t)
    BY <1>3 DEF ReleaseNew, CancelNew, IsNew
  <2>. QED BY <2>1, <2>2 DEF NewIds, Pending, On, IsNone, IsNew, NoTransaction
<1>. QED BY <1>1, <1>2, <1>3

\* Changes, removals and default preferences leave what waits as it is.
LEMMA OthersKeepPending ==
  ASSUME StoreInv,
         \/ \E t \in Tids :
              \/ \E id \in Existing, name \in Names : OpenPrefs(t, id, name)
              \/ CommitPrefs(t) \/ ReleasePrefs(t)
              \/ \E id \in Existing, p \in Properties : OpenProperties(t, id, p)
              \/ CommitProperties(t) \/ ReleaseProperties(t)
         \/ \E id \in Existing : RemoveEntity(id)
         \/ Clear
         \/ \E name \in Names : SetDefaultPrefs(name)
         \/ UNCHANGED vars,
         NEW i
  PROVE  Pending(i, "new")' <=> Pending(i, "new")
<1>. USE DEF StoreInv
<1>1. ASSUME NEW t \in Tids, transactions' = [transactions EXCEPT ![t] = transactions'[t]],
             ~IsNew(t), transactions'[t].kind # "new"
      PROVE  Pending(i, "new")' <=> Pending(i, "new")
  <2>1. \A u \in Tids : transactions'[u] = IF u = t THEN transactions'[t] ELSE transactions[u]
    BY <1>1 DEF TypeOK
  <2>. QED BY <1>1, <2>1 DEF Pending, On, IsNone, IsNew
<1>2. ASSUME NEW t \in Tids, NEW id \in Existing, NEW name \in Names, OpenPrefs(t, id, name)
      PROVE  Pending(i, "new")' <=> Pending(i, "new")
  BY <1>1, <1>2 DEF OpenPrefs, Begin, IsNone, IsNew, TypeOK
<1>3. ASSUME NEW t \in Tids, NEW id \in Existing, NEW p \in Properties, OpenProperties(t, id, p)
      PROVE  Pending(i, "new")' <=> Pending(i, "new")
  BY <1>1, <1>3 DEF OpenProperties, Begin, IsNone, IsNew, TypeOK
<1>4. ASSUME NEW t \in Tids, ReleasePrefs(t) \/ ReleaseProperties(t)
      PROVE  Pending(i, "new")' <=> Pending(i, "new")
  BY <1>1, <1>4 DEF ReleasePrefs, ReleaseProperties, End, NoTransaction, IsNew, TypeOK
<1>5. ASSUME NEW t \in Tids, CommitPrefs(t)
      PROVE  Pending(i, "new")' <=> Pending(i, "new")
  <2>1. transactions[t] \in [kind : {"prefs"}, id : Ids, committed : BOOLEAN, name : Names, oldName : Names]
    BY <1>5, TransactionFields DEF CommitPrefs
  <2>2. /\ transactions'[t] = [transactions[t] EXCEPT !.committed = TRUE, !.oldName = entities[transactions[t].id].name]
        /\ transactions' = [transactions EXCEPT ![t] = transactions'[t]]
    BY <1>5 DEF CommitPrefs, TypeOK
  <2>. QED BY <1>1, <2>1, <2>2 DEF IsNew
<1>6. ASSUME NEW t \in Tids, CommitProperties(t)
      PROVE  Pending(i, "new")' <=> Pending(i, "new")
  <2>1. transactions[t] \in [kind : {"properties"}, id : Ids, committed : BOOLEAN, properties : Properties]
    BY <1>6, TransactionFields DEF CommitProperties
  <2>2. /\ transactions'[t] = [transactions[t] EXCEPT !.committed = TRUE]
        /\ transactions' = [transactions EXCEPT ![t] = transactions'[t]]
    BY <1>6 DEF CommitProperties, Committed, TypeOK
  <2>. QED BY <1>1, <2>1, <2>2 DEF IsNew
<1>7. ASSUME UNCHANGED transactions
      PROVE  Pending(i, "new")' <=> Pending(i, "new")
  BY <1>7 DEF Pending, On, IsNone
<1>8. ASSUME \/ \E id \in Existing : RemoveEntity(id)
             \/ Clear
             \/ \E name \in Names : SetDefaultPrefs(name)
             \/ UNCHANGED vars
      PROVE  UNCHANGED transactions
  BY <1>8 DEF RemoveEntity, Clear, SetDefaultPrefs, vars
<1>. QED BY <1>2, <1>3, <1>4, <1>5, <1>6, <1>7, <1>8

\* A new entity that is not committed is not in the store, one that is
\* committed is.
LEMMA NewEntityStored ==
  ASSUME StoreInv, NEW t \in Tids, IsNew(t)
  PROVE  /\ transactions[t].committed <=> transactions[t].id \in Existing
         /\ Pending(transactions[t].id, "new")
  BY PendingNew DEF StoreInv, NewIds

\* NewId is nobody's.
LEMMA NewIdIsNew ==
  ASSUME StoreInv
  PROVE  /\ NewId \notin Existing
         /\ ~Pending(NewId, "new")
<1>1. NewId \notin 1 .. baseId
  BY MaxIdAssumption DEF StoreInv, TypeOK, NewId
<1>2. Existing \subseteq 1 .. baseId
  BY DEF StoreInv, TypeOK
<1>3. \A t \in Tids : IsNew(t) => transactions[t].id \in 1 .. baseId
  BY DEF StoreInv, NewIds
<1>4. ~Pending(NewId, "new")
  BY <1>1, <1>3, PendingNew
<1>. QED BY <1>1, <1>2, <1>4

\* Every step keeps the caches those of the announced entities.
LEMMA StepKeepsCaches ==
  ASSUME StoreInv, CachesMatchStore, [Next]_vars
  PROVE  CachesMatchStore'
<1>1. ASSUME NEW t \in Tids, NEW type \in Types, NEW p \in Properties, AddEntity(t, type, p)
      PROVE  CachesMatchStore'
  <2>1. \A i : Pending(i, "new")' <=> (Pending(i, "new") \/ i = NewId)
    BY <1>1, NewEntityPending
  <2>2. Existing' = Existing /\ cachedIds' = cachedIds /\ dataIds' = dataIds
    BY <1>1 DEF AddEntity, Existing
  <2>. QED BY <2>1, <2>2, NewIdIsNew DEF CachesMatchStore
<1>2. ASSUME NEW t \in Tids, CommitNew(t)
      PROVE  CachesMatchStore'
  <2>1. \A i : Pending(i, "new")' <=> Pending(i, "new")
    BY <1>2, NewEntityPending
  <2>2. Pending(transactions[t].id, "new")
    BY <1>2, NewEntityStored DEF CommitNew, IsNew
  <2>3. /\ Existing' = Existing \cup {transactions[t].id}
        /\ cachedIds' = cachedIds /\ dataIds' = dataIds \cup {transactions[t].id}
    BY <1>2 DEF CommitNew, Existing
  <2>4. transactions[t].id # ScenarioId
    <3>1. transactions[t].id \in Ids
      BY <1>2, TransactionFields DEF CommitNew, StoreInv, IsNone
    <3>. QED BY <3>1, MaxIdAssumption DEF Ids, ScenarioId
  <2>. QED BY <2>1, <2>2, <2>3, <2>4 DEF CachesMatchStore
<1>3. ASSUME NEW t \in Tids, ReleaseNew(t)
      PROVE  CachesMatchStore'
  <2>1. \A i : Pending(i, "new")' <=> (Pending(i, "new") /\ i # transactions[t].id)
    BY <1>3, NewEntityPending
  <2>2. transactions[t].id \in Existing
    BY <1>3, NewEntityStored DEF ReleaseNew, IsNew
  <2>3. /\ Existing' = Existing /\ dataIds' = dataIds
        /\ cachedIds' = cachedIds \cup {transactions[t].id}
    BY <1>3 DEF ReleaseNew, Existing
  <2>. QED BY <2>1, <2>2, <2>3 DEF CachesMatchStore
<1>4. ASSUME NEW t \in Tids, CancelNew(t)
      PROVE  CachesMatchStore'
  <2>1. \A i : Pending(i, "new")' <=> (Pending(i, "new") /\ i # transactions[t].id)
    BY <1>4, NewEntityPending
  <2>2. transactions[t].id \notin Existing
    BY <1>4, NewEntityStored DEF CancelNew, IsNew
  <2>3. Existing' = Existing /\ cachedIds' = cachedIds /\ dataIds' = dataIds
    BY <1>4 DEF CancelNew, Existing, indexes
  <2>. QED BY <2>1, <2>2, <2>3 DEF CachesMatchStore
<1>5. ASSUME NEW id \in Existing, RemoveEntity(id)
      PROVE  CachesMatchStore'
  <2>1. \A i : Pending(i, "new")' <=> Pending(i, "new")
    BY <1>5, OthersKeepPending
  <2>2. /\ Existing' = Existing \ Doomed(id)
        /\ cachedIds' = cachedIds \ Doomed(id) /\ dataIds' = dataIds \ Doomed(id)
    BY <1>5, ForgetKeepsEntities DEF RemoveEntity, CachedWithout
  <2>. QED BY <2>1, <2>2 DEF CachesMatchStore
<1>6. ASSUME Clear
      PROVE  CachesMatchStore'
  BY <1>6, ForgetKeepsEntities DEF Clear, CachesMatchStore
<1>7. ASSUME \/ \E t \in Tids :
                  \/ \E id \in Existing, name \in Names : OpenPrefs(t, id, name)
                  \/ CommitPrefs(t) \/ ReleasePrefs(t)
                  \/ \E id \in Existing, p \in Properties : OpenProperties(t, id, p)
                  \/ CommitProperties(t) \/ ReleaseProperties(t)
             \/ \E name \in Names : SetDefaultPrefs(name)
             \/ UNCHANGED vars
      PROVE  CachesMatchStore'
  <2>1. \A i : Pending(i, "new")' <=> Pending(i, "new")
    BY <1>7, OthersKeepPending
  <2>2. Existing' = Existing /\ cachedIds' = cachedIds /\ dataIds' = dataIds
    BY <1>7 DEF OpenPrefs, CommitPrefs, ReleasePrefs, OpenProperties, CommitProperties, ReleaseProperties,
                SetDefaultPrefs, Existing, vars, indexes
  <2>. QED BY <2>1, <2>2 DEF CachesMatchStore
<1>. QED BY <1>1, <1>2, <1>3, <1>4, <1>5, <1>6, <1>7 DEF Next, ClientStep

\* Whatever the clients do, the caches every update walks are those of the
\* announced entities, and the generic and category slices those of the
\* committed ones: nothing is updated for an entity that is gone.
THEOREM CachesAlwaysMatch == Spec => []CachesMatchStore
<1>1. Init => CachesMatchStore
  BY DEF Init, CachesMatchStore, Existing
<1>2. StoreInv /\ CachesMatchStore /\ [Next]_vars => CachesMatchStore'
  BY StepKeepsCaches
<1>. QED BY <1>1, <1>2, TypeCorrect, PTL DEF Spec

-----------------------------------------------------------------------------
(* The original ids                                                        *)

\* A step of new entities leaves the committed changes as they are.
LEMMA NewEntityKeepsChanges ==
  ASSUME StoreInv, NEW t \in Tids, NEW i,
         \/ \E type \in Types, p \in Properties : AddEntity(t, type, p)
         \/ CommitNew(t) \/ ReleaseNew(t) \/ CancelNew(t)
  PROVE  PropertiesCommitted(i)' <=> PropertiesCommitted(i)
<1>1. /\ transactions' = [transactions EXCEPT ![t] = transactions'[t]]
      /\ transactions[t].kind # "properties" /\ transactions'[t].kind # "properties"
  <2>1. ASSUME NEW type \in Types, NEW p \in Properties, AddEntity(t, type, p)
        PROVE  /\ transactions' = [transactions EXCEPT ![t] = transactions'[t]]
               /\ transactions[t].kind # "properties" /\ transactions'[t].kind # "properties"
    BY <2>1 DEF AddEntity, Begin, IsNone, StoreInv, TypeOK
  <2>2. CASE CommitNew(t)
    <3>1. transactions[t] \in
            [kind : {"new"}, id : Ids, committed : BOOLEAN, type : Types, properties : Properties]
      BY <2>2, TransactionFields DEF CommitNew, IsNew, StoreInv
    <3>2. /\ transactions'[t] = [transactions[t] EXCEPT !.committed = TRUE]
          /\ transactions' = [transactions EXCEPT ![t] = transactions'[t]]
      BY <2>2 DEF CommitNew, Committed, StoreInv, TypeOK
    <3>. QED BY <3>1, <3>2
  <2>3. CASE ReleaseNew(t) \/ CancelNew(t)
    BY <2>3 DEF ReleaseNew, CancelNew, End, NoTransaction, StoreInv, TypeOK
  <2>. QED BY <2>1, <2>2, <2>3
<1>2. \A u \in Tids : transactions'[u] = IF u = t THEN transactions'[t] ELSE transactions[u]
  BY <1>1 DEF StoreInv, TypeOK
<1>. QED BY <1>1, <1>2 DEF PropertiesCommitted

\* Every step keeps the index up to date but for the committed changes.
LEMMA StepKeepsOriginals ==
  ASSUME StoreInv, OriginalsInv, [Next]_vars
  PROVE  OriginalsInv'
<1>1. ASSUME NEW t \in Tids, NEW type \in Types, NEW p \in Properties, AddEntity(t, type, p)
      PROVE  OriginalsInv'
  <2>1. \A i : /\ Pending(i, "new")' <=> (Pending(i, "new") \/ i = NewId)
               /\ PropertiesCommitted(i)' <=> PropertiesCommitted(i)
    BY <1>1, NewEntityPending, NewEntityKeepsChanges
  <2>2. UNCHANGED <<entities, originals>> /\ Existing' = Existing
    BY <1>1 DEF AddEntity, Existing
  <2>. QED BY <2>1, <2>2 DEF OriginalsInv
<1>2. ASSUME NEW t \in Tids, CommitNew(t)
      PROVE  OriginalsInv'
  <2>1. \A i : /\ Pending(i, "new")' <=> Pending(i, "new")
               /\ PropertiesCommitted(i)' <=> PropertiesCommitted(i)
    BY <1>2, NewEntityPending, NewEntityKeepsChanges
  <2>2. Pending(transactions[t].id, "new")
    BY <1>2, NewEntityStored DEF CommitNew, IsNew
  <2>3. /\ Existing' = Existing \cup {transactions[t].id} /\ originals' = originals
        /\ \A i \in Existing : entities'[i] = entities[i]
    BY <1>2 DEF CommitNew, Existing
  <2>. QED BY <2>1, <2>2, <2>3 DEF OriginalsInv
<1>3. ASSUME NEW t \in Tids, ReleaseNew(t)
      PROVE  OriginalsInv'
  <2>1. \A i : /\ Pending(i, "new")' <=> (Pending(i, "new") /\ i # transactions[t].id)
               /\ PropertiesCommitted(i)' <=> PropertiesCommitted(i)
    BY <1>3, NewEntityPending, NewEntityKeepsChanges
  <2>2. transactions[t].id \in Existing
    BY <1>3, NewEntityStored DEF ReleaseNew, IsNew
  <2>3. /\ UNCHANGED entities /\ Existing' = Existing
        /\ DOMAIN originals' = DOMAIN originals \cup {transactions[t].id}
        /\ \A i \in DOMAIN originals' :
              originals'[i] = IF i = transactions[t].id THEN entities[i].orig ELSE originals[i]
    BY <1>3 DEF ReleaseNew, Recorded, Existing
  <2>. QED BY <2>1, <2>2, <2>3 DEF OriginalsInv
<1>4. ASSUME NEW t \in Tids, CancelNew(t)
      PROVE  OriginalsInv'
  <2>1. \A i : /\ Pending(i, "new")' <=> (Pending(i, "new") /\ i # transactions[t].id)
               /\ PropertiesCommitted(i)' <=> PropertiesCommitted(i)
    BY <1>4, NewEntityPending, NewEntityKeepsChanges
  <2>2. transactions[t].id \notin Existing
    BY <1>4, NewEntityStored DEF CancelNew, IsNew
  <2>3. UNCHANGED <<entities, originals>> /\ Existing' = Existing
    BY <1>4 DEF CancelNew, Existing, indexes
  <2>. QED BY <2>1, <2>2, <2>3 DEF OriginalsInv
<1>5. ASSUME NEW t \in Tids,
             \/ \E id \in Existing, name \in Names : OpenPrefs(t, id, name)
             \/ \E id \in Existing, p \in Properties : OpenProperties(t, id, p)
      PROVE  OriginalsInv'
  <2>1. \A i : Pending(i, "new")' <=> Pending(i, "new")
    BY <1>5, OthersKeepPending
  <2>2. \A u \in Tids : u # t => transactions'[u] = transactions[u]
    BY <1>5 DEF OpenPrefs, OpenProperties, Begin, StoreInv, TypeOK
  <2>3. transactions[t].kind = "none"
    BY <1>5 DEF OpenPrefs, OpenProperties, IsNone
  <2>4. \A i : PropertiesCommitted(i) => PropertiesCommitted(i)'
    BY <2>2, <2>3 DEF PropertiesCommitted
  <2>5. UNCHANGED <<entities, originals>> /\ Existing' = Existing
    BY <1>5 DEF OpenPrefs, OpenProperties, Existing, indexes
  <2>. QED BY <2>1, <2>4, <2>5 DEF OriginalsInv
<1>6. ASSUME NEW t \in Tids, CommitPrefs(t)
      PROVE  OriginalsInv'
  <2>1. \A i : Pending(i, "new")' <=> Pending(i, "new")
    BY <1>6, OthersKeepPending
  <2>2. \A u \in Tids : u # t => transactions'[u] = transactions[u]
    BY <1>6 DEF CommitPrefs, StoreInv, TypeOK
  <2>3. transactions[t].kind = "prefs"
    BY <1>6 DEF CommitPrefs
  <2>4. \A i : PropertiesCommitted(i) => PropertiesCommitted(i)'
    BY <2>2, <2>3 DEF PropertiesCommitted
  <2>5. UNCHANGED originals /\ Existing' = Existing
    BY <1>6 DEF CommitPrefs, Existing, indexes
  <2>6. \A i \in Existing : entities[i] \in
           [type : Types, host : Ids \cup {NoHost}, orig : OriginalIds, name : Names]
    BY DEF StoreInv, TypeOK
  <2>7. \A i \in Existing : entities'[i].orig = entities[i].orig
    BY <1>6, <2>6 DEF CommitPrefs, Existing
  <2>. QED BY <2>1, <2>4, <2>5, <2>7 DEF OriginalsInv
<1>7. ASSUME NEW t \in Tids, ReleasePrefs(t)
      PROVE  OriginalsInv'
  <2>1. \A i : Pending(i, "new")' <=> Pending(i, "new")
    BY <1>7, OthersKeepPending
  <2>2. \A u \in Tids : u # t => transactions'[u] = transactions[u]
    BY <1>7 DEF ReleasePrefs, End, StoreInv, TypeOK
  <2>3. transactions[t].kind = "prefs"
    BY <1>7 DEF ReleasePrefs
  <2>4. \A i : PropertiesCommitted(i) => PropertiesCommitted(i)'
    BY <2>2, <2>3 DEF PropertiesCommitted
  <2>5. UNCHANGED <<entities, originals>> /\ Existing' = Existing
    BY <1>7 DEF ReleasePrefs, Existing
  <2>. QED BY <2>1, <2>4, <2>5 DEF OriginalsInv
<1>8. ASSUME NEW t \in Tids, CommitProperties(t)
      PROVE  OriginalsInv'
  <2>. DEFINE id == transactions[t].id
  <2>1. \A i : Pending(i, "new")' <=> Pending(i, "new")
    BY <1>8, OthersKeepPending
  <2>2. transactions[t] \in [kind : {"properties"}, id : Ids, committed : BOOLEAN, properties : Properties]
    BY <1>8, TransactionFields DEF CommitProperties, StoreInv
  <2>3. \A u \in Tids : transactions'[u] =
          IF u = t THEN [transactions[t] EXCEPT !.committed = TRUE] ELSE transactions[u]
    BY <1>8 DEF CommitProperties, Committed, StoreInv, TypeOK
  <2>4. \A i : PropertiesCommitted(i) \/ i = id => PropertiesCommitted(i)'
    BY <2>2, <2>3 DEF PropertiesCommitted
  <2>5. /\ UNCHANGED originals /\ Existing' = Existing
        /\ \A i \in Existing : i # id => entities'[i] = entities[i]
    BY <1>8 DEF CommitProperties, Existing, indexes
  <2>. QED BY <2>1, <2>4, <2>5 DEF OriginalsInv
<1>9. ASSUME NEW t \in Tids, ReleaseProperties(t)
      PROVE  OriginalsInv'
  <2>. DEFINE id == transactions[t].id
  <2>1. \A i : Pending(i, "new")' <=> Pending(i, "new")
    BY <1>9, OthersKeepPending
  <2>2. \A u \in Tids : u # t => transactions'[u] = transactions[u]
    BY <1>9 DEF ReleaseProperties, End, StoreInv, TypeOK
  <2>3. \A i : PropertiesCommitted(i) /\ (i # id \/ ~transactions[t].committed) => PropertiesCommitted(i)'
    BY <2>2 DEF PropertiesCommitted
  <2>4. UNCHANGED entities /\ Existing' = Existing /\ originals' = OriginalsAfter(transactions[t])
    BY <1>9 DEF ReleaseProperties, Existing
  <2>5. /\ DOMAIN originals' = DOMAIN originals
        /\ \A i \in DOMAIN originals :
              originals'[i] = IF i = id /\ transactions[t].committed THEN entities[i].orig ELSE originals[i]
    BY <2>4 DEF OriginalsAfter, Recorded, OriginalsInv
  <2>. QED BY <2>1, <2>3, <2>4, <2>5 DEF OriginalsInv
<1>10. ASSUME NEW id \in Existing, RemoveEntity(id)
       PROVE  OriginalsInv'
  <2>1. \A i : Pending(i, "new")' <=> Pending(i, "new")
    BY <1>10, OthersKeepPending
  <2>2. \A i : PropertiesCommitted(i)' <=> PropertiesCommitted(i)
    BY <1>10 DEF RemoveEntity, PropertiesCommitted
  <2>3. /\ Existing' = Existing \ Doomed(id) /\ \A i \in Existing' : entities'[i] = entities[i]
        /\ originals' = OriginalsWithout(Doomed(id))
    BY <1>10, ForgetKeepsEntities DEF RemoveEntity
  <2>4. /\ DOMAIN originals' = DOMAIN originals \ Doomed(id)
        /\ \A i \in DOMAIN originals' : originals'[i] = originals[i]
    BY <2>3 DEF OriginalsWithout
  <2>. QED BY <2>1, <2>2, <2>3, <2>4 DEF OriginalsInv
<1>11. ASSUME Clear
       PROVE  OriginalsInv'
  BY <1>11, ForgetKeepsEntities DEF Clear, OriginalsInv
<1>12. ASSUME UNCHANGED vars \/ \E name \in Names : SetDefaultPrefs(name)
       PROVE  OriginalsInv'
  BY <1>12 DEF SetDefaultPrefs, vars, indexes, OriginalsInv, PropertiesCommitted, Pending, On, IsNone, Existing
<1>. QED BY <1>1, <1>2, <1>3, <1>4, <1>5, <1>6, <1>7, <1>8, <1>9, <1>10, <1>11, <1>12 DEF Next, ClientStep

\* Whatever the clients do, and in whatever order they release what they
\* committed, an entity without open transactions is found under its original
\* id and no other, and only entities of the store are found.
THEOREM OriginalIdsAlwaysMatch == Spec => []OriginalIdsMatch
<1>1. Init => OriginalsInv
  BY DEF Init, OriginalsInv, Existing
<1>2. StoreInv /\ OriginalsInv /\ [Next]_vars => OriginalsInv'
  BY StepKeepsOriginals
<1>3. OriginalsInv => OriginalIdsMatch
  BY DEF OriginalsInv, OriginalIdsMatch, PropertiesCommitted, Pending, On, IsNone
<1>. QED BY <1>1, <1>2, <1>3, TypeCorrect, PTL DEF Spec

-----------------------------------------------------------------------------
(* Hosts and children                                                      *)

\* No step changes the type or the host of an entity that stays.
LEMMA EntitiesKeepHosts ==
  ASSUME StoreInv, HostsFixed, [Next]_vars, NEW i \in Existing, i \in Existing'
  PROVE  entities'[i].type = entities[i].type /\ entities'[i].host = entities[i].host
<1>0. entities[i] \in [type : Types, host : Ids \cup {NoHost}, orig : OriginalIds, name : Names]
  BY DEF StoreInv, TypeOK
<1>1. ASSUME NEW t \in Tids, CommitNew(t)
      PROVE  entities'[i] = entities[i]
  BY <1>1 DEF CommitNew
<1>2. ASSUME NEW t \in Tids, CommitPrefs(t)
      PROVE  entities'[i].type = entities[i].type /\ entities'[i].host = entities[i].host
  BY <1>0, <1>2 DEF CommitPrefs, Existing
<1>3. ASSUME NEW t \in Tids, CommitProperties(t)
      PROVE  entities'[i].type = entities[i].type /\ entities'[i].host = entities[i].host
  <2>1. i = transactions[t].id => transactions[t].properties.host = entities[i].host
    BY <1>3 DEF CommitProperties, HostsFixed
  <2>. QED BY <1>0, <1>3, <2>1 DEF CommitProperties, Existing
<1>4. ASSUME Clear \/ \E id \in Existing : RemoveEntity(id)
      PROVE  entities'[i] = entities[i]
  BY <1>4, ForgetKeepsEntities DEF Clear, RemoveEntity
<1>5. ASSUME \/ \E t \in Tids :
                  \/ \E type \in Types, p \in Properties : AddEntity(t, type, p)
                  \/ ReleaseNew(t) \/ CancelNew(t)
                  \/ \E id \in Existing, name \in Names : OpenPrefs(t, id, name)
                  \/ ReleasePrefs(t)
                  \/ \E id \in Existing, p \in Properties : OpenProperties(t, id, p)
                  \/ ReleaseProperties(t)
             \/ \E name \in Names : SetDefaultPrefs(name)
             \/ UNCHANGED vars
      PROVE  entities' = entities
  BY <1>5 DEF AddEntity, ReleaseNew, CancelNew, OpenPrefs, ReleasePrefs, OpenProperties, ReleaseProperties,
              SetDefaultPrefs, vars
<1>. QED BY <1>1, <1>2, <1>3, <1>4, <1>5 DEF Next, ClientStep

\* A step that opens no transaction on a new entity or on properties, and
\* commits none, leaves the hosts as they are.
LEMMA FewerKeepHostsFixed ==
  ASSUME StoreInv, StoreInv', HostsFixed, [Next]_vars,
         baseId' = baseId, Existing' \subseteq Existing,
         \A u \in Tids : \/ transactions'[u] = transactions[u]
                         \/ transactions'[u].kind \in {"none", "prefs"}
  PROVE  HostsFixed'
<1>1. \A i \in Existing' : i \in Existing /\ entities'[i].host = entities[i].host
  BY EntitiesKeepHosts
<1>2. ASSUME NEW u \in Tids, transactions'[u] = transactions[u], IsNew(u), transactions[u].committed
      PROVE  entities'[transactions[u].id].host = transactions[u].properties.host
  <2>1. transactions[u].id \in Existing'
    BY <1>2 DEF StoreInv, NewIds, IsNew
  <2>. QED BY <1>1, <1>2, <2>1 DEF HostsFixed
<1>3. \A u \in Tids : transactions'[u].kind \in {"new", "properties"} => transactions'[u] = transactions[u]
  OBVIOUS
<1>. QED BY <1>1, <1>2, <1>3 DEF HostsFixed, IsNew

\* Every step without a change of hosts keeps them so.
LEMMA StepKeepsHostsFixed ==
  ASSUME ~Happens("rehost"), StoreInv, HostsFixed, [Next]_vars
  PROVE  HostsFixed'
<1>0. StoreInv'
  BY StepKeepsStore
<1>1. ASSUME NEW t \in Tids, NEW type \in Types, NEW p \in Properties, AddEntity(t, type, p)
      PROVE  HostsFixed'
  <2>1. \A u \in Tids : transactions'[u] =
          IF u = t THEN [kind |-> "new", id |-> NewId, committed |-> FALSE, type |-> type, properties |-> p]
          ELSE transactions[u]
    BY <1>1 DEF AddEntity, Begin, StoreInv, TypeOK
  <2>2. /\ NewId \notin 1 .. baseId /\ 1 .. baseId \subseteq 1 .. baseId'
        /\ Existing \subseteq 1 .. baseId /\ NoHost \notin Existing
    BY <1>1 DEF AddEntity, NewId, NoHost, StoreInv, TypeOK
  <2>3. type # "PLATFORM" => p.host # NoHost
    BY <1>1, <2>2 DEF AddEntity, CanHost
  <2>4. entities' = entities /\ Existing' = Existing
    BY <1>1 DEF AddEntity, Existing
  <2>. QED BY <2>1, <2>2, <2>3, <2>4 DEF HostsFixed, IsNew
<1>2. ASSUME NEW t \in Tids, CommitNew(t)
      PROVE  HostsFixed'
  <2>. DEFINE id == transactions[t].id
  <2>1. transactions[t] \in
          [kind : {"new"}, id : Ids, committed : BOOLEAN, type : Types, properties : Properties]
    BY <1>2, TransactionFields DEF CommitNew, IsNew, StoreInv
  <2>2. \A u \in Tids : transactions'[u] =
          IF u = t THEN [transactions[t] EXCEPT !.committed = TRUE] ELSE transactions[u]
    BY <1>2 DEF CommitNew, Committed, StoreInv, TypeOK
  <2>3. id \notin Existing
    BY <1>2, NewEntityStored DEF CommitNew, IsNew
  <2>4. /\ Existing' = Existing \cup {id} /\ baseId' = baseId
        /\ \A i \in Existing : entities'[i] = entities[i]
        /\ entities'[id].host = transactions[t].properties.host
    BY <1>2, <2>3 DEF CommitNew, Existing
  <2>5. \A u \in Tids : transactions[u].kind = "properties" => transactions[u].id # id
    BY <1>2 DEF CommitNew, HostsFixed, IsNew
  <2>6. \A u \in Tids : u # t /\ IsNew(u) /\ transactions[u].committed => transactions[u].id \in Existing
    BY NewEntityStored
  <2>7. \A u \in Tids : /\ IsNew(u)' = IsNew(u) /\ transactions'[u].kind = transactions[u].kind
                        /\ transactions'[u].id = transactions[u].id
    BY <2>1, <2>2 DEF IsNew
  <2>8. ASSUME NEW u \in Tids, transactions'[u].kind = "properties"
        PROVE  /\ transactions'[u].id \in 1 .. baseId'
               /\ \A w \in Tids : IsNew(w)' /\ transactions'[w].id = transactions'[u].id => transactions'[w].committed
               /\ transactions'[u].id \in Existing' =>
                    transactions'[u].properties.host = entities'[transactions'[u].id].host
    <3>1. transactions'[u] = transactions[u]
      BY <2>1, <2>2, <2>8
    <3>. QED BY <2>2, <2>4, <2>5, <2>7, <2>8, <3>1 DEF HostsFixed
  <2>9. ASSUME NEW u \in Tids, IsNew(u)'
        PROVE  /\ transactions'[u].committed =>
                    entities'[transactions'[u].id].host = transactions'[u].properties.host
               /\ transactions'[u].type # "PLATFORM" => transactions'[u].properties.host # NoHost
    <3>1. CASE u = t
      BY <2>1, <2>2, <2>4, <2>7, <2>9, <3>1 DEF HostsFixed
    <3>2. CASE u # t
      BY <2>2, <2>4, <2>6, <2>7, <2>9, <3>2 DEF HostsFixed
    <3>. QED BY <3>1, <3>2
  <2>. QED BY <2>8, <2>9 DEF HostsFixed
<1>3. ASSUME NEW t \in Tids, NEW id \in Existing, NEW p \in Properties, OpenProperties(t, id, p)
      PROVE  HostsFixed'
  <2>1. \A u \in Tids : transactions'[u] =
          IF u = t THEN [kind |-> "properties", id |-> id, committed |-> FALSE, properties |-> p]
          ELSE transactions[u]
    BY <1>3 DEF OpenProperties, Begin, StoreInv, TypeOK
  <2>2. p.host = entities[id].host
    BY <1>3 DEF OpenProperties
  <2>3. entities' = entities /\ Existing' = Existing /\ baseId' = baseId
    BY <1>3 DEF OpenProperties, Existing
  <2>4. id \in 1 .. baseId
    BY DEF StoreInv, TypeOK
  <2>5. \A u \in Tids : IsNew(u) /\ transactions[u].id = id => transactions[u].committed
    BY NewEntityStored
  <2>. QED BY <2>1, <2>2, <2>3, <2>4, <2>5 DEF HostsFixed, IsNew
<1>4. ASSUME NEW t \in Tids, CommitProperties(t)
      PROVE  HostsFixed'
  <2>1. transactions[t] \in [kind : {"properties"}, id : Ids, committed : BOOLEAN, properties : Properties]
    BY <1>4, TransactionFields DEF CommitProperties, StoreInv
  <2>2. \A u \in Tids : transactions'[u] =
          IF u = t THEN [transactions[t] EXCEPT !.committed = TRUE] ELSE transactions[u]
    BY <1>4 DEF CommitProperties, Committed, StoreInv, TypeOK
  <2>3. Existing' = Existing /\ baseId' = baseId
    BY <1>4 DEF CommitProperties, Existing
  <2>4. \A i \in Existing : entities'[i].host = entities[i].host
    BY <2>3, EntitiesKeepHosts
  <2>5. \A u \in Tids : /\ transactions'[u].kind = transactions[u].kind /\ transactions'[u].id = transactions[u].id
                        /\ transactions'[u].kind = "properties" => transactions'[u].properties = transactions[u].properties
                        /\ transactions'[u].kind = "new" => transactions'[u] = transactions[u]
    BY <2>1, <2>2
  <2>6. \A u \in Tids : IsNew(u) /\ transactions[u].committed => transactions[u].id \in Existing
    BY NewEntityStored
  <2>7. ASSUME NEW u \in Tids, transactions'[u].kind = "properties"
        PROVE  /\ transactions'[u].id \in 1 .. baseId'
               /\ \A w \in Tids : IsNew(w)' /\ transactions'[w].id = transactions'[u].id => transactions'[w].committed
               /\ transactions'[u].id \in Existing' =>
                    transactions'[u].properties.host = entities'[transactions'[u].id].host
    <3>1. /\ transactions[u].kind = "properties" /\ transactions'[u].id = transactions[u].id
          /\ transactions'[u].properties = transactions[u].properties
      BY <2>5, <2>7
    <3>2. \A w \in Tids : IsNew(w)' => IsNew(w) /\ transactions'[w] = transactions[w]
      BY <2>5 DEF IsNew
    <3>3. /\ transactions[u].id \in 1 .. baseId
          /\ \A w \in Tids : IsNew(w) /\ transactions[w].id = transactions[u].id => transactions[w].committed
          /\ transactions[u].id \in Existing =>
               transactions[u].properties.host = entities[transactions[u].id].host
      BY <3>1 DEF HostsFixed
    <3>. QED BY <2>3, <2>4, <3>1, <3>2, <3>3
  <2>8. ASSUME NEW u \in Tids, IsNew(u)'
        PROVE  /\ transactions'[u].committed =>
                    entities'[transactions'[u].id].host = transactions'[u].properties.host
               /\ transactions'[u].type # "PLATFORM" => transactions'[u].properties.host # NoHost
    <3>1. IsNew(u) /\ transactions'[u] = transactions[u]
      BY <2>5, <2>8 DEF IsNew
    <3>2. transactions[u].committed => transactions[u].id \in Existing
      BY <2>6, <3>1
    <3>. QED BY <2>4, <3>1, <3>2 DEF HostsFixed
  <2>. QED BY <2>7, <2>8 DEF HostsFixed
<1>5. ASSUME NEW t \in Tids,
             \/ ReleaseNew(t) \/ CancelNew(t) \/ CommitPrefs(t) \/ ReleasePrefs(t) \/ ReleaseProperties(t)
             \/ \E id \in Existing, name \in Names : OpenPrefs(t, id, name)
      PROVE  HostsFixed'
  <2>1. \A u \in Tids : \/ transactions'[u] = transactions[u]
                        \/ transactions'[u].kind \in {"none", "prefs"}
    <3>1. CASE CommitPrefs(t)
      <4>1. transactions[t] \in [kind : {"prefs"}, id : Ids, committed : BOOLEAN, name : Names, oldName : Names]
        BY <3>1, TransactionFields DEF CommitPrefs, StoreInv
      <4>. QED BY <3>1, <4>1 DEF CommitPrefs, StoreInv, TypeOK
    <3>2. CASE ~CommitPrefs(t)
      BY <1>5, <3>2 DEF ReleaseNew, CancelNew, ReleasePrefs, ReleaseProperties, OpenPrefs, Begin, End,
                        NoTransaction, StoreInv, TypeOK
    <3>. QED BY <3>1, <3>2
  <2>2. Existing' = Existing /\ baseId' = baseId
    BY <1>5 DEF ReleaseNew, CancelNew, CommitPrefs, ReleasePrefs, ReleaseProperties, OpenPrefs, Existing
  <2>. QED BY <1>0, <2>1, <2>2, FewerKeepHostsFixed
<1>6. ASSUME \/ \E id \in Existing : RemoveEntity(id)
             \/ Clear
             \/ \E name \in Names : SetDefaultPrefs(name)
             \/ UNCHANGED vars
      PROVE  HostsFixed'
  <2>1. transactions' = transactions /\ baseId' = baseId
    BY <1>6 DEF RemoveEntity, Clear, SetDefaultPrefs, vars
  <2>2. Existing' \subseteq Existing
    BY <1>6, ForgetKeepsEntities DEF RemoveEntity, Clear, SetDefaultPrefs, vars, Existing
  <2>. QED BY <1>0, <2>1, <2>2, FewerKeepHostsFixed
<1>. QED BY <1>1, <1>2, <1>3, <1>4, <1>5, <1>6 DEF Next, ClientStep

\* The entry c is that of a child that should be found.
EntryOf(c, i) == i \in Existing /\ entities[i].type # "PLATFORM" /\ ~Pending(i, "new") /\ c = ChildEntry(i)
ChildrenByEntry == \A c : c \in children <=> \E i : EntryOf(c, i)

\* The children that should be found, one by one.
LEMMA ChildrenByEntity == ChildrenMatchHosts <=> ChildrenByEntry
<1>. DEFINE S == {ChildEntry(i) : i \in {j \in Existing : entities[j].type # "PLATFORM" /\ ~Pending(j, "new")}}
<1>1. \A c : c \in S <=> \E i : EntryOf(c, i)
  BY DEF EntryOf
<1>2. ChildrenMatchHosts <=> children = S
  BY DEF ChildrenMatchHosts
<1>. HIDE DEF S
<1>. QED BY <1>1, <1>2 DEF ChildrenByEntry

\* An entry names its entity.
LEMMA EntryNamesEntity ==
  ASSUME NEW i, NEW j
  PROVE  ChildEntry(i).id = i /\ (ChildEntry(i) = ChildEntry(j) => i = j)
  BY DEF ChildEntry

\* Every step keeps the children those of the announced entities.
LEMMA StepKeepsChildren ==
  ASSUME StoreInv, HostsFixed, ChildrenMatchHosts, [Next]_vars
  PROVE  ChildrenMatchHosts'
<1>1. \A c : c \in children <=> \E i : EntryOf(c, i)
  BY ChildrenByEntity DEF ChildrenByEntry
<1>2. \A i : i \in Existing /\ i \in Existing' =>
                entities'[i].type = entities[i].type /\ ChildEntry(i)' = ChildEntry(i)
  BY EntitiesKeepHosts DEF ChildEntry
<1>3. SUFFICES \A c : c \in children' <=> \E i : EntryOf(c, i)'
  <2>1. ChildrenByEntry'
    BY <1>3 DEF ChildrenByEntry
  <2>. QED BY <2>1, ChildrenByEntity, PTL
<1>4. ASSUME children' = children, \A c, i : EntryOf(c, i)' <=> EntryOf(c, i)
      PROVE  \A c : c \in children' <=> \E i : EntryOf(c, i)'
  BY <1>1, <1>4
<1>5. ASSUME NEW t \in Tids, NEW type \in Types, NEW p \in Properties, AddEntity(t, type, p)
      PROVE  \A c : c \in children' <=> \E i : EntryOf(c, i)'
  <2>1. \A i : Pending(i, "new")' <=> (Pending(i, "new") \/ i = NewId)
    BY <1>5, NewEntityPending
  <2>2. Existing' = Existing /\ children' = children
    BY <1>5 DEF AddEntity, Existing
  <2>. QED BY <1>2, <1>4, <2>1, <2>2, NewIdIsNew DEF EntryOf
<1>6. ASSUME NEW t \in Tids, CommitNew(t)
      PROVE  \A c : c \in children' <=> \E i : EntryOf(c, i)'
  <2>1. \A i : Pending(i, "new")' <=> Pending(i, "new")
    BY <1>6, NewEntityPending
  <2>2. Pending(transactions[t].id, "new")
    BY <1>6, NewEntityStored DEF CommitNew, IsNew
  <2>3. Existing' = Existing \cup {transactions[t].id} /\ children' = children
    BY <1>6 DEF CommitNew, Existing
  <2>. QED BY <1>2, <1>4, <2>1, <2>2, <2>3 DEF EntryOf
<1>7. ASSUME NEW t \in Tids, ReleaseNew(t)
      PROVE  \A c : c \in children' <=> \E i : EntryOf(c, i)'
  <2>. DEFINE id == transactions[t].id
  <2>1. \A i : Pending(i, "new")' <=> (Pending(i, "new") /\ i # id)
    BY <1>7, NewEntityPending
  <2>2. id \in Existing /\ Pending(id, "new")
    BY <1>7, NewEntityStored DEF ReleaseNew, IsNew
  <2>3. /\ Existing' = Existing
        /\ children' = IF entities[id].type = "PLATFORM" THEN children ELSE children \cup {ChildEntry(id)}
    BY <1>7 DEF ReleaseNew, Existing
  <2>4. \A c, i : EntryOf(c, i)' <=> (EntryOf(c, i) \/ (i = id /\ entities[id].type # "PLATFORM" /\ c = ChildEntry(id)))
    BY <1>2, <2>1, <2>2, <2>3 DEF EntryOf
  <2>. HIDE DEF id
  <2>5. CASE entities[id].type = "PLATFORM"
    BY <1>1, <2>3, <2>4, <2>5
  <2>6. CASE entities[id].type # "PLATFORM"
    BY <1>1, <2>3, <2>4, <2>6
  <2>. QED BY <2>5, <2>6
<1>8. ASSUME NEW t \in Tids, CancelNew(t)
      PROVE  \A c : c \in children' <=> \E i : EntryOf(c, i)'
  <2>1. \A i : Pending(i, "new")' <=> (Pending(i, "new") /\ i # transactions[t].id)
    BY <1>8, NewEntityPending
  <2>2. transactions[t].id \notin Existing
    BY <1>8, NewEntityStored DEF CancelNew, IsNew
  <2>3. Existing' = Existing /\ children' = children
    BY <1>8 DEF CancelNew, Existing, indexes
  <2>. QED BY <1>2, <1>4, <2>1, <2>2, <2>3 DEF EntryOf
<1>9. ASSUME NEW ids, Forget(ids), \A i : Pending(i, "new")' <=> Pending(i, "new")
      PROVE  \A c : c \in children' <=> \E i : EntryOf(c, i)'
  <2>1. Existing' = Existing \ ids
    BY <1>9, ForgetKeepsEntities
  <2>2. \A c : c \in children' <=> c \in children /\ ~\E j \in ids : c = ChildEntry(j)
    BY <1>9 DEF Forget, ChildrenWithout
  <2>3. \A c, i : EntryOf(c, i)' <=> EntryOf(c, i) /\ i \notin ids
    BY <1>2, <1>9, <2>1 DEF EntryOf
  <2>4. \A c, i : EntryOf(c, i) => c = ChildEntry(i)
    BY DEF EntryOf
  <2>. QED BY <1>1, <2>2, <2>3, <2>4, EntryNamesEntity
<1>10. ASSUME NEW id \in Existing, RemoveEntity(id)
       PROVE  \A c : c \in children' <=> \E i : EntryOf(c, i)'
  BY <1>9, <1>10, OthersKeepPending DEF RemoveEntity
<1>11. ASSUME Clear
       PROVE  \A c : c \in children' <=> \E i : EntryOf(c, i)'
  BY <1>9, <1>11, OthersKeepPending DEF Clear
<1>12. ASSUME \/ \E t \in Tids :
                   \/ \E id \in Existing, name \in Names : OpenPrefs(t, id, name)
                   \/ CommitPrefs(t) \/ ReleasePrefs(t)
                   \/ \E id \in Existing, p \in Properties : OpenProperties(t, id, p)
                   \/ CommitProperties(t) \/ ReleaseProperties(t)
              \/ \E name \in Names : SetDefaultPrefs(name)
              \/ UNCHANGED vars
       PROVE  \A c : c \in children' <=> \E i : EntryOf(c, i)'
  <2>1. \A i : Pending(i, "new")' <=> Pending(i, "new")
    BY <1>12, OthersKeepPending
  <2>2. Existing' = Existing /\ children' = children
    BY <1>12 DEF OpenPrefs, CommitPrefs, ReleasePrefs, OpenProperties, CommitProperties, ReleaseProperties,
                 SetDefaultPrefs, Existing, vars, indexes
  <2>. QED BY <1>2, <1>4, <2>1, <2>2 DEF EntryOf
<1>. QED BY <1>5, <1>6, <1>7, <1>8, <1>10, <1>11, <1>12 DEF Next, ClientStep

\* Where clients do not rehost, the children found for a host are those whose
\* properties name it, however transactions overlap and hosts disappear.
THEOREM ChildrenAlwaysMatch == ~Happens("rehost") /\ Spec => []ChildrenMatchHosts
<1>1. Init => HostsFixed /\ ChildrenMatchHosts
  BY DEF Init, HostsFixed, ChildrenMatchHosts, Existing, IsNew, NoTransaction
<1>2. ASSUME ~Happens("rehost")
      PROVE  StoreInv /\ HostsFixed /\ ChildrenMatchHosts /\ [Next]_vars => (HostsFixed /\ ChildrenMatchHosts)'
  BY <1>2, StepKeepsHostsFixed, StepKeepsChildren
<1>3. CASE Happens("rehost")
  BY <1>3
<1>4. CASE ~Happens("rehost")
  BY <1>1, <1>2, <1>4, TypeCorrect, PTL DEF Spec
<1>. QED BY <1>3, <1>4

\* Entities nest at most three deep.
LEMMA ThreeLevels ==
  ASSUME NEW a, NEW b \in ChildTypes(a), NEW c \in ChildTypes(b)
  PROVE  ChildTypes(c) = {}
<1>1. ChildTypes(b) # {} => b \in {"PLATFORM", "BEAM"}
  BY DEF ChildTypes
<1>2. b \in {"BEAM", "LASER", "PROJECTOR", "LOB_GROUP", "CUSTOM_RENDERING", "GATE"}
  BY DEF ChildTypes
<1>3. b = "BEAM"
  BY <1>1, <1>2
<1>4. c \in {"GATE", "PROJECTOR"}
  BY <1>3 DEF ChildTypes
<1>. QED BY <1>4 DEF ChildTypes

\* The entities removeEntity finds under a host.
LEMMA KidsOfHost ==
  ASSUME ChildrenMatchHosts, NEW h, NEW i
  PROVE  i \in Kids(h) <=>
           /\ i \in Existing /\ entities[i].type # "PLATFORM" /\ ~Pending(i, "new")
           /\ entities[i].host = h /\ CanHost(h, entities[i].type)
<1>1. \A c : c \in children <=> \E j : EntryOf(c, j)
  BY ChildrenByEntity DEF ChildrenByEntry
<1>2. i \in Kids(h) <=>
        \E c \in children : CanHost(c.host, c.type) /\ c.host = h /\ c.id = i /\ i \in Existing
  BY DEF Kids
<1>3. \A c, j : EntryOf(c, j) => c.id = j /\ c.host = entities[j].host /\ c.type = entities[j].type
  BY DEF EntryOf, ChildEntry
<1>4. ASSUME NEW c \in children, CanHost(c.host, c.type), c.host = h, c.id = i
      PROVE  EntryOf(c, i) /\ entities[i].host = h /\ CanHost(h, entities[i].type)
  BY <1>1, <1>3, <1>4
<1>5. ASSUME i \in Existing, entities[i].type # "PLATFORM", ~Pending(i, "new"),
             entities[i].host = h, CanHost(h, entities[i].type)
      PROVE  i \in Kids(h)
  <2>1. EntryOf(ChildEntry(i), i)
    BY <1>5 DEF EntryOf
  <2>. QED BY <1>1, <1>2, <1>3, <1>5, <2>1
<1>. QED BY <1>2, <1>4, <1>5 DEF EntryOf

\* removeEntity takes everything that is attached to what it removes: three
\* levels are enough, and no announced child of the removed ones stays.
LEMMA DoomedIsClosed ==
  ASSUME ChildrenMatchHosts, NoOrphans, NEW id \in Existing,
         NEW i \in Existing, entities[i].type # "PLATFORM", ~Pending(i, "new"),
         entities[i].host \in Doomed(id)
  PROVE  i \in Doomed(id)
<1>. DEFINE h == entities[i].host
<1>1. CanHost(h, entities[i].type)
  BY DEF NoOrphans
<1>2. i \in Kids(h)
  BY <1>1, KidsOfHost
<1>3. CASE h = id \/ h \in Kids(id)
  BY <1>2, <1>3 DEF Doomed
<1>4. ASSUME NEW kid \in Kids(id), h \in Kids(kid)
      PROVE  FALSE
  <2>1. /\ entities[kid].type \in ChildTypes(entities[id].type)
        /\ entities[h].type \in ChildTypes(entities[kid].type)
    BY <1>4, KidsOfHost DEF CanHost
  <2>2. ChildTypes(entities[h].type) = {}
    BY <2>1, ThreeLevels
  <2>. QED BY <1>1, <2>2 DEF CanHost
<1>5. h \in {id} \cup Kids(id) \cup UNION {Kids(kid) : kid \in Kids(id)}
  BY DEF Doomed
<1>. QED BY <1>3, <1>4, <1>5

\* Every step keeps the hosts in the store.
LEMMA StepKeepsHosts ==
  ASSUME ~Happens("orphan"), ~Happens("late child"),
         StoreInv, HostsInv, [Next]_vars
  PROVE  NoOrphans'
<1>. USE DEF HostsInv
<1>1. ASSUME NEW t \in Tids, CommitNew(t)
      PROVE  NoOrphans'
  <2>. DEFINE new == transactions[t]
  <2>1. new.id \notin Existing /\ Existing' = Existing \cup {new.id}
    BY <1>1, NewEntityStored DEF CommitNew, IsNew, Existing
  <2>2. \A i \in Existing : entities'[i] = entities[i]
    BY <1>1 DEF CommitNew
  <2>3. entities'[new.id].type = new.type /\ entities'[new.id].host = new.properties.host
    BY <1>1, <2>1 DEF CommitNew
  <2>4. new.type # "PLATFORM" => CanHost(new.properties.host, new.type)
    BY <1>1 DEF CommitNew, HostsFixed, IsNew
  <2>5. \A h, type : CanHost(h, type) => CanHost(h, type)'
    BY <2>1, <2>2 DEF CanHost
  <2>. QED BY <2>1, <2>2, <2>3, <2>4, <2>5 DEF NoOrphans
<1>2. ASSUME NEW id \in Existing, RemoveEntity(id)
      PROVE  NoOrphans'
  <2>1. Existing' = Existing \ Doomed(id) /\ \A i \in Existing' : entities'[i] = entities[i]
    BY <1>2, ForgetKeepsEntities DEF RemoveEntity
  <2>2. SUFFICES ASSUME NEW i \in Existing', entities[i].type # "PLATFORM"
                 PROVE  entities[i].host \notin Doomed(id)
    BY <2>1, <2>2 DEF NoOrphans, CanHost
  <2>3. i \in Existing /\ i \notin Doomed(id)
    BY <2>1
  <2>4. CASE ~Pending(i, "new")
    BY <2>2, <2>3, <2>4, DoomedIsClosed
  <2>5. CASE Pending(i, "new")
    <3>1. PICK t \in Tids : IsNew(t) /\ transactions[t].id = i
      BY <2>5, PendingNew
    <3>2. transactions[t].committed
      BY <2>3, <3>1, NewEntityStored
    <3>3. entities[i].host = transactions[t].properties.host
      BY <3>1, <3>2 DEF HostsFixed
    <3>4. HostsAnnounced(Doomed(id))
      BY <1>2 DEF RemoveEntity
    <3>. QED BY <3>1, <3>2, <3>3, <3>4 DEF HostsAnnounced, IsNew
  <2>. QED BY <2>4, <2>5
<1>3. ASSUME Clear
      PROVE  NoOrphans'
  BY <1>3, ForgetKeepsEntities DEF Clear, NoOrphans
<1>4. ASSUME Existing' = Existing
      PROVE  NoOrphans'
  BY <1>4, EntitiesKeepHosts, ZenonT(90) DEF NoOrphans, CanHost
<1>5. ASSUME \/ \E t \in Tids :
                  \/ \E type \in Types, p \in Properties : AddEntity(t, type, p)
                  \/ ReleaseNew(t) \/ CancelNew(t)
                  \/ \E id \in Existing, name \in Names : OpenPrefs(t, id, name)
                  \/ CommitPrefs(t) \/ ReleasePrefs(t)
                  \/ \E id \in Existing, p \in Properties : OpenProperties(t, id, p)
                  \/ CommitProperties(t) \/ ReleaseProperties(t)
             \/ \E name \in Names : SetDefaultPrefs(name)
             \/ UNCHANGED vars
      PROVE  Existing' = Existing
  BY <1>5 DEF AddEntity, ReleaseNew, CancelNew, OpenPrefs, CommitPrefs, ReleasePrefs, OpenProperties,
              CommitProperties, ReleaseProperties, SetDefaultPrefs, vars, Existing
<1>. QED BY <1>1, <1>2, <1>3, <1>4, <1>5 DEF Next, ClientStep

\* "also delete everything attached to the platform": where clients keep to
\* the order (a host is not removed before its new children are announced, a
\* child is not committed after its host is gone, and no entity is rehosted),
\* nothing in the store is ever attached to an entity that is gone.
THEOREM StoreAlwaysWellFormed ==
  ~Happens("rehost") /\ ~Happens("orphan") /\ ~Happens("late child") /\ Spec => []WellFormed
<1>. DEFINE Orderly == ~Happens("rehost") /\ ~Happens("orphan") /\ ~Happens("late child")
<1>1. Init => HostsInv
  BY DEF Init, HostsInv, HostsFixed, ChildrenMatchHosts, NoOrphans, Existing, IsNew, NoTransaction
<1>2. ASSUME Orderly
      PROVE  StoreInv /\ HostsInv /\ [Next]_vars => HostsInv'
  BY <1>2, StepKeepsHostsFixed, StepKeepsChildren, StepKeepsHosts DEF HostsInv
<1>3. StoreInv /\ HostsInv => WellFormed
  BY DEF StoreInv, HostsInv, WellFormed
<1>. HIDE DEF Orderly
<1>4. CASE Orderly
  BY <1>1, <1>2, <1>3, <1>4, TypeCorrect, PTL DEF Spec
<1>5. CASE ~Orderly
  BY <1>5 DEF Orderly
<1>. QED BY <1>4, <1>5

-----------------------------------------------------------------------------
(* Names                                                                   *)

\* The names of an entity depend on its own entries only.
LEMMA NamedKept ==
  ASSUME NEW i, \A n : n.id = i => (n \in names' <=> n \in names)
  PROVE  \A name : Named(i, name)' <=> Named(i, name)
<1>1. \A name : [name |-> name, id |-> i].id = i
  OBVIOUS
<1>. QED BY <1>1 DEF Named, NamedOnly

\* A new entity is found under the default name from the start.
LEMMA NewEntityKeepsNames ==
  ASSUME ~Happens("cancel"), StoreInv, NamesInv, NEW t \in Tids,
         \/ \E type \in Types, p \in Properties : AddEntity(t, type, p)
         \/ CommitNew(t) \/ ReleaseNew(t) \/ CancelNew(t)
  PROVE  NamesInv'
<1>. USE DEF NamesInv
<1>1. ASSUME NEW type \in Types, NEW p \in Properties, AddEntity(t, type, p)
      PROVE  NamesInv'
  <2>1. \A u \in Tids : transactions'[u] =
          IF u = t THEN [kind |-> "new", id |-> NewId, committed |-> FALSE, type |-> type, properties |-> p]
          ELSE transactions[u]
    BY <1>1 DEF AddEntity, Begin, StoreInv, TypeOK
  <2>2. /\ Existing' = Existing /\ entities' = entities /\ defaultName' = defaultName
        /\ names' = names \cup {[name |-> defaultName, id |-> NewId]}
    BY <1>1 DEF AddEntity, Existing
  <2>3. \A i : Pending(i, "new")' <=> (Pending(i, "new") \/ i = NewId)
    BY <1>1, NewEntityPending
  <2>4. \A u \in Tids : ~IsNone(u) => transactions[u].id # NewId
    <3>1. \A u \in Tids : IsNew(u) => transactions[u].id # NewId
      BY NewIdIsNew, PendingNew
    <3>2. \A u \in Tids : ~IsNone(u) => IsNew(u) \/ transactions[u].kind \in {"prefs", "properties"}
      BY TransactionFields DEF StoreInv, IsNone, IsNew
    <3>. QED BY <3>1, <3>2, NewIdIsNew DEF OnePerEntity
  <2>5. \A i : i # NewId => \A name : Named(i, name)' <=> Named(i, name)
    BY <2>2, NamedKept
  <2>6. \A i, name : i = NewId /\ name = defaultName => Named(i, name)'
    <3>1. \A n \in names : n.id # NewId
      BY NewIdIsNew DEF NamesLead
    <3>. QED BY <2>2, <3>1 DEF Named, NamedOnly
  <2>7. IsNone(t)
    BY <1>1 DEF AddEntity
  <2>8. OnePerEntity'
    BY <2>1, <2>2, <2>4 DEF OnePerEntity, IsNone
  <2>9. NewNamed'
    BY <2>1, <2>2, <2>4, <2>5, <2>6 DEF NewNamed, IsNew, IsNone
  <2>10. \A i \in Existing, u \in Tids : i # NewId /\ (PrefsCommitted(i, u)' <=> PrefsCommitted(i, u))
    BY <2>1, <2>7, NewIdIsNew DEF PrefsCommitted, IsNone
  <2>11. OldNamed'
    BY <2>1, <2>2, <2>5, <2>10 DEF OldNamed, PrefsCommitted
  <2>12. StoreNamed'
    BY <2>2, <2>5, <2>10 DEF StoreNamed
  <2>13. NamesLead'
    BY <2>2, <2>3 DEF NamesLead
  <2>. QED BY <2>8, <2>9, <2>11, <2>12, <2>13
<1>2. CASE CommitNew(t)
  <2>. DEFINE id == transactions[t].id
  <2>1. transactions[t] \in
          [kind : {"new"}, id : Ids, committed : BOOLEAN, type : Types, properties : Properties]
    BY <1>2, TransactionFields DEF CommitNew, IsNew, StoreInv
  <2>2. \A u \in Tids : transactions'[u] =
          IF u = t THEN [transactions[t] EXCEPT !.committed = TRUE] ELSE transactions[u]
    BY <1>2 DEF CommitNew, Committed, StoreInv, TypeOK
  <2>3. id \notin Existing
    BY <1>2, NewEntityStored DEF CommitNew, IsNew
  <2>4. /\ Existing' = Existing \cup {id} /\ names' = names /\ defaultName' = defaultName
        /\ \A i \in Existing : entities'[i] = entities[i]
        /\ entities'[id].name = defaultName
    BY <1>2, <2>3 DEF CommitNew, Existing
  <2>5. \A i : Pending(i, "new")' <=> Pending(i, "new")
    BY <1>2, NewEntityPending
  <2>6. \A i, name : Named(i, name)' <=> Named(i, name)
    BY <2>4, NamedKept
  <2>7. Named(id, defaultName)
    BY <1>2 DEF CommitNew, NewNamed, IsNew
  <2>8. \A u \in Tids : /\ transactions'[u].kind = transactions[u].kind
                        /\ transactions'[u].id = transactions[u].id
                        /\ u # t => transactions'[u] = transactions[u]
    BY <2>1, <2>2
  <2>9. \A i : \A u \in Tids : PrefsCommitted(i, u)' <=> PrefsCommitted(i, u)
    BY <2>1, <2>8 DEF PrefsCommitted
  <2>10. OnePerEntity'
    BY <2>4, <2>8 DEF OnePerEntity, IsNone
  <2>11. NewNamed'
    <3>1. transactions'[t].committed
      BY <2>1, <2>2
    <3>. QED BY <2>4, <2>6, <2>8, <3>1 DEF NewNamed, IsNew
  <2>12. \A u \in Tids : ~PrefsCommitted(id, u)
    BY <2>3 DEF PrefsCommitted, OnePerEntity
  <2>13. OldNamed'
    <3>1. SUFFICES ASSUME NEW u \in Tids, NEW i \in Existing', PrefsCommitted(i, u)
                   PROVE  Named(i, transactions'[u].oldName) /\ entities'[i].name = transactions'[u].name
      BY <2>6, <2>9 DEF OldNamed
    <3>2. i \in Existing /\ transactions'[u] = transactions[u]
      BY <2>1, <2>4, <2>8, <2>12, <3>1 DEF PrefsCommitted
    <3>. QED BY <2>4, <3>1, <3>2 DEF OldNamed
  <2>14. StoreNamed'
    BY <2>4, <2>6, <2>7, <2>9 DEF StoreNamed
  <2>15. NamesLead'
    BY <2>4, <2>5 DEF NamesLead
  <2>. QED BY <2>10, <2>11, <2>13, <2>14, <2>15
<1>3. CASE ReleaseNew(t)
  <2>1. \A u \in Tids : transactions'[u] = IF u = t THEN NoTransaction ELSE transactions[u]
    BY <1>3 DEF ReleaseNew, End, StoreInv, TypeOK
  <2>2. UNCHANGED <<entities, names, defaultName>> /\ Existing' = Existing
    BY <1>3 DEF ReleaseNew, Existing
  <2>3. \A i : Pending(i, "new")' <=> (Pending(i, "new") /\ i # transactions[t].id)
    BY <1>3, NewEntityPending
  <2>4. transactions[t].id \in Existing /\ transactions[t].kind = "new"
    BY <1>3, NewEntityStored DEF ReleaseNew, IsNew
  <2>5. \A i, name : Named(i, name)' <=> Named(i, name)
    BY <2>2, NamedKept
  <2>6. \A i : \A u \in Tids : PrefsCommitted(i, u)' <=> PrefsCommitted(i, u)
    BY <2>1, <2>4 DEF PrefsCommitted, NoTransaction
  <2>7. OnePerEntity' /\ NewNamed' /\ NamesLead'
    BY <2>1, <2>2, <2>3, <2>4, <2>5 DEF OnePerEntity, NewNamed, NamesLead, IsNone, IsNew, NoTransaction
  <2>8. OldNamed' /\ StoreNamed'
    BY <2>1, <2>2, <2>5, <2>6, <2>4 DEF OldNamed, StoreNamed, PrefsCommitted
  <2>. QED BY <2>7, <2>8
<1>4. CASE CancelNew(t)
  BY <1>4 DEF CancelNew
<1>. QED BY <1>1, <1>2, <1>3, <1>4

\* A transaction is opened on an entity that has none, or one that changed no
\* name is released.
LEMMA OtherChangesKeepNames ==
  ASSUME ~Happens("share"), StoreInv, NamesInv, NEW t \in Tids,
         \/ \E id \in Existing, name \in Names : OpenPrefs(t, id, name)
         \/ \E id \in Existing, p \in Properties : OpenProperties(t, id, p)
         \/ CommitProperties(t) \/ ReleaseProperties(t)
  PROVE  NamesInv'
<1>. USE DEF NamesInv
<1>1. \A i : Pending(i, "new")' <=> Pending(i, "new")
  BY OthersKeepPending
<1>2. UNCHANGED <<names, defaultName>> /\ Existing' = Existing
  BY DEF OpenPrefs, OpenProperties, CommitProperties, ReleaseProperties, Existing, indexes
<1>3. \A i, name : Named(i, name)' <=> Named(i, name)
  BY <1>2, NamedKept
<1>4. \A i \in Existing : entities'[i].name = entities[i].name
  <2>1. \A i \in Existing : entities[i] \in
           [type : Types, host : Ids \cup {NoHost}, orig : OriginalIds, name : Names]
    BY DEF StoreInv, TypeOK
  <2>2. CASE CommitProperties(t)
    BY <2>1, <2>2 DEF CommitProperties, Existing
  <2>3. CASE ~CommitProperties(t)
    BY <2>3 DEF OpenPrefs, OpenProperties, ReleaseProperties
  <2>. QED BY <2>2, <2>3
<1>. DEFINE Harmless ==
      /\ \A u \in Tids : u # t => transactions'[u] = transactions[u]
      /\ transactions[t].kind \in {"none", "properties"}
      /\ transactions'[t].kind \in {"none", "prefs", "properties"}
      /\ transactions'[t].kind # "none" => transactions'[t].id \in Existing
      /\ transactions'[t].kind # "none" =>
           \A u \in Tids : u # t /\ ~IsNone(u) => transactions[u].id # transactions'[t].id
      /\ ~(transactions'[t].kind = "prefs" /\ transactions'[t].committed)
<1>5. Harmless
  <2>1. ASSUME NEW id \in Existing, NEW name \in Names, OpenPrefs(t, id, name)
        PROVE  Harmless
    BY <2>1 DEF OpenPrefs, Begin, Unshared, On, IsNone, PrefsCommitted, StoreInv, TypeOK
  <2>2. ASSUME NEW id \in Existing, NEW p \in Properties, OpenProperties(t, id, p)
        PROVE  Harmless
    BY <2>2 DEF OpenProperties, Begin, Unshared, On, IsNone, PrefsCommitted, StoreInv, TypeOK
  <2>3. CASE CommitProperties(t)
    <3>1. transactions[t] \in [kind : {"properties"}, id : Ids, committed : BOOLEAN, properties : Properties]
      BY <2>3, TransactionFields DEF CommitProperties, StoreInv
    <3>2. /\ transactions'[t] = [transactions[t] EXCEPT !.committed = TRUE]
          /\ \A u \in Tids : u # t => transactions'[u] = transactions[u]
      BY <2>3 DEF CommitProperties, Committed, StoreInv, TypeOK
    <3>3. /\ transactions'[t].kind = "properties" /\ transactions'[t].id = transactions[t].id
          /\ transactions[t].id \in Existing /\ transactions[t].kind = "properties"
      BY <2>3, <3>1, <3>2 DEF CommitProperties
    <3>. QED BY <3>2, <3>3 DEF OnePerEntity, PrefsCommitted, IsNone
  <2>4. CASE ReleaseProperties(t)
    BY <2>4 DEF ReleaseProperties, End, NoTransaction, IsNone, PrefsCommitted, StoreInv, TypeOK
  <2>. QED BY <2>1, <2>2, <2>3, <2>4
<1>6. \A i : \A u \in Tids : PrefsCommitted(i, u)' <=> PrefsCommitted(i, u)
  BY <1>5 DEF PrefsCommitted
<1>7. OnePerEntity'
  BY <1>2, <1>5 DEF OnePerEntity, IsNone
<1>8. NewNamed' /\ NamesLead'
  BY <1>1, <1>2, <1>3, <1>5 DEF NewNamed, NamesLead, IsNew
<1>9. OldNamed'
  <2>1. SUFFICES ASSUME NEW u \in Tids, NEW i \in Existing, PrefsCommitted(i, u)
                 PROVE  Named(i, transactions'[u].oldName) /\ entities'[i].name = transactions'[u].name
    BY <1>2, <1>3, <1>6 DEF OldNamed
  <2>2. transactions'[u] = transactions[u]
    BY <1>5, <2>1 DEF PrefsCommitted
  <2>. QED BY <1>4, <2>1, <2>2 DEF OldNamed
<1>10. StoreNamed'
  BY <1>2, <1>3, <1>4, <1>6 DEF StoreNamed
<1>. QED BY <1>7, <1>8, <1>9, <1>10

\* A committed change of the name leaves the cache at the old one until it is
\* released.
LEMMA PrefsKeepNames ==
  ASSUME ~Happens("share"), StoreInv, NamesInv, NEW t \in Tids,
         CommitPrefs(t) \/ ReleasePrefs(t)
  PROVE  NamesInv'
<1>. USE DEF NamesInv
<1>. DEFINE id == transactions[t].id
<1>1. \A i : Pending(i, "new")' <=> Pending(i, "new")
  BY OthersKeepPending
<1>2. /\ transactions[t] \in [kind : {"prefs"}, id : Ids, committed : BOOLEAN, name : Names, oldName : Names]
      /\ id \in Existing
  BY TransactionFields DEF CommitPrefs, ReleasePrefs, StoreInv, OnePerEntity
<1>3. \A u \in Tids : u # t => ~PrefsCommitted(id, u) /\ (~IsNone(u) => transactions[u].id # id)
  BY <1>2 DEF OnePerEntity, PrefsCommitted, IsNone
<1>4. CASE CommitPrefs(t)
  <2>1. /\ transactions'[t] = [transactions[t] EXCEPT !.committed = TRUE, !.oldName = entities[id].name]
        /\ \A u \in Tids : u # t => transactions'[u] = transactions[u]
        /\ ~transactions[t].committed
    BY <1>4 DEF CommitPrefs, StoreInv, TypeOK
  <2>2. /\ transactions'[t].kind = "prefs" /\ transactions'[t].id = id
        /\ transactions'[t].committed /\ transactions'[t].oldName = entities[id].name
        /\ transactions'[t].name = transactions[t].name
    BY <1>2, <2>1
  <2>3. UNCHANGED <<names, defaultName>> /\ Existing' = Existing
    BY <1>4 DEF CommitPrefs, Existing, indexes
  <2>4. \A i, name : Named(i, name)' <=> Named(i, name)
    BY <2>3, NamedKept
  <2>5. entities'[id].name = transactions[t].name /\ \A i \in Existing : i # id => entities'[i] = entities[i]
    <3>1. entities[id] \in [type : Types, host : Ids \cup {NoHost}, orig : OriginalIds, name : Names]
      BY <1>2 DEF StoreInv, TypeOK
    <3>. QED BY <1>2, <1>4, <3>1 DEF CommitPrefs, Existing
  <2>6. Named(id, entities[id].name)
    BY <1>2, <1>3, <2>1 DEF StoreNamed, PrefsCommitted
  <2>7. /\ \A i : \A u \in Tids : u # t => (PrefsCommitted(i, u)' <=> PrefsCommitted(i, u))
        /\ \A i : PrefsCommitted(i, t)' <=> i = id
        /\ \A i : ~PrefsCommitted(i, t)
    BY <2>1, <2>2 DEF PrefsCommitted
  <2>8. OnePerEntity'
    <3>1. \A u \in Tids : /\ transactions'[u].kind = transactions[u].kind
                          /\ transactions'[u].id = transactions[u].id
      BY <1>2, <2>1, <2>2
    <3>. QED BY <2>3, <3>1 DEF OnePerEntity, IsNone
  <2>9. NewNamed' /\ NamesLead'
    BY <1>1, <2>1, <2>2, <2>3, <2>4 DEF NewNamed, NamesLead, IsNew
  <2>10. OldNamed'
    <3>1. SUFFICES ASSUME NEW u \in Tids, NEW i \in Existing, PrefsCommitted(i, u)'
                   PROVE  Named(i, transactions'[u].oldName) /\ entities'[i].name = transactions'[u].name
      BY <2>3, <2>4 DEF OldNamed
    <3>2. CASE u = t
      BY <2>2, <2>5, <2>6, <2>7, <3>1, <3>2
    <3>3. CASE u # t
      BY <1>3, <2>1, <2>5, <2>7, <3>1, <3>3 DEF OldNamed
    <3>. QED BY <3>2, <3>3
  <2>11. StoreNamed'
    BY <2>3, <2>4, <2>5, <2>7 DEF StoreNamed
  <2>. QED BY <2>8, <2>9, <2>10, <2>11
<1>5. CASE ReleasePrefs(t)
  <2>. DEFINE change == transactions[t]
  <2>1. \A u \in Tids : transactions'[u] = IF u = t THEN NoTransaction ELSE transactions[u]
    BY <1>5 DEF ReleasePrefs, End, StoreInv, TypeOK
  <2>2. /\ UNCHANGED <<entities, defaultName>> /\ Existing' = Existing
        /\ names' = IF change.committed /\ change.oldName # change.name
                    THEN NameChange(change.name, change.oldName, change.id) ELSE names
    BY <1>5 DEF ReleasePrefs, Existing
  <2>3. /\ \A i : \A u \in Tids : u # t => (PrefsCommitted(i, u)' <=> PrefsCommitted(i, u))
        /\ \A i : ~PrefsCommitted(i, t)'
        /\ \A i : PrefsCommitted(i, t) <=> i = id /\ change.committed
    BY <1>2, <2>1 DEF PrefsCommitted, NoTransaction
  <2>4. change.committed => Named(id, change.oldName) /\ entities[id].name = change.name
    BY <1>2, <2>3 DEF OldNamed
  <2>5. \A i, name : i # id => (Named(i, name)' <=> Named(i, name))
    <3>1. \A n : n.id # id => (n \in names' <=> n \in names)
      BY <2>2 DEF NameChange
    <3>. QED BY <3>1, NamedKept
  <2>6. \A i, name : i = id /\ name = entities[i].name => Named(i, name)'
    <3>1. CASE change.committed /\ change.oldName # change.name
      <4>1. names' = (names \ {[name |-> change.oldName, id |-> id]}) \cup {[name |-> change.name, id |-> id]}
        BY <2>2, <2>4, <3>1 DEF NameChange, Named
      <4>2. \A n \in names : n.id = id => n = [name |-> change.oldName, id |-> id]
        <5>1. names \subseteq [name : Names, id : Ids]
          BY DEF StoreInv, TypeOK
        <5>. QED BY <2>4, <3>1, <5>1 DEF Named, NamedOnly
      <4>. QED BY <2>4, <3>1, <4>1, <4>2 DEF Named, NamedOnly
    <3>2. CASE ~(change.committed /\ change.oldName # change.name)
      <4>1. \A i, name : Named(i, name)' <=> Named(i, name)
        BY <2>2, <3>2, NamedKept
      <4>2. Named(id, entities[id].name)
        BY <1>2, <1>3, <2>3, <2>4, <3>2 DEF StoreNamed
      <4>. QED BY <4>1, <4>2
    <3>. QED BY <3>1, <3>2
  <2>7. OnePerEntity'
    BY <2>1, <2>2 DEF OnePerEntity, IsNone, NoTransaction
  <2>8. NewNamed'
    BY <1>3, <2>1, <2>2, <2>5 DEF NewNamed, IsNew, IsNone, NoTransaction
  <2>9. NamesLead'
    <3>1. \A n \in names' : n \in names \/ n.id = id
      BY <2>2 DEF NameChange
    <3>. QED BY <1>1, <1>2, <2>2, <3>1 DEF NamesLead
  <2>10. OldNamed'
    <3>1. SUFFICES ASSUME NEW u \in Tids, u # t, NEW i \in Existing, PrefsCommitted(i, u)
                   PROVE  /\ \A name : name = transactions'[u].oldName => Named(i, name)'
                          /\ entities'[i].name = transactions'[u].name
      BY <2>2, <2>3 DEF OldNamed
    <3>2. i # id /\ transactions'[u] = transactions[u]
      BY <1>3, <2>1, <3>1
    <3>. QED BY <2>2, <2>5, <3>1, <3>2 DEF OldNamed
  <2>11. StoreNamed'
    BY <1>2, <2>2, <2>3, <2>5, <2>6 DEF StoreNamed
  <2>. QED BY <2>7, <2>8, <2>9, <2>10, <2>11
<1>. QED BY <1>4, <1>5

\* Entities nobody has a transaction on are removed with all their names.
LEMMA ForgetKeepsNames ==
  ASSUME ~Happens("share"), StoreInv, NamesInv, NEW ids \in SUBSET Existing,
         Forget(ids), \A i \in ids : Unshared(i),
         UNCHANGED <<transactions, defaultName>>, \A i : Pending(i, "new")' <=> Pending(i, "new")
  PROVE  NamesInv'
<1>. USE DEF NamesInv
<1>1. Existing' = Existing \ ids /\ \A i \in Existing' : entities'[i] = entities[i]
  BY ForgetKeepsEntities
<1>2. \A t \in Tids : ~IsNone(t) => transactions[t].id \notin ids
  BY DEF Unshared, On
<1>3. \A i \in ids : Named(i, entities[i].name)
  BY <1>2 DEF StoreNamed, PrefsCommitted, IsNone
<1>4. \A n \in names' : n \in names /\ n.id \notin ids
  <2>1. \A n \in names : n.id \in ids => n = [name |-> entities[n.id].name, id |-> n.id]
    <3>1. names \subseteq [name : Names, id : Ids]
      BY DEF StoreInv, TypeOK
    <3>2. \A n \in names : n.id \in ids => n.name = entities[n.id].name
      BY <1>3 DEF Named, NamedOnly
    <3>3. \A n \in names : n = [name |-> n.name, id |-> n.id]
      BY <3>1
    <3>. QED BY <3>2, <3>3
  <2>. QED BY <2>1 DEF Forget, NamesWithout
<1>5. \A n \in names : n.id \notin ids => n \in names'
  BY DEF Forget, NamesWithout
<1>6. \A i, name : i \notin ids => (Named(i, name)' <=> Named(i, name))
  BY <1>4, <1>5, NamedKept
<1>7. \A i : \A t \in Tids : PrefsCommitted(i, t)' <=> PrefsCommitted(i, t)
  BY DEF PrefsCommitted
<1>8. OnePerEntity'
  BY <1>1, <1>2 DEF OnePerEntity, IsNone
<1>9. NewNamed'
  BY <1>2, <1>6 DEF NewNamed, IsNew, IsNone
<1>10. OldNamed' /\ StoreNamed'
  BY <1>1, <1>6, <1>7 DEF OldNamed, StoreNamed
<1>11. NamesLead'
  BY <1>1, <1>4 DEF NamesLead
<1>. QED BY <1>8, <1>9, <1>10, <1>11

\* Every step keeps the names those the cache was last told of.
LEMMA StepKeepsNames ==
  ASSUME ~Happens("share"), ~Happens("cancel"), ~Happens("default"),
         StoreInv, NamesInv, [Next]_vars
  PROVE  NamesInv'
<1>1. ASSUME NEW t \in Tids, ClientStep(t)
      PROVE  NamesInv'
  BY <1>1, NewEntityKeepsNames, OtherChangesKeepNames, PrefsKeepNames DEF ClientStep
<1>2. ASSUME NEW id \in Existing, RemoveEntity(id)
      PROVE  NamesInv'
  <2>1. Doomed(id) \subseteq Existing
    BY DEF Doomed, Kids
  <2>2. \A i : Pending(i, "new")' <=> Pending(i, "new")
    BY <1>2, OthersKeepPending
  <2>. QED BY <1>2, <2>1, <2>2, ForgetKeepsNames DEF RemoveEntity
<1>3. ASSUME Clear
      PROVE  NamesInv'
  <2>1. \A i : Pending(i, "new")' <=> Pending(i, "new")
    BY <1>3, OthersKeepPending
  <2>. QED BY <1>3, <2>1, ForgetKeepsNames DEF Clear
<1>4. ASSUME UNCHANGED <<entities, transactions, names>>,
             defaultName' = defaultName \/ \A t \in Tids : IsNew(t) => transactions[t].committed
      PROVE  NamesInv'
  <2>1. \A i, name : Named(i, name)' <=> Named(i, name)
    BY <1>4, NamedKept
  <2>2. /\ Existing' = Existing
        /\ \A i : Pending(i, "new")' <=> Pending(i, "new")
        /\ \A i : \A t \in Tids : PrefsCommitted(i, t)' <=> PrefsCommitted(i, t)
    BY <1>4 DEF Existing, Pending, On, IsNone, PrefsCommitted
  <2>3. OnePerEntity' /\ NamesLead'
    BY <1>4, <2>2 DEF NamesInv, OnePerEntity, NamesLead, IsNone
  <2>4. NewNamed'
    BY <1>4, <2>1 DEF NamesInv, NewNamed, IsNew
  <2>5. OldNamed' /\ StoreNamed'
    BY <1>4, <2>1, <2>2 DEF NamesInv, OldNamed, StoreNamed
  <2>. QED BY <2>3, <2>4, <2>5 DEF NamesInv
<1>5. ASSUME NEW name \in Names, SetDefaultPrefs(name)
      PROVE  NamesInv'
  BY <1>4, <1>5 DEF SetDefaultPrefs, indexes, IsNew
<1>6. ASSUME UNCHANGED vars
      PROVE  NamesInv'
  BY <1>4, <1>6 DEF vars, indexes
<1>. QED BY <1>1, <1>2, <1>3, <1>5, <1>6 DEF Next

\* Where an entity has one transaction at a time, new entities are committed
\* and the default name does not change under them, an entity is found under
\* its name and no other, and no name leads to an entity that is gone.
THEOREM NamesAlwaysMatch ==
  ~Happens("share") /\ ~Happens("cancel") /\ ~Happens("default") /\ Spec => []NamesMatchStore
<1>. DEFINE Careful == ~Happens("share") /\ ~Happens("cancel") /\ ~Happens("default")
<1>1. Init => NamesInv
  BY DEF Init, NamesInv, OnePerEntity, NewNamed, OldNamed, StoreNamed, NamesLead, PrefsCommitted,
         Existing, IsNew, IsNone, NoTransaction
<1>2. ASSUME Careful
      PROVE  StoreInv /\ NamesInv /\ [Next]_vars => NamesInv'
  BY <1>2, StepKeepsNames
<1>3. ASSUME NamesInv
      PROVE  NamesMatchStore
  <2>1. ASSUME NEW i \in Existing, ~Pending(i, "prefs")
        PROVE  {n.name : n \in {m \in names : m.id = i}} = {entities[i].name}
    <3>1. \A t \in Tids : ~PrefsCommitted(i, t)
      BY <2>1 DEF Pending, On, IsNone, PrefsCommitted
    <3>2. Named(i, entities[i].name)
      BY <1>3, <3>1 DEF NamesInv, StoreNamed
    <3>3. /\ [name |-> entities[i].name, id |-> i] \in names
          /\ \A n \in names : n.id = i => n.name = entities[i].name
      BY <3>2 DEF Named, NamedOnly
    <3>4. [name |-> entities[i].name, id |-> i].id = i /\ [name |-> entities[i].name, id |-> i].name = entities[i].name
      OBVIOUS
    <3>. QED BY <3>3, <3>4
  <2>. QED BY <1>3, <2>1 DEF NamesInv, NamesLead, NamesMatchStore
<1>. HIDE DEF Careful
<1>4. CASE Careful
  BY <1>1, <1>2, <1>3, <1>4, TypeCorrect, PTL DEF Spec
<1>5. CASE ~Careful
  BY <1>5 DEF Careful
<1>. QED BY <1>4, <1>5

=============================================================================
