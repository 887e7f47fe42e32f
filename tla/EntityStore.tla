----------------------------- MODULE EntityStore -----------------------------
(***************************************************************************)
(* The entities of the data store, the transactions that create and change *)
(* them, and the indexes MemoryDataStore keeps beside them: the name cache *)
(* (EntityNameCache), the host to children map (HostChildCache), the       *)
(* original ids (OriginalIdCache), the slice caches (SliceCacheObserver)   *)
(* and the map of generic and category slices.                             *)
(*                                                                         *)
(* The store changes when a transaction commits, the indexes follow when   *)
(* it is released and the listeners are called.  Only the name of the      *)
(* preferences and the host and original id of the properties matter here. *)
(* hasChanged_ is left to UpdateSlice, calls back into the store to        *)
(* ListenerDispatch.                                                       *)
(***************************************************************************)
EXTENDS Integers, FiniteSets

CONSTANTS
  Types,        \* the entity types in use
  Names,        \* the names entities may be given
  OriginalIds,  \* the original ids entities may be given
  MaxId,        \* bound: entities stop being added at this id
  Tids,         \* the transaction handles clients hold
  MayHappen     \* what clients do, see Happens

ASSUME TypesAssumption ==
  Types \subseteq {"PLATFORM", "BEAM", "GATE", "LASER", "PROJECTOR",
                   "LOB_GROUP", "CUSTOM_RENDERING"}
ASSUME MaxIdAssumption == MaxId \in Nat

VARIABLES
  entities,     \* platforms_, beams_, gates_, ...: id -> properties and name
  transactions, \* the transactions clients have not released yet
  names,        \* entityNameCache_: pairs of name and id
  children,     \* hostToChildren_: host, type and id of every child
  originals,    \* originalIdCache_: id -> original id
  cachedIds,    \* the ids SliceCacheObserver keeps caches for
  dataIds,      \* the ids in genericData_; 0 is the scenario itself
  defaultName,  \* the name in the default preferences
  baseId        \* the last id genUniqueId_() gave out

indexes == <<names, children, originals, cachedIds, dataIds>>
vars    == <<entities, transactions, indexes, defaultName, baseId>>

Ids         == 1 .. MaxId
NoHost      == 0
ScenarioId  == 0
Existing    == DOMAIN entities
Properties  == [host : Ids \cup {NoHost}, orig : OriginalIds]
Happens(what) == what \in MayHappen

-----------------------------------------------------------------------------
(* Entities and their hosts                                                *)

\* The types removeEntity looks for among the children of a removed entity
ChildTypes(type) ==
  CASE type = "PLATFORM" -> {"BEAM", "LASER", "PROJECTOR", "LOB_GROUP", "CUSTOM_RENDERING"}
    [] type = "BEAM"     -> {"GATE", "PROJECTOR"}
    [] OTHER             -> {}

CanHost(id, type) == id \in Existing /\ type \in ChildTypes(entities[id].type)

\* idListForHost_ over the types removed with the host
Kids(id) ==
  {c.id : c \in {d \in children : CanHost(d.host, d.type) /\ d.host = id}} \cap Existing

\* mutant: the gates of the beams of a platform are forgotten
DoomedOneLevel(id) == {id} \cup Kids(id)

\* removeEntity recurses over platform, beam, gate
Doomed(id) == {id} \cup Kids(id) \cup UNION {Kids(kid) : kid \in Kids(id)}

ChildEntry(id) == [host |-> entities[id].host, type |-> entities[id].type, id |-> id]

-----------------------------------------------------------------------------
(* Transactions: at most one per handle                                    *)

NoTransaction == [kind |-> "none"]
IsNone(t)  == transactions[t].kind = "none"
On(t, id)  == ~IsNone(t) /\ transactions[t].id = id

\* The client has nothing open, or lets transactions overlap.
Free       == Happens("overlap") \/ \A t \in Tids : IsNone(t)
\* Nobody else has a transaction on the entity, or clients share entities.
Unshared(id) == Happens("share") \/ \A t \in Tids : ~On(t, id)

\* No new entity of the set is committed but not announced yet: releasing its
\* transaction would read the deleted entry.
Announced(ids) ==
  \A t \in Tids : transactions[t].kind = "new" /\ transactions[t].committed => transactions[t].id \notin ids

\* None of them is the host of such an entity, or clients orphan children.
HostsAnnounced(ids) ==
  \A t \in Tids : transactions[t].kind = "new" /\ transactions[t].committed =>
    transactions[t].properties.host \notin ids \/ Happens("orphan")

Begin(t, transaction) == transactions' = [transactions EXCEPT ![t] = transaction]
Committed(t)          == transactions' = [transactions EXCEPT ![t].committed = TRUE]
End(t)                == transactions' = [transactions EXCEPT ![t] = NoTransaction]

-----------------------------------------------------------------------------
(* New entities                                                            *)

\* genUniqueId_()
NewId == baseId + 1

\* addPlatform, addBeam, ...: the name is entered before the commit
AddEntity(t, type, properties) ==
  /\ IsNone(t) /\ Free
  /\ baseId < MaxId
  /\ IF type = "PLATFORM" THEN properties.host = NoHost ELSE CanHost(properties.host, type)
  /\ baseId' = baseId + 1
  /\ names' = names \cup {[name |-> defaultName, id |-> NewId]}
  /\ Begin(t, [kind |-> "new", id |-> NewId, committed |-> FALSE,
               type |-> type, properties |-> properties])
  /\ UNCHANGED <<entities, children, originals, cachedIds, dataIds, defaultName>>

\* NewEntryTransactionImpl::commit
CommitNew(t) ==
  LET new == transactions[t]
  IN  /\ new.kind = "new" /\ ~new.committed
      /\ new.properties.host = NoHost \/ CanHost(new.properties.host, new.type) \/ Happens("late child")
      /\ entities' = [i \in Existing \cup {new.id} |->
                        IF i \in Existing THEN entities[i]
                        ELSE [type |-> new.type, host |-> new.properties.host,
                              orig |-> new.properties.orig, name |-> defaultName]]
      /\ dataIds' = dataIds \cup {new.id}
      /\ Committed(t)
      /\ UNCHANGED <<names, children, originals, cachedIds, defaultName, baseId>>

\* The original id cache on onAddEntity and onPropertiesChange
Recorded(ids) ==
  [i \in DOMAIN originals \cup ids |-> IF i \in ids THEN entities[i].orig ELSE originals[i]]

\* NewEntryTransactionImpl::release: onAddEntity of the three caches
ReleaseNew(t) ==
  LET id == transactions[t].id
  IN  /\ transactions[t].kind = "new" /\ transactions[t].committed
      /\ children' = IF entities[id].type = "PLATFORM" THEN children ELSE children \cup {ChildEntry(id)}
      /\ originals' = Recorded({id})
      /\ cachedIds' = cachedIds \cup {id}
      /\ End(t)
      /\ UNCHANGED <<entities, names, dataIds, defaultName, baseId>>

\* release of an uncommitted transaction deletes the entry, not its name
CancelNew(t) ==
  /\ Happens("cancel")
  /\ transactions[t].kind = "new" /\ ~transactions[t].committed
  /\ End(t)
  /\ UNCHANGED <<entities, indexes, defaultName, baseId>>

-----------------------------------------------------------------------------
(* Preferences and properties                                              *)

\* mutable_preferences and the edit of the private copy
OpenPrefs(t, id, name) ==
  /\ IsNone(t) /\ Free /\ Unshared(id)
  /\ Begin(t, [kind |-> "prefs", id |-> id, committed |-> FALSE, name |-> name, oldName |-> name])
  /\ UNCHANGED <<entities, indexes, defaultName, baseId>>

\* MutableSettingsTransactionImpl::commit of a copy that differs
CommitPrefs(t) ==
  LET change == transactions[t]
  IN  /\ change.kind = "prefs" /\ ~change.committed
      /\ change.id \in Existing /\ entities[change.id].name # change.name
      /\ transactions' = [transactions EXCEPT ![t].committed = TRUE,
                                              ![t].oldName   = entities[change.id].name]
      /\ entities' = [entities EXCEPT ![change.id].name = change.name]
      /\ UNCHANGED <<indexes, defaultName, baseId>>

\* mutant: the new name is added beside the old one
NameAdded(newName, oldName, id) == names \cup {[name |-> newName, id |-> id]}

\* EntityNameCache::nameChange; without the old entry only an assertion fails
NameChange(newName, oldName, id) ==
  IF [name |-> oldName, id |-> id] \in names
  THEN (names \ {[name |-> oldName, id |-> id]}) \cup {[name |-> newName, id |-> id]}
  ELSE names

\* MutableSettingsTransactionImpl::release
ReleasePrefs(t) ==
  LET change == transactions[t]
  IN  /\ change.kind = "prefs"
      /\ names' = IF change.committed /\ change.oldName # change.name
                  THEN NameChange(change.name, change.oldName, change.id) ELSE names
      /\ End(t)
      /\ UNCHANGED <<entities, children, originals, cachedIds, dataIds, defaultName, baseId>>

\* mutable_properties and the edit of the private copy; hosts change only
\* where clients rehost
OpenProperties(t, id, properties) ==
  /\ IsNone(t) /\ Free /\ Unshared(id)
  /\ \/ properties.host = entities[id].host
     \/ Happens("rehost") /\ CanHost(properties.host, entities[id].type)
  /\ Begin(t, [kind |-> "properties", id |-> id, committed |-> FALSE, properties |-> properties])
  /\ UNCHANGED <<entities, indexes, defaultName, baseId>>

\* MutablePropertyTransactionImpl::commit of a copy that differs
CommitProperties(t) ==
  LET change == transactions[t]
  IN  /\ change.kind = "properties" /\ ~change.committed
      /\ change.id \in Existing
      /\ change.properties # [host |-> entities[change.id].host, orig |-> entities[change.id].orig]
      /\ entities' = [entities EXCEPT ![change.id].host = change.properties.host,
                                      ![change.id].orig = change.properties.orig]
      /\ Committed(t)
      /\ UNCHANGED <<indexes, defaultName, baseId>>

\* mutant: takes the original id of the transaction, not that of the store
OriginalsOf(change) ==
  IF change.committed /\ change.id \in DOMAIN originals
  THEN [originals EXCEPT ![change.id] = change.properties.orig] ELSE originals

\* OriginalIdCache::onPropertiesChange reads the store, not the transaction
OriginalsAfter(change) ==
  IF change.committed /\ change.id \in DOMAIN originals /\ change.id \in Existing
  THEN Recorded({change.id}) ELSE originals

\* MutablePropertyTransactionImpl::release
ReleaseProperties(t) ==
  /\ transactions[t].kind = "properties"
  /\ originals' = OriginalsAfter(transactions[t])
  /\ End(t)
  /\ UNCHANGED <<entities, names, children, cachedIds, dataIds, defaultName, baseId>>

-----------------------------------------------------------------------------
(* Removal                                                                 *)

\* mutants: an index keeps the removed entities
ChildrenKept(ids) == children
CachedKept(ids) == cachedIds

\* The names and the children are looked up under the current name and host.
NamesWithout(ids) == names \ {[name |-> entities[i].name, id |-> i] : i \in ids}
ChildrenWithout(ids) == children \ {ChildEntry(i) : i \in ids}

OriginalsWithout(ids) == [i \in DOMAIN originals \ ids |-> originals[i]]
CachedWithout(ids) == cachedIds \ ids

Forget(ids) ==
  /\ entities' = [i \in Existing \ ids |-> entities[i]]
  /\ names'    = NamesWithout(ids)
  /\ children' = ChildrenWithout(ids)

\* removeEntity
RemoveEntity(id) ==
  LET doomed == Doomed(id)
  IN  /\ Free
      /\ Announced(doomed) /\ HostsAnnounced(doomed)
      /\ \A i \in doomed : Unshared(i)
      /\ Forget(doomed)
      /\ originals' = OriginalsWithout(doomed)
      /\ cachedIds' = CachedWithout(doomed)
      /\ dataIds'   = dataIds \ doomed
      /\ UNCHANGED <<transactions, defaultName, baseId>>

\* clear: onScenarioDelete, then clearMemory_ removes the entities one by one
\* and drops the slice of the scenario
Clear ==
  /\ Free
  /\ Announced(Existing)
  /\ \A i \in Existing : Unshared(i)
  /\ Forget(Existing)
  /\ originals' = [i \in {} |-> 0]
  /\ cachedIds' = {}
  /\ dataIds'   = {}
  /\ UNCHANGED <<transactions, defaultName, baseId>>

\* setDefaultPrefs, not while an entity waits for its commit unless clients do that
SetDefaultPrefs(name) ==
  /\ Free
  /\ Happens("default") \/ \A t \in Tids : transactions[t].kind = "new" => transactions[t].committed
  /\ defaultName' = name
  /\ UNCHANGED <<entities, transactions, indexes, baseId>>

Init ==
  /\ entities = [i \in {} |-> 0]
  /\ transactions = [t \in Tids |-> NoTransaction]
  /\ names = {} /\ children = {} /\ cachedIds = {} /\ dataIds = {ScenarioId}
  /\ originals = [i \in {} |-> 0]
  /\ defaultName \in Names
  /\ baseId = 0

ClientStep(t) ==
  \/ \E type \in Types, p \in Properties : AddEntity(t, type, p)
  \/ CommitNew(t) \/ ReleaseNew(t) \/ CancelNew(t)
  \/ \E id \in Existing, name \in Names : OpenPrefs(t, id, name)
  \/ CommitPrefs(t) \/ ReleasePrefs(t)
  \/ \E id \in Existing, p \in Properties : OpenProperties(t, id, p)
  \/ CommitProperties(t) \/ ReleaseProperties(t)

Next ==
  \/ \E t \in Tids : ClientStep(t)
  \/ \E id \in Existing : RemoveEntity(id)
  \/ Clear
  \/ \E name \in Names : SetDefaultPrefs(name)

Spec == Init /\ [][Next]_vars
-----------------------------------------------------------------------------
(* Properties                                                              *)

Transactions ==
  {NoTransaction}
  \cup [kind : {"new"}, id : Ids, committed : BOOLEAN, type : Types, properties : Properties]
  \cup [kind : {"prefs"}, id : Ids, committed : BOOLEAN, name : Names, oldName : Names]
  \cup [kind : {"properties"}, id : Ids, committed : BOOLEAN, properties : Properties]

\* Every variable holds a value the code can give it.
TypeOK ==
  /\ Existing \subseteq 1 .. baseId
  /\ \A i \in Existing :
        entities[i] \in [type : Types, host : Ids \cup {NoHost}, orig : OriginalIds, name : Names]
  /\ transactions \in [Tids -> Transactions]
  /\ names \subseteq [name : Names, id : Ids]
  /\ children \subseteq [host : Ids \cup {NoHost}, type : Types, id : Ids]
  /\ DOMAIN originals \subseteq Ids /\ \A i \in DOMAIN originals : originals[i] \in OriginalIds
  /\ cachedIds \subseteq Ids
  /\ dataIds \subseteq Ids \cup {ScenarioId}
  /\ defaultName \in Names
  /\ baseId \in 0 .. MaxId

\* Transactions on the entity that the indexes have not been told of yet
Pending(id, kind) == \E t \in Tids : On(t, id) /\ transactions[t].kind = kind

\* An entity is found under its name and under no other; a name that leads
\* nowhere belongs to an entity that is being created.
NamesMatchStore ==
  /\ \A i \in Existing : ~Pending(i, "prefs") =>
        {n.name : n \in {m \in names : m.id = i}} = {entities[i].name}
  /\ \A n \in names : n.id \in Existing \/ Pending(n.id, "new")

\* The children found for a host are those whose properties name it.
ChildrenMatchHosts ==
  children = {ChildEntry(i) : i \in {j \in Existing : entities[j].type # "PLATFORM" /\ ~Pending(j, "new")}}

\* "also delete everything attached to the platform": nothing in the store is
\* attached to an entity that is gone.
NoOrphans ==
  \A i \in Existing : entities[i].type # "PLATFORM" => CanHost(entities[i].host, entities[i].type)

\* The store is one the code can give, without orphans.
WellFormed == TypeOK /\ NoOrphans

\* Once its transactions are released, in whatever order, an entity is found
\* under its original id, and only entities of the store are.
OriginalIdsMatch ==
  /\ DOMAIN originals \subseteq Existing
  /\ \A i \in Existing :
        ~Pending(i, "new") /\ ~Pending(i, "properties") =>
          i \in DOMAIN originals /\ originals[i] = entities[i].orig

\* The slice caches, which every update walks, are those of the announced
\* entities, and the generic and category slices those of the committed ones.
CachesMatchStore ==
  /\ cachedIds = {i \in Existing : ~Pending(i, "new")}
  /\ dataIds \ {ScenarioId} = Existing
=============================================================================
