---------------------------- MODULE ContainerStore ----------------------------
(***************************************************************************)
(* MHO_ContainerStore: owns the data objects of a pass.  Two indexes lead  *)
(* from the ids of an object to its address and back; short names lead to  *)
(* object ids.  The four tables are kept in step by hand in every          *)
(* operation; lookups dereference what they find in them.                  *)
(***************************************************************************)
EXTENDS FiniteSets

CONSTANTS
  Object,  \* addresses of objects (MHO_Serializable*)
  Type,    \* type uuids
  Id,      \* object uuids
  Name     \* non-empty short names

ASSUME NameAssumption == "" \notin Name

\* <type uuid, object uuid>
Key == [type : Type, id : Id]

VARIABLES
  idsToObjects,     \* fIdsToObjects
  objectsToIds,     \* fObjectsToIds: the objects owned by the store
  shortNameToIds,   \* fShortNameToIds
  shortNameSet      \* fShortNameSet

indexes == <<idsToObjects, objectsToIds>>
names   == <<shortNameToIds, shortNameSet>>
storeVars == <<idsToObjects, objectsToIds, shortNameToIds, shortNameSet>>

\* assignment to, and removal of, an entry of a std::map
Put(f, k, v) == [x \in DOMAIN f \cup {k} |-> IF x = k THEN v ELSE f[x]]
Erase(f, k)  == [x \in DOMAIN f \ {k} |-> f[x]]

StoreTypeOK ==
  /\ DOMAIN idsToObjects \subseteq Key
  /\ \A k \in DOMAIN idsToObjects : idsToObjects[k] \in Object
  /\ DOMAIN objectsToIds \subseteq Object
  /\ \A p \in DOMAIN objectsToIds : objectsToIds[p] \in Key
  /\ DOMAIN shortNameToIds \subseteq Name
  /\ \A n \in DOMAIN shortNameToIds : shortNameToIds[n] \in Id
  /\ shortNameSet \subseteq Name

Empty == [x \in {} |-> x]

StoreInit ==
  /\ idsToObjects = Empty
  /\ objectsToIds = Empty
  /\ shortNameToIds = Empty
  /\ shortNameSet = {}

-----------------------------------------------------------------------------
(* Lookups *)

IsObjectPresent(i) == \E k \in DOMAIN idsToObjects : k.id = i

\* GetObject< type >(name) is not nullptr
HasObject(t, n) ==
  /\ n \in DOMAIN shortNameToIds
  /\ [type |-> t, id |-> shortNameToIds[n]] \in DOMAIN idsToObjects

OfType(t) == {k \in DOMAIN idsToObjects : k.type = t}

-----------------------------------------------------------------------------
(* Operations *)

\* another object with these ids is not removed: it stays in objectsToIds
AddObject(p, k) ==
  /\ idsToObjects' = Put(idsToObjects, k, p)
  /\ objectsToIds' = Put(objectsToIds, p, k)
  /\ UNCHANGED names

\* nothing happens if the object is not there, the name is empty or in use
SetShortName(i, n) ==
  /\ IF n \in Name \ shortNameSet /\ IsObjectPresent(i)
     THEN /\ shortNameSet' = shortNameSet \cup {n}
          /\ shortNameToIds' = Put(shortNameToIds, n, i)
     ELSE UNCHANGED names
  /\ UNCHANGED indexes

\* mutant: the old name stays reserved
RenameObjectReserved(a, b) ==
  /\ IF a \notin DOMAIN shortNameToIds THEN UNCHANGED names
     ELSE /\ shortNameSet' = shortNameSet \cup {b}
          /\ shortNameToIds' =
               Put(Erase(shortNameToIds, a), b, shortNameToIds[a])
  /\ UNCHANGED indexes

\* the old name is given up first; the object is left without a name if the new
\* one is in use, or if the object is not there any more
RenameObject(a, b) ==
  /\ IF a \notin DOMAIN shortNameToIds THEN UNCHANGED names
     ELSE IF b \in Name \ (shortNameSet \ {a}) /\ IsObjectPresent(shortNameToIds[a])
     THEN /\ shortNameSet' = (shortNameSet \ {a}) \cup {b}
          /\ shortNameToIds' = Put(Erase(shortNameToIds, a), b, shortNameToIds[a])
     ELSE /\ shortNameSet' = shortNameSet \ {a}
          /\ shortNameToIds' = Erase(shortNameToIds, a)
  /\ UNCHANGED indexes

\* the names of object i (GetShortName finds the first in the order of the map)
NamesOf(i) == {n \in DOMAIN shortNameToIds : shortNameToIds[n] = i}

\* mutant: the label stays
DeleteObjectOnly(p) ==
  /\ p \in DOMAIN objectsToIds
  /\ objectsToIds[p] \in DOMAIN idsToObjects
  /\ objectsToIds' = Erase(objectsToIds, p)
  /\ idsToObjects' = Erase(idsToObjects, objectsToIds[p])
  /\ UNCHANGED names

\* mutant: only the index by address is updated
DeleteObjectHalf(p) ==
  /\ p \in DOMAIN objectsToIds
  /\ objectsToIds[p] \in DOMAIN idsToObjects
  /\ objectsToIds' = Erase(objectsToIds, p)
  /\ UNCHANGED <<idsToObjects, shortNameToIds, shortNameSet>>

\* The entry for the ids is removed even if it leads to another object with these
\* ids; at most one of the names of the object is removed.  DeleteObject by uuid
\* comes down to this one.
DeleteObject(p) ==
  /\ p \in DOMAIN objectsToIds
  /\ objectsToIds[p] \in DOMAIN idsToObjects
  /\ objectsToIds' = Erase(objectsToIds, p)
  /\ idsToObjects' = Erase(idsToObjects, objectsToIds[p])
  /\ \/ /\ NamesOf(objectsToIds[p].id) = {}
        /\ UNCHANGED names
     \/ \E n \in NamesOf(objectsToIds[p].id) :
          /\ shortNameToIds' = Erase(shortNameToIds, n)
          /\ shortNameSet' = shortNameSet \ {n}

\* the names stay
Clear ==
  /\ idsToObjects' = Empty
  /\ objectsToIds' = Empty
  /\ UNCHANGED names

\* any use of the store by clients that do not change the ids of an object while
\* it is in the store
StoreNext ==
  \/ \E p \in Object, k \in Key :
       /\ p \in DOMAIN objectsToIds => objectsToIds[p] = k
       /\ AddObject(p, k)
  \/ \E i \in Id, n \in Name \cup {""} : SetShortName(i, n)
  \/ \E a \in Name, b \in Name \cup {""} : RenameObject(a, b)
  \/ \E p \in Object : DeleteObject(p)
  \/ Clear

StoreSpec == StoreInit /\ [][StoreNext]_storeVars

-----------------------------------------------------------------------------
(* Properties *)

(* A lookup by ids never leads to an object that was deleted: every address   *)
(* in the index by ids is owned by the store, under these ids - also when an  *)
(* object was loaded twice and one of the two was deleted.                    *)
IndexesAgree ==
  \A k \in DOMAIN idsToObjects :
    /\ idsToObjects[k] \in DOMAIN objectsToIds
    /\ objectsToIds[idsToObjects[k]] = k

(* A short name is reserved exactly as long as it leads to an object id, so   *)
(* that a name given up by a rename can be used for the next object.          *)
NameTablesAgree == shortNameSet = DOMAIN shortNameToIds

(* The four tables agree: no way to an object leads to one that is deleted,   *)
(* nor is a name lost.                                                        *)
StoreTablesAgree == IndexesAgree /\ NameTablesAgree
=============================================================================
