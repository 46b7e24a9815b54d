------------------------------ MODULE StoreProofs ------------------------------
(***************************************************************************)
(* What holds of the container store, for any sets of addresses, ids and   *)
(* names and any sequence of operations.  And that a pass uses the store   *)
(* as any client may: PassSpec implements StoreSpec, for any files and any *)
(* baseline, so that what is proved of the store holds in every pass; and  *)
(* the names that a pass gives lead to the objects of their roles.         *)
(*                                                                         *)
(* And what holds of the files that the store is filled from: whatever     *)
(* sizes objects have, wherever a file loses its end and whatever is       *)
(* appended to it then.                                                    *)
(***************************************************************************)
EXTENDS PassStore, BinaryFile, SequenceTheorems, TLAPS

-----------------------------------------------------------------------------
(* The store *)

(* No operation of the store puts anything but addresses, ids and names into  *)
(* its tables.                                                                *)
LEMMA StoreTypedStep ==
  ASSUME StoreTypeOK, [StoreNext]_storeVars
  PROVE  StoreTypeOK'
<1> USE DEF StoreTypeOK, indexes, names, storeVars, Put, Erase, Empty
<1>1. ASSUME NEW p \in Object, NEW k \in Key, AddObject(p, k)
      PROVE  StoreTypeOK'
  BY <1>1 DEF AddObject
<1>2. ASSUME NEW i \in Id, NEW n, SetShortName(i, n)
      PROVE  StoreTypeOK'
  <2>1. CASE n \in Name \ shortNameSet /\ IsObjectPresent(i)
    BY <1>2, <2>1 DEF SetShortName
  <2>2. CASE ~(n \in Name \ shortNameSet /\ IsObjectPresent(i))
    BY <1>2, <2>2 DEF SetShortName
  <2> QED
    BY <2>1, <2>2
<1>3. ASSUME NEW a \in Name, NEW b \in Name \cup {""}, RenameObject(a, b)
      PROVE  StoreTypeOK'
  <2>1. CASE a \notin DOMAIN shortNameToIds
    BY <1>3, <2>1 DEF RenameObject
  <2> DEFINE free == b \in Name \ (shortNameSet \ {a})
                       /\ IsObjectPresent(shortNameToIds[a])
  <2>2. CASE a \in DOMAIN shortNameToIds /\ free
    BY <1>3, <2>2 DEF RenameObject
  <2>3. CASE a \in DOMAIN shortNameToIds /\ ~free
    BY <1>3, <2>3 DEF RenameObject
  <2> QED
    BY <2>1, <2>2, <2>3
<1>4. ASSUME NEW p \in Object, DeleteObject(p)
      PROVE  StoreTypeOK'
  <2>1. /\ objectsToIds' = Erase(objectsToIds, p)
        /\ idsToObjects' = Erase(idsToObjects, objectsToIds[p])
    BY <1>4 DEF DeleteObject
  <2>2. CASE UNCHANGED names
    BY <2>1, <2>2
  <2>3. ASSUME NEW n \in NamesOf(objectsToIds[p].id),
               shortNameToIds' = Erase(shortNameToIds, n),
               shortNameSet' = shortNameSet \ {n}
        PROVE  StoreTypeOK'
    BY <2>1, <2>3
  <2> QED
    BY <1>4, <2>2, <2>3 DEF DeleteObject
<1>5. CASE Clear
  BY <1>5 DEF Clear
<1>6. CASE UNCHANGED storeVars
  BY <1>6
<1> QED
  BY <1>1, <1>2, <1>3, <1>4, <1>5, <1>6 DEF StoreNext

(* The tables hold addresses, ids and names only.                             *)
THEOREM StoreTyped == StoreSpec => []StoreTypeOK
<1>1. StoreInit => StoreTypeOK
  BY DEF StoreInit, StoreTypeOK, Empty
<1>2. StoreTypeOK /\ [StoreNext]_storeVars => StoreTypeOK'
  BY StoreTypedStep
<1> QED
  BY <1>1, <1>2, PTL DEF StoreSpec

(* No lookup by ids leads to a deleted object, whatever was added twice,      *)
(* deleted or cleared before.  The property is inductive as it stands: an     *)
(* entry of the index by ids that would dangle after a deletion has the ids   *)
(* of the deleted object, and these are just the ones that are removed.       *)
THEOREM LookupsAreOwned == StoreSpec => []IndexesAgree
<1> USE DEF IndexesAgree, indexes, storeVars, Put, Erase, Empty
<1>1. StoreInit => IndexesAgree
  BY DEF StoreInit
<1>2. IndexesAgree /\ [StoreNext]_storeVars => IndexesAgree'
  <2> SUFFICES ASSUME IndexesAgree, [StoreNext]_storeVars
               PROVE  IndexesAgree'
    OBVIOUS
  <2>1. ASSUME NEW p \in Object, NEW k \in Key,
               p \in DOMAIN objectsToIds => objectsToIds[p] = k,
               AddObject(p, k)
        PROVE  IndexesAgree'
    BY <2>1 DEF AddObject
  <2>2. ASSUME NEW i \in Id, NEW n, SetShortName(i, n)
        PROVE  IndexesAgree'
    BY <2>2 DEF SetShortName
  <2>3. ASSUME NEW a \in Name, NEW b \in Name \cup {""}, RenameObject(a, b)
        PROVE  IndexesAgree'
    BY <2>3 DEF RenameObject
  <2>4. ASSUME NEW p \in Object, DeleteObject(p)
        PROVE  IndexesAgree'
    <3> SUFFICES ASSUME NEW k \in DOMAIN idsToObjects'
                 PROVE  /\ idsToObjects'[k] \in DOMAIN objectsToIds'
                        /\ objectsToIds'[idsToObjects'[k]] = k
      OBVIOUS
    <3>1. k \in DOMAIN idsToObjects /\ k # objectsToIds[p]
      BY <2>4 DEF DeleteObject
    <3>2. idsToObjects[k] \in DOMAIN objectsToIds /\ objectsToIds[idsToObjects[k]] = k
      BY <3>1
    <3>3. idsToObjects[k] # p
      BY <3>1, <3>2
    <3> QED
      BY <2>4, <3>1, <3>2, <3>3 DEF DeleteObject
  <2>5. CASE Clear
    BY <2>5 DEF Clear
  <2>6. CASE UNCHANGED storeVars
    BY <2>6
  <2> QED
    BY <2>1, <2>2, <2>3, <2>4, <2>5, <2>6 DEF StoreNext
<1> QED
  BY <1>1, <1>2, PTL DEF StoreSpec

(* The set of reserved names and the table of names agree, through renames    *)
(* that fail half-way and deletions of objects without a name.                *)
THEOREM ReservedNamesLead == StoreSpec => []NameTablesAgree
<1> USE DEF NameTablesAgree, names, storeVars, Put, Erase, Empty
<1>1. StoreInit => NameTablesAgree
  BY DEF StoreInit
<1>2. NameTablesAgree /\ [StoreNext]_storeVars => NameTablesAgree'
  <2> SUFFICES ASSUME NameTablesAgree, [StoreNext]_storeVars
               PROVE  NameTablesAgree'
    OBVIOUS
  <2>1. ASSUME NEW p \in Object, NEW k \in Key, AddObject(p, k)
        PROVE  NameTablesAgree'
    BY <2>1 DEF AddObject
  <2>2. ASSUME NEW i \in Id, NEW n, SetShortName(i, n)
        PROVE  NameTablesAgree'
    <3>1. CASE n \in Name \ shortNameSet /\ IsObjectPresent(i)
      BY <2>2, <3>1 DEF SetShortName
    <3>2. CASE ~(n \in Name \ shortNameSet /\ IsObjectPresent(i))
      BY <2>2, <3>2 DEF SetShortName
    <3> QED
      BY <3>1, <3>2
  <2>3. ASSUME NEW a \in Name, NEW b \in Name \cup {""}, RenameObject(a, b)
        PROVE  NameTablesAgree'
    <3>1. CASE a \notin DOMAIN shortNameToIds
      BY <2>3, <3>1 DEF RenameObject
    <3> DEFINE free == b \in Name \ (shortNameSet \ {a})
                         /\ IsObjectPresent(shortNameToIds[a])
    <3>2. CASE a \in DOMAIN shortNameToIds /\ free
      BY <2>3, <3>2 DEF RenameObject
    <3>3. CASE a \in DOMAIN shortNameToIds /\ ~free
      BY <2>3, <3>3 DEF RenameObject
    <3> QED
      BY <3>1, <3>2, <3>3
  <2>4. ASSUME NEW p \in Object, DeleteObject(p)
        PROVE  NameTablesAgree'
    <3>1. CASE UNCHANGED names
      BY <3>1
    <3>2. ASSUME NEW n \in NamesOf(objectsToIds[p].id),
                 shortNameToIds' = Erase(shortNameToIds, n),
                 shortNameSet' = shortNameSet \ {n}
          PROVE  NameTablesAgree'
      BY <3>2
    <3> QED
      BY <2>4, <3>1, <3>2 DEF DeleteObject
  <2>5. CASE Clear
    BY <2>5 DEF Clear
  <2>6. CASE UNCHANGED storeVars
    BY <2>6
  <2> QED
    BY <2>1, <2>2, <2>3, <2>4, <2>5, <2>6 DEF StoreNext
<1> QED
  BY <1>1, <1>2, PTL DEF StoreSpec

-----------------------------------------------------------------------------
(* A pass *)

(* Every step of a pass is one operation of the store or none at all, and     *)
(* keeps what is read, cast and named typed.                                  *)
LEMMA PassStep ==
  ASSUME PassTypeOK, [PassNext]_vars
  PROVE  [StoreNext]_storeVars /\ PassTypeOK'
<1> USE PassStoreAssumption DEF Goto, Stay
<1>0. StoreTypeOK
  BY DEF PassTypeOK
<1>1. ASSUME NEW k \in Key, AddNew(k)
      PROVE  StoreNext
  BY <1>1 DEF AddNew, StoreNext
<1>2. ASSUME NEW i \in Id, NEW n \in Name \cup {""}, SetShortName(i, n)
      PROVE  StoreNext
  BY <1>2 DEF StoreNext
<1>3. ASSUME NEW p, DeleteObject(p)
      PROVE  StoreNext
  <2>1. p \in Object
    BY <1>3, <1>0 DEF DeleteObject, StoreTypeOK
  <2> QED
    BY <1>3, <2>1 DEF StoreNext
<1>4. ASSUME NEW a \in Name, NEW b \in Name, RenameObject(a, b)
      PROVE  StoreNext
  BY <1>4 DEF StoreNext
<1>5. CASE LoadObject
  <2>1. Head(file) \in Record /\ file \in Seq(Record)
    BY <1>5 DEF LoadObject, PassTypeOK
  <2>2. [type |-> Head(file).type, id |-> Head(file).id] \in Key
    BY <2>1 DEF Record, Key
  <2>3. StoreNext
    BY <1>5, <2>2, <1>1 DEF LoadObject
  <2>4. StoreTypeOK'
    BY <2>3, <1>0, StoreTypedStep
  <2> QED
    BY <1>5, <2>3, <2>4 DEF LoadObject, Reading, PassTypeOK
<1>6. CASE NameObject
  <2>1. file # <<>> /\ file \in Seq(Record)
    BY <1>6 DEF NameObject, Reading, PassTypeOK
  <2>2. Head(file) \in Record /\ Tail(file) \in Seq(Record)
    BY <2>1
  <2>3. Head(file).id \in Id /\ Head(file).name \in Name \cup {""}
    BY <2>2 DEF Record
  <2>4. StoreNext
    BY <1>6, <2>3, <1>2 DEF NameObject
  <2>5. StoreTypeOK'
    BY <2>4, <1>0, StoreTypedStep
  <2> QED
    BY <1>6, <2>2, <2>4, <2>5 DEF NameObject, Reading, PassTypeOK
<1>7. CASE DeleteSingle
  <2>1. StoreNext
    BY <1>7, <1>3 DEF DeleteSingle
  <2>2. StoreTypeOK'
    BY <2>1, <1>0, StoreTypedStep
  <2> QED
    BY <1>7, <2>1, <2>2 DEF DeleteSingle, PassTypeOK
<1>8. CASE AddDouble
  <2>1. cast \in Casting \X Casting
    BY <1>8 DEF AddDouble, PassTypeOK
  <2>2. Cast(1) \in Key /\ Cast(2) \in Key
    BY <2>1 DEF Cast, Casting, Key
  <2>3. StoreNext
    BY <1>8, <2>2, <1>1 DEF AddDouble
  <2>4. StoreTypeOK'
    BY <2>3, <1>0, StoreTypedStep
  <2> QED
    BY <1>8, <2>3, <2>4 DEF AddDouble, PassTypeOK
<1>9. CASE NameDouble
  <2>1. cast \in Casting \X Casting
    BY <1>9 DEF NameDouble, PassTypeOK
  <2>2. cast[1] \in Casting /\ cast[2] \in Casting
    BY <2>1
  <2>3. ASSUME NEW c \in Casting, SetShortName(c.from.id, c.name)
        PROVE  StoreNext
    <3>1. c.from \in Key /\ c.name \in Name \cup {""}
      BY DEF Casting
    <3>2. c.from.id \in Id
      BY <3>1 DEF Key
    <3> QED
      BY <2>3, <3>1, <3>2, Zenon DEF StoreNext
  <2>4. SetShortName(cast[1].from.id, cast[1].name) => StoreNext
    BY <2>2, <2>3, Zenon
  <2>5. SetShortName(cast[2].from.id, cast[2].name) => StoreNext
    BY <2>2, <2>3, Zenon
  <2>6. StoreNext
    BY <1>9, <2>4, <2>5 DEF NameDouble
  <2>7. StoreTypeOK'
    BY <2>6, <1>0, StoreTypedStep
  <2> QED
    BY <1>9, <2>6, <2>7 DEF NameDouble, PassTypeOK
<1>10. CASE RenameStation
  <2>1. StoreNext
    BY <1>10, <1>4 DEF RenameStation
  <2>2. StoreTypeOK'
    BY <2>1, <1>0, StoreTypedStep
  <2> QED
    BY <1>10, <2>1, <2>2 DEF RenameStation, PassTypeOK
<1>11. ASSUME NEW step \in {"cache_v", "cache_w", "fit", "finalize"},
              NEW t \in Type, NEW n \in Made,
              NEW next \in {"cache_w", "fit", "finalize", "ready"},
              Make(step, t, n, next), UNCHANGED <<file, cast, whole>>
       PROVE  StoreNext /\ PassTypeOK'
  <2>1. n \in Id /\ n \in Name /\ [type |-> t, id |-> n] \in Key
    BY DEF Key
  <2>2. StoreNext
    BY <1>11, <2>1, <1>1, <1>2 DEF Make
  <2>3. StoreTypeOK'
    BY <2>2, <1>0, StoreTypedStep
  <2> QED
    BY <1>11, <2>2, <2>3 DEF Make, PassTypeOK
<1>12. CASE MakeObject
  BY <1>12, <1>11 DEF MakeObject, Made
<1>13. CASE Destroy
  <2>1. StoreNext
    BY <1>13 DEF Destroy, StoreNext
  <2>2. StoreTypeOK'
    BY <2>1, <1>0, StoreTypedStep
  <2> QED
    BY <1>13, <2>1, <2>2 DEF Destroy, PassTypeOK
<1>14. CASE ChooseVisibilities
  <2>1. PICK v \in OfType("visibility_store"), w \in OfType("weight_store") :
          \E m \in ShortNames(v.id), n \in ShortNames(w.id) :
            cast' = <<[from |-> v, type |-> "visibility", name |-> m],
                      [from |-> w, type |-> "weight", name |-> n]>>
    BY <1>14 DEF ChooseVisibilities
  <2>2. PICK m \in ShortNames(v.id), n \in ShortNames(w.id) :
          cast' = <<[from |-> v, type |-> "visibility", name |-> m],
                    [from |-> w, type |-> "weight", name |-> n]>>
    BY <2>1
  <2>3. v \in Key /\ w \in Key
    BY <1>0 DEF OfType, StoreTypeOK
  <2>4. m \in Name \cup {""} /\ n \in Name \cup {""}
    BY <1>0 DEF ShortNames, NamesOf, StoreTypeOK
  <2>5. cast' \in Casting \X Casting
    BY <2>2, <2>3, <2>4 DEF Casting
  <2>6. UNCHANGED storeVars
    BY <1>14 DEF ChooseVisibilities
  <2>7. StoreTypeOK'
    BY <2>6, <1>0, StoreTypedStep
  <2>8. cast' # <<>>
    BY <2>2
  <2> QED
    BY <1>14, <2>5, <2>6, <2>7, <2>8 DEF ChooseVisibilities, PassTypeOK
<1>15. ASSUME UNCHANGED storeVars,
              \/ SkipObject \/ CloseFile \/ KeepVisibilities \/ Skip \/ LoadReference
              \/ LoadRemote \/ Configured \/ UNCHANGED vars
       PROVE  PassTypeOK'
  <2>1. StoreTypeOK'
    BY <1>15, <1>0, StoreTypedStep
  <2>2. CASE SkipObject
    <3>1. file' \in Seq(Record)
      BY <2>2 DEF SkipObject, PassTypeOK
    <3> QED
      BY <2>1, <2>2, <3>1 DEF SkipObject, PassTypeOK, Reading
  <2>3. CASE CloseFile
    BY <2>1, <2>3 DEF CloseFile, AfterLoad, PassTypeOK, Reading
  <2>4. CASE KeepVisibilities
    BY <2>1, <2>4 DEF KeepVisibilities, PassTypeOK
  <2>5. CASE Skip
    BY <2>1, <2>5 DEF Skip, PassTypeOK
  <2>6. CASE LoadReference
    BY <2>1, <2>6 DEF LoadReference, Reference, PassTypeOK
  <2>7. CASE LoadRemote
    BY <2>1, <2>7 DEF LoadRemote, Remote, PassTypeOK
  <2>8. CASE Configured
    BY <2>1, <2>8 DEF Configured, PassTypeOK
  <2>9. CASE UNCHANGED vars
    BY <2>1, <2>9 DEF vars, passVars, PassTypeOK
  <2> QED
    BY <1>15, <2>2, <2>3, <2>4, <2>5, <2>6, <2>7, <2>8, <2>9
<1>16. CASE SkipObject \/ CloseFile \/ KeepVisibilities \/ Skip \/ LoadReference
            \/ LoadRemote \/ Configured \/ Ended \/ UNCHANGED vars
  <2>1. UNCHANGED storeVars
    BY <1>16 DEF SkipObject, CloseFile, KeepVisibilities, Skip, LoadReference, LoadRemote,
                 Configured, Ended, vars
  <2>2. PassTypeOK'
    BY <1>15, <1>16, <2>1 DEF Ended
  <2> QED
    BY <2>1, <2>2
<1> QED
  BY <1>5, <1>6, <1>7, <1>8, <1>9, <1>10, <1>12, <1>13, <1>14, <1>16 DEF PassNext

(* Names, ids and addresses of a pass stay what they are, the records read    *)
(* and cast are complete when they are used.                                  *)
THEOREM PassTyped == PassSpec => []PassTypeOK
<1>1. PassInit => PassTypeOK
  BY PassStoreAssumption DEF PassInit, PassTypeOK, StoreInit, StoreTypeOK, Empty
<1>2. PassTypeOK /\ [PassNext]_vars => PassTypeOK'
  BY PassStep
<1> QED
  BY <1>1, <1>2, PTL DEF PassSpec

(* The refinement: a pass changes the store through its operations only.      *)
THEOREM PassUsesStore == PassSpec => IsContainerStore
<1>1. PassInit => StoreInit
  BY DEF PassInit
<1>2. PassTypeOK /\ [PassNext]_vars => [StoreNext]_storeVars
  BY PassStep
<1> QED
  BY <1>1, <1>2, PassTyped, PTL DEF PassSpec, StoreSpec, IsContainerStore

(* In a pass no lookup leads to a deleted object, whatever the files hold.    *)
THEOREM PassLookupsAreOwned == PassSpec => []IndexesAgree
  BY PassUsesStore, LookupsAreOwned, PTL DEF IsContainerStore

(* In a pass the names reserved and the names that lead to objects are the    *)
(* same.                                                                      *)
THEOREM PassReservedNamesLead == PassSpec => []NameTablesAgree
  BY PassUsesStore, ReservedNamesLead, PTL DEF IsContainerStore

(* In a pass every way to an object, by its ids or by a name, leads to one    *)
(* that is owned and to a name that is reserved.                              *)
THEOREM PassTables == PassSpec => []StoreTablesAgree
<1>1. IndexesAgree /\ NameTablesAgree => StoreTablesAgree
  BY DEF StoreTablesAgree
<1> QED
  BY <1>1, PassLookupsAreOwned, PassReservedNamesLead, PTL

-----------------------------------------------------------------------------
(* Names and roles in a pass *)

(* While the baseline file is read: what is still to come has ids of its own. *)
ReadOnce ==
  pc = "baseline" =>
    /\ \A i, j \in 1..Len(file) : file[i].id = file[j].id => i = j
    /\ \A j \in 1..Len(file), k \in DOMAIN idsToObjects : k.id = file[j].id => unnamed /\ j = 1
    /\ \A j \in 1..Len(file), n \in DOMAIN shortNameToIds : shortNameToIds[n] # file[j].id

(* Until both single precision objects are gone, an id is that of one object  *)
(* with one name at most: a deletion leaves no name behind.                   *)
OneNameEach ==
  pc \in {"baseline", "configure_visibility_data", "delete_1", "delete_2"} =>
    /\ \A k, l \in DOMAIN idsToObjects : k.id = l.id => k = l
    /\ \A m, n \in DOMAIN shortNameToIds : shortNameToIds[m] = shortNameToIds[n] => m = n

StationNames == {"sta", "pcal"}

(* What is cast to what.                                                      *)
CastShape ==
  /\ pc \in {"baseline", "configure_visibility_data"} => cast = <<>>
  /\ cast # <<>> =>
       /\ cast[1].from.type = "visibility_store" /\ cast[1].type = "visibility"
       /\ cast[2].from.type = "weight_store" /\ cast[2].type = "weight"
       /\ cast[1].from.id # cast[2].from.id
       /\ cast[1].name = cast[2].name => cast[1].name = ""
       /\ \A i \in 1..2 : cast[i].name \notin StationNames \cup Roles

(* How far the replacement of object i has come: the old one is stored, the   *)
(* new one has been added, there is no name for the time being.               *)
Replaced(i, stored, added, nameless) ==
  /\ cast[i].from \in DOMAIN idsToObjects <=> pc \in stored
  /\ pc \in added => Cast(i) \in DOMAIN idsToObjects
  /\ pc \in nameless =>
       NamesOf(cast[i].from.id) = {} /\ cast[i].name \notin DOMAIN shortNameToIds
  /\ pc \notin nameless => cast[i].name \in ShortNames(cast[i].from.id)

CastSteps ==
  {"delete_1", "delete_2", "add_1", "add_2", "name_1", "name_2", "check_visibilities"}

CastLedger ==
  pc \in CastSteps /\ cast # <<>> =>
    /\ Replaced(1, {"delete_1"},
                   {"add_2", "name_1", "name_2", "check_visibilities"},
                   {"delete_2", "add_1", "add_2", "name_1"})
    /\ Replaced(2, {"delete_1", "delete_2"},
                   {"name_1", "name_2", "check_visibilities"},
                   {"add_1", "add_2", "name_1", "name_2"})

NamesInv ==
  /\ ReadOnce
  /\ OneNameEach
  /\ CastShape
  /\ CastLedger
  /\ NamesResolve

\* how much of a station file has been read or skipped
Taken(f) == Len(f) - Len(file)

\* the rest of a station file is what is left to be read
Rest(f) == /\ Len(file) <= Len(f)
           /\ \A j \in 1..Len(file) : file[j] = f[Taken(f) + j]

(* Each file gives the names that are expected of it; a station's name is     *)
(* there only if it has been read in the present file.                        *)
FileNames ==
  /\ pc = "baseline" =>
       \A j \in 1..Len(file) : file[j].name \notin StationNames \cup Roles
  /\ pc = "reference" => Rest(StationFile(Reference))
  /\ pc = "remote" => Rest(StationFile(Remote))

\* name n has been read from file f
ReadFrom(f, n) ==
  \E j \in DOMAIN f : f[j].name = n /\ f[j].id = shortNameToIds[n]
                      /\ (pc \in {"reference", "remote"} => j <= Taken(f))

(* A station's data have the name that they came with until they get that of  *)
(* their role.                                                                *)
Arrived(n, reference, remote) ==
  n \in DOMAIN shortNameToIds =>
    \/ pc \in reference /\ ReadFrom(StationFile(Reference), n)
    \/ pc \in remote /\ ReadFrom(StationFile(Remote), n)

Arrivals ==
  /\ Arrived("sta", {"reference", "sta_reference"}, {"remote", "sta_remote"})
  /\ Arrived("pcal", {"reference", "sta_reference", "pcal_reference"},
                     {"remote", "sta_remote", "pcal_remote"})

(* A role is not given before its time.                                       *)
ToReference ==
  CastSteps \cup {"baseline", "configure_visibility_data", "reference", "sta_reference"}

ToRemote == ToReference \cup {"pcal_reference", "load_remote", "remote", "sta_remote"}

RolesFree ==
  /\ pc \in ToReference => "ref_sta" \notin DOMAIN shortNameToIds
  /\ pc \in ToReference \cup {"pcal_reference"} => "ref_pcal" \notin DOMAIN shortNameToIds
  /\ pc \in ToRemote => "rem_sta" \notin DOMAIN shortNameToIds
  /\ pc \in ToRemote \cup {"pcal_remote"} => "rem_pcal" \notin DOMAIN shortNameToIds

\* of the first n objects of file f, the data of the station are found
FoundTo(f, n, sta, pcal) ==
  \A j \in 1..n :
    /\ f[j].name = "sta" => HasObject(f[j].type, sta)
    /\ f[j].name = "pcal" => HasObject(f[j].type, pcal)

(* What is found of the files of the two stations, as far as they were read.  *)
Progress(ref, rem) ==
  /\ pc = "reference" => FoundTo(ref, Taken(ref), "sta", "pcal")
  /\ pc = "sta_reference" => FoundAs(ref, "sta", "pcal")
  /\ pc = "pcal_reference" => FoundAs(ref, "ref_sta", "pcal")
  /\ pc \in {"load_remote", "remote", "sta_remote", "pcal_remote", "check_stations"} =>
       FoundAs(ref, "ref_sta", "ref_pcal")
  /\ pc = "remote" => FoundTo(rem, Taken(rem), "sta", "pcal")
  /\ pc = "sta_remote" => FoundAs(rem, "sta", "pcal")
  /\ pc = "pcal_remote" => FoundAs(rem, "rem_sta", "pcal")
  /\ pc = "check_stations" => FoundAs(rem, "rem_sta", "rem_pcal")

(* An object is stored before it is named; if nothing was skipped, the data of *)
(* both stations are found in every step.                                     *)
Complete ==
  /\ pc \in {"reference", "remote"} /\ unnamed =>
       [type |-> Head(file).type, id |-> Head(file).id] \in DOMAIN idsToObjects
  /\ whole => Progress(StationFile(Reference), StationFile(Remote))

(* The first part of StationRoles: a role leads to data of its station.       *)
RolesKept ==
  \A n \in DOMAIN shortNameToIds :
    /\ n \in {"ref_sta", "ref_pcal"} => shortNameToIds[n] \in Ids(StationFile(Reference))
    /\ n \in {"rem_sta", "rem_pcal"} => shortNameToIds[n] \in Ids(StationFile(Remote))

RolesInv ==
  /\ FileNames
  /\ Arrivals
  /\ RolesFree
  /\ RolesKept
  /\ Complete

(* What the operations of the store do to the ids and the names.              *)
LEMMA AddEffect ==
  ASSUME NEW k, AddNew(k)
  PROVE  /\ DOMAIN idsToObjects' = DOMAIN idsToObjects \cup {k}
         /\ shortNameToIds' = shortNameToIds
BY DEF AddNew, AddObject, Put, names

LEMMA NameEffect ==
  ASSUME NameTablesAgree, NEW i, NEW n, SetShortName(i, n)
  PROVE  /\ idsToObjects' = idsToObjects
         /\ \/ /\ n \in Name \ DOMAIN shortNameToIds
               /\ IsObjectPresent(i)
               /\ DOMAIN shortNameToIds' = DOMAIN shortNameToIds \cup {n}
               /\ shortNameToIds'[n] = i
               /\ \A m \in DOMAIN shortNameToIds : shortNameToIds'[m] = shortNameToIds[m]
            \/ /\ ~(n \in Name \ DOMAIN shortNameToIds /\ IsObjectPresent(i))
               /\ shortNameToIds' = shortNameToIds
<1>1. CASE n \in Name \ shortNameSet /\ IsObjectPresent(i)
  BY <1>1 DEF SetShortName, NameTablesAgree, Put, indexes
<1>2. CASE ~(n \in Name \ shortNameSet /\ IsObjectPresent(i))
  BY <1>2 DEF SetShortName, NameTablesAgree, indexes, names
<1> QED
  BY <1>1, <1>2

LEMMA RenameEffect ==
  ASSUME NameTablesAgree, NEW a, NEW b \in Name, a # b, RenameObject(a, b)
  PROVE  /\ idsToObjects' = idsToObjects
         /\ \A m \in DOMAIN shortNameToIds' \ {b} :
              m \in DOMAIN shortNameToIds \ {a} /\ shortNameToIds'[m] = shortNameToIds[m]
         /\ \A m \in DOMAIN shortNameToIds \ {a} :
              m \in DOMAIN shortNameToIds' /\ shortNameToIds'[m] = shortNameToIds[m]
         /\ a \notin DOMAIN shortNameToIds'
         /\ b \in DOMAIN shortNameToIds' =>
              \/ b \in DOMAIN shortNameToIds /\ shortNameToIds'[b] = shortNameToIds[b]
              \/ a \in DOMAIN shortNameToIds /\ shortNameToIds'[b] = shortNameToIds[a]
         /\ /\ a \in DOMAIN shortNameToIds
            /\ b \notin DOMAIN shortNameToIds
            /\ IsObjectPresent(shortNameToIds[a])
            => b \in DOMAIN shortNameToIds' /\ shortNameToIds'[b] = shortNameToIds[a]
<1> DEFINE free == b \in Name \ (shortNameSet \ {a}) /\ IsObjectPresent(shortNameToIds[a])
<1>0. idsToObjects' = idsToObjects
  BY DEF RenameObject, indexes
<1>1. CASE a \notin DOMAIN shortNameToIds
  <2>1. shortNameToIds' = shortNameToIds
    BY <1>1 DEF RenameObject, names
  <2> QED
    BY <1>0, <1>1, <2>1
<1>2. CASE a \in DOMAIN shortNameToIds /\ free
  <2>1. shortNameToIds' = Put(Erase(shortNameToIds, a), b, shortNameToIds[a])
    BY <1>2 DEF RenameObject
  <2>2. b \notin DOMAIN shortNameToIds
    BY <1>2 DEF NameTablesAgree
  <2>3. /\ DOMAIN shortNameToIds' = (DOMAIN shortNameToIds \ {a}) \cup {b}
        /\ shortNameToIds'[b] = shortNameToIds[a]
        /\ \A m \in DOMAIN shortNameToIds \ {a} : shortNameToIds'[m] = shortNameToIds[m]
    BY <2>1, <2>2 DEF Put, Erase
  <2> QED
    BY <1>0, <1>2, <2>2, <2>3
<1>3. CASE a \in DOMAIN shortNameToIds /\ ~free
  <2>1. shortNameToIds' = Erase(shortNameToIds, a)
    BY <1>3 DEF RenameObject
  <2>2. /\ DOMAIN shortNameToIds' = DOMAIN shortNameToIds \ {a}
        /\ \A m \in DOMAIN shortNameToIds \ {a} : shortNameToIds'[m] = shortNameToIds[m]
    BY <2>1 DEF Erase
  <2>3. ~(b \notin DOMAIN shortNameToIds /\ IsObjectPresent(shortNameToIds[a]))
    BY <1>3 DEF NameTablesAgree
  <2> QED
    BY <1>0, <1>3, <2>2, <2>3
<1> QED
  BY <1>1, <1>2, <1>3

LEMMA DeleteEffect ==
  ASSUME IndexesAgree, NEW k \in DOMAIN idsToObjects, DeleteObject(idsToObjects[k])
  PROVE  /\ DOMAIN idsToObjects' = DOMAIN idsToObjects \ {k}
         /\ \/ NamesOf(k.id) = {} /\ shortNameToIds' = shortNameToIds
            \/ \E n \in NamesOf(k.id) :
                 /\ DOMAIN shortNameToIds' = DOMAIN shortNameToIds \ {n}
                 /\ \A m \in DOMAIN shortNameToIds' : shortNameToIds'[m] = shortNameToIds[m]
BY DEF IndexesAgree, DeleteObject, Erase, names

\* the steps of a pass that leave the store alone
StoreAlone ==
  \/ SkipObject \/ CloseFile \/ KeepVisibilities \/ ChooseVisibilities \/ Skip
  \/ LoadReference \/ LoadRemote \/ Configured \/ Ended \/ UNCHANGED vars

LEMMA AloneStays ==
  ASSUME StoreAlone
  PROVE  idsToObjects' = idsToObjects /\ shortNameToIds' = shortNameToIds
BY DEF StoreAlone, SkipObject, CloseFile, KeepVisibilities, ChooseVisibilities, Skip,
     LoadReference, LoadRemote, Configured, Ended, vars, storeVars

(* All steps of a pass, by what they do to the store.                         *)
LEMMA PassKinds ==
  ASSUME PassTypeOK, [PassNext]_vars
  PROVE  \/ StoreAlone
         \/ LoadObject \/ NameObject \/ DeleteSingle \/ AddDouble \/ NameDouble
         \/ RenameStation \/ Destroy
         \/ /\ pc \in {"cache_v", "cache_w", "fit", "finalize"}
            /\ pc' \in {"cache_v", "cache_w", "fit", "finalize", "ready"}
            /\ UNCHANGED <<baseline, file, cast, whole>>
            /\ \/ \E k \in Key : AddNew(k)
               \/ \E n \in Made : SetShortName(n, n)
<1>1. ASSUME NEW step \in {"cache_v", "cache_w", "fit", "finalize"},
             NEW t \in Type, NEW n \in Made,
             NEW after \in {"cache_w", "fit", "finalize", "ready"},
             Make(step, t, n, after), UNCHANGED <<file, cast, whole>>
      PROVE  /\ pc \in {"cache_v", "cache_w", "fit", "finalize"}
             /\ pc' \in {"cache_v", "cache_w", "fit", "finalize", "ready"}
             /\ UNCHANGED <<baseline, file, cast, whole>>
             /\ \/ \E k \in Key : AddNew(k)
                \/ \E m \in Made : SetShortName(m, m)
  <2>1. [type |-> t, id |-> n] \in Key
    BY PassStoreAssumption DEF Key
  <2> QED
    BY <1>1, <2>1 DEF Make, Stay
<1>2. {"visibility", "weight", "phasors"} \subseteq Type
  BY PassStoreAssumption
<1> QED
  BY <1>1, <1>2 DEF PassNext, StoreAlone, MakeObject, Made

(* No name is left behind.                                                    *)
LEMMA NamesResolveStep ==
  ASSUME PassTypeOK, IndexesAgree, NameTablesAgree, OneNameEach, CastLedger, NamesResolve,
         [PassNext]_vars
  PROVE  NamesResolve'
<1> SUFFICES ASSUME pc' # "destroyed", NEW n \in DOMAIN shortNameToIds'
             PROVE  \E l \in DOMAIN idsToObjects' : l.id = shortNameToIds'[n]
  BY DEF NamesResolve, IsObjectPresent
<1>1. pc # "destroyed" \/ StoreAlone
  BY DEF PassNext, StoreAlone, LoadObject, NameObject, DeleteSingle, AddDouble, NameDouble,
       RenameStation, MakeObject, Make, Destroy, Reading
<1>2. pc # "destroyed"
  BY <1>1 DEF StoreAlone, SkipObject, CloseFile, KeepVisibilities, ChooseVisibilities, Skip,
       LoadReference, LoadRemote, Configured, Ended, vars, passVars, Reading
<1>3. ASSUME NEW m \in DOMAIN shortNameToIds PROVE IsObjectPresent(shortNameToIds[m])
  BY <1>2, <1>3 DEF NamesResolve
<1>4. CASE StoreAlone
  BY <1>3, <1>4, AloneStays DEF IsObjectPresent
<1>5. ASSUME NEW k, AddNew(k)
      PROVE  \E l \in DOMAIN idsToObjects' : l.id = shortNameToIds'[n]
  BY <1>3, <1>5, AddEffect DEF IsObjectPresent
<1>6. ASSUME NEW i, NEW m, SetShortName(i, m)
      PROVE  \E l \in DOMAIN idsToObjects' : l.id = shortNameToIds'[n]
  <2>1. \/ n \in DOMAIN shortNameToIds /\ shortNameToIds'[n] = shortNameToIds[n]
        \/ shortNameToIds'[n] = i /\ IsObjectPresent(i)
    BY <1>6, NameEffect
  <2> QED
    BY <1>3, <1>6, <2>1, NameEffect DEF IsObjectPresent
<1>7. ASSUME NEW a, NEW b \in Name, a # b, RenameObject(a, b)
      PROVE  \E l \in DOMAIN idsToObjects' : l.id = shortNameToIds'[n]
  BY <1>3, <1>7, RenameEffect DEF IsObjectPresent
<1>8. ASSUME NEW k \in DOMAIN idsToObjects, DeleteObject(idsToObjects[k]),
             pc \in {"delete_1", "delete_2"}
      PROVE  \E l \in DOMAIN idsToObjects' : l.id = shortNameToIds'[n]
  <2>1. n \in DOMAIN shortNameToIds /\ shortNameToIds'[n] = shortNameToIds[n]
    BY <1>8, DeleteEffect
  <2>2. shortNameToIds[n] # k.id
    BY <1>8, <2>1, DeleteEffect DEF OneNameEach, NamesOf
  <2>3. PICK l \in DOMAIN idsToObjects : l.id = shortNameToIds[n]
    BY <1>3, <2>1 DEF IsObjectPresent
  <2>4. l \in DOMAIN idsToObjects'
    BY <1>8, <2>2, <2>3, DeleteEffect
  <2> QED
    BY <2>1, <2>3, <2>4 DEF IsObjectPresent
<1>9. CASE DeleteSingle
  BY <1>8, <1>9 DEF DeleteSingle, CastLedger, Replaced, CastSteps, PassTypeOK
<1>10. CASE RenameStation
  BY <1>7, <1>10, PassStoreAssumption DEF RenameStation
<1>11. CASE Destroy
  BY <1>11 DEF Destroy, Goto
<1> QED
  BY <1>4, <1>5, <1>6, <1>9, <1>10, <1>11, PassKinds
     DEF LoadObject, NameObject, AddDouble, NameDouble

(* The objects of the baseline file are loaded once each.                     *)
LEMMA ReadOnceStep ==
  ASSUME PassTypeOK, NameTablesAgree, ReadOnce, [PassNext]_vars
  PROVE  ReadOnce'
<1> SUFFICES ASSUME pc' = "baseline" PROVE ReadOnce'
  BY DEF ReadOnce
<1>0. file \in Seq(Record)
  BY DEF PassTypeOK
<1>1. CASE StoreAlone
  <2>1. CASE SkipObject
    <3>1. pc = "baseline" /\ unnamed = FALSE /\ file # <<>> /\ file' = Tail(file)
      BY <2>1 DEF SkipObject, PassTypeOK
    <3>2. Len(file') = Len(file) - 1 /\ \A j \in 1..Len(file') : file'[j] = file[j + 1]
      BY <1>0, <3>1
    <3>3. Len(file) \in Nat
      BY <1>0
    <3>4. \A j \in 1..Len(file') : j + 1 \in 1..Len(file) /\ j + 1 # 1
      BY <3>2, <3>3
    <3>5. \A i, j \in 1..Len(file') : i + 1 = j + 1 => i = j
      OBVIOUS
    <3> QED
      BY <1>1, <3>1, <3>2, <3>4, <3>5, AloneStays DEF ReadOnce
  <2>2. CASE ~SkipObject
    <3>1. UNCHANGED <<pc, file, unnamed>>
      BY <1>1, <2>2 DEF StoreAlone, CloseFile, KeepVisibilities, ChooseVisibilities, Skip,
         LoadReference, LoadRemote, Configured, Ended, vars, passVars, Goto, AfterLoad, Reading
    <3> QED
      BY <1>1, <3>1, AloneStays DEF ReadOnce
  <2> QED
    BY <2>1, <2>2
<1>2. CASE LoadObject
  <2>1. /\ pc = "baseline" /\ ~unnamed /\ unnamed' /\ file' = file /\ file # <<>>
        /\ AddNew([type |-> Head(file).type, id |-> Head(file).id])
    BY <1>2 DEF LoadObject, Stay
  <2>2. PICK k : AddNew(k) /\ k.id = file[1].id
    BY <1>0, <2>1
  <2>3. 1 \in 1..Len(file)
    BY <1>0, <2>1
  <2>4. DOMAIN idsToObjects' = DOMAIN idsToObjects \cup {k} /\ shortNameToIds' = shortNameToIds
    BY <2>2, AddEffect
  <2> QED
    BY <2>1, <2>2, <2>3, <2>4 DEF ReadOnce
<1>3. CASE NameObject
  <2>1. /\ pc = "baseline" /\ unnamed /\ unnamed' = FALSE /\ file' = Tail(file) /\ file # <<>>
        /\ SetShortName(Head(file).id, Head(file).name)
    BY <1>3 DEF NameObject, Stay, PassTypeOK
  <2>2. Len(file') = Len(file) - 1 /\ \A j \in 1..Len(file') : file'[j] = file[j + 1]
    BY <1>0, <2>1
  <2>3. Len(file) \in Nat
    BY <1>0
  <2>4. \A j \in 1..Len(file') : j + 1 \in 1..Len(file) /\ j + 1 # 1
    BY <2>2, <2>3
  <2>5. \A i, j \in 1..Len(file') : i + 1 = j + 1 => i = j
    OBVIOUS
  <2>6. 1 \in 1..Len(file) /\ Head(file) = file[1]
    BY <1>0, <2>1
  <2> PICK o, m : o = file[1].id /\ SetShortName(o, m)
    BY <2>1, <2>6
  <2>7. idsToObjects' = idsToObjects
    BY NameEffect
  <2>8. \A n \in DOMAIN shortNameToIds' :
          \/ n \in DOMAIN shortNameToIds /\ shortNameToIds'[n] = shortNameToIds[n]
          \/ shortNameToIds'[n] = file[1].id
    BY NameEffect
  <2>9. \A i, j \in 1..Len(file') : file'[i].id = file'[j].id => i = j
    BY <2>1, <2>2, <2>4, <2>5 DEF ReadOnce
  <2>10. \A j \in 1..Len(file'), k \in DOMAIN idsToObjects' : k.id # file'[j].id
    BY <2>1, <2>2, <2>4, <2>7 DEF ReadOnce
  <2>11. \A j \in 1..Len(file'), n \in DOMAIN shortNameToIds' : shortNameToIds'[n] # file'[j].id
    BY <2>1, <2>2, <2>4, <2>6, <2>8 DEF ReadOnce
  <2> QED
    BY <2>9, <2>10, <2>11 DEF ReadOnce
<1>4. CASE DeleteSingle \/ AddDouble \/ NameDouble \/ RenameStation \/ Destroy
  BY <1>4 DEF DeleteSingle, AddDouble, NameDouble, RenameStation, Destroy, Goto
<1> QED
  BY <1>1, <1>2, <1>3, <1>4, PassKinds

(* Ids and names stay with one object each until the cast has begun.          *)
LEMMA OneNameEachStep ==
  ASSUME PassTypeOK, IndexesAgree, NameTablesAgree, ReadOnce, OneNameEach, CastShape,
         CastLedger, [PassNext]_vars
  PROVE  OneNameEach'
<1> DEFINE Early == {"baseline", "configure_visibility_data", "delete_1", "delete_2"}
<1> SUFFICES ASSUME pc' \in Early PROVE OneNameEach'
  BY DEF OneNameEach
<1>1. CASE StoreAlone
  <2>1. pc \in Early
    BY <1>1 DEF StoreAlone, SkipObject, CloseFile, KeepVisibilities, ChooseVisibilities, Skip,
       LoadReference, LoadRemote, Configured, Ended, vars, passVars, Goto, AfterLoad, Reading
  <2> QED
    BY <1>1, <2>1, AloneStays DEF OneNameEach
<1>2. CASE LoadObject
  <2> DEFINE k == [type |-> Head(file).type, id |-> Head(file).id]
  <2>1. pc = "baseline" /\ ~unnamed /\ file # <<>> /\ AddNew(k)
    BY <1>2 DEF LoadObject, Stay, Reading
  <2>2. 1 \in 1..Len(file) /\ Head(file) = file[1]
    BY <2>1 DEF PassTypeOK
  <2>3. \A l \in DOMAIN idsToObjects : l.id # k.id
    BY <2>1, <2>2 DEF ReadOnce
  <2>4. DOMAIN idsToObjects' = DOMAIN idsToObjects \cup {k} /\ shortNameToIds' = shortNameToIds
    BY <2>1, AddEffect
  <2> HIDE DEF k
  <2> QED
    BY <2>1, <2>3, <2>4 DEF OneNameEach
<1>3. CASE NameObject
  <2>1. pc = "baseline" /\ file # <<>> /\ SetShortName(Head(file).id, Head(file).name)
    BY <1>3 DEF NameObject, Stay, Reading, PassTypeOK
  <2>2. 1 \in 1..Len(file) /\ Head(file) = file[1]
    BY <2>1 DEF PassTypeOK
  <2>3. PICK i, m : i = file[1].id /\ SetShortName(i, m)
    BY <2>1, <2>2
  <2>4. \A n \in DOMAIN shortNameToIds : shortNameToIds[n] # i
    BY <2>1, <2>2, <2>3 DEF ReadOnce
  <2>5. idsToObjects' = idsToObjects
    BY <2>3, NameEffect
  <2>6. \A n \in DOMAIN shortNameToIds' :
          \/ n \in DOMAIN shortNameToIds /\ shortNameToIds'[n] = shortNameToIds[n]
          \/ n = m /\ shortNameToIds'[n] = i
    <3>1. CASE m \in Name \ DOMAIN shortNameToIds /\ IsObjectPresent(i)
      BY <2>3, <3>1, NameEffect
    <3>2. CASE ~(m \in Name \ DOMAIN shortNameToIds /\ IsObjectPresent(i))
      BY <2>3, <3>2, NameEffect, Zenon
    <3> QED
      BY <3>1, <3>2
  <2> QED
    BY <2>1, <2>4, <2>5, <2>6 DEF OneNameEach
<1>4. CASE DeleteSingle
  <2>1. PICK k \in DOMAIN idsToObjects : DeleteObject(idsToObjects[k])
    BY <1>4 DEF DeleteSingle, CastLedger, Replaced, CastSteps, PassTypeOK
  <2>2. pc \in Early
    BY <1>4 DEF DeleteSingle
  <2>3. DOMAIN idsToObjects' \subseteq DOMAIN idsToObjects
    BY <2>1, DeleteEffect
  <2>4. /\ DOMAIN shortNameToIds' \subseteq DOMAIN shortNameToIds
        /\ \A m \in DOMAIN shortNameToIds' : shortNameToIds'[m] = shortNameToIds[m]
    BY <2>1, DeleteEffect
  <2> QED
    BY <2>2, <2>3, <2>4 DEF OneNameEach
<1>5. CASE AddDouble \/ NameDouble \/ RenameStation \/ Destroy
  BY <1>5 DEF AddDouble, NameDouble, RenameStation, Destroy, Goto
<1> QED
  BY <1>1, <1>2, <1>3, <1>4, <1>5, PassKinds

LEMMA GiveName ==
  ASSUME NameTablesAgree, NEW i, NEW n \in Name \cup {""}, NamesOf(i) = {},
         n \notin DOMAIN shortNameToIds, IsObjectPresent(i), SetShortName(i, n)
  PROVE  /\ n \in ShortNames(i)'
         /\ \A j : j # i => NamesOf(j)' = NamesOf(j)
         /\ DOMAIN shortNameToIds' \subseteq DOMAIN shortNameToIds \cup ({n} \cap Name)
<1>1. CASE n \in Name
  <2>1. /\ DOMAIN shortNameToIds' = DOMAIN shortNameToIds \cup {n}
        /\ shortNameToIds'[n] = i
        /\ \A m \in DOMAIN shortNameToIds : shortNameToIds'[m] = shortNameToIds[m]
    BY <1>1, NameEffect
  <2> QED
    BY <1>1, <2>1 DEF NamesOf, ShortNames
<1>2. CASE n \notin Name
  <2>1. shortNameToIds' = shortNameToIds /\ n = ""
    BY <1>2, NameEffect
  <2> QED
    BY <2>1 DEF NamesOf, ShortNames
<1> QED
  BY <1>1, <1>2

LEMMA TakeName ==
  ASSUME StoreTypeOK, IndexesAgree, NEW k \in DOMAIN idsToObjects,
         DeleteObject(idsToObjects[k]), NEW n \in ShortNames(k.id),
         \A l, m \in DOMAIN shortNameToIds : shortNameToIds[l] = shortNameToIds[m] => l = m
  PROVE  /\ DOMAIN idsToObjects' = DOMAIN idsToObjects \ {k}
         /\ NamesOf(k.id)' = {}
         /\ n \notin DOMAIN shortNameToIds'
         /\ \A j : j # k.id => NamesOf(j)' = NamesOf(j)
         /\ DOMAIN shortNameToIds' \subseteq DOMAIN shortNameToIds
<1>1. DOMAIN idsToObjects' = DOMAIN idsToObjects \ {k}
  BY DeleteEffect
<1>2. CASE NamesOf(k.id) = {} /\ shortNameToIds' = shortNameToIds
  <2>1. n = "" /\ n \notin DOMAIN shortNameToIds
    BY <1>2, NameAssumption DEF ShortNames, StoreTypeOK
  <2> QED
    BY <1>1, <1>2, <2>1 DEF NamesOf
<1>3. ASSUME NEW a \in NamesOf(k.id),
             DOMAIN shortNameToIds' = DOMAIN shortNameToIds \ {a},
             \A m \in DOMAIN shortNameToIds' : shortNameToIds'[m] = shortNameToIds[m]
      PROVE  /\ NamesOf(k.id)' = {}
             /\ n \notin DOMAIN shortNameToIds'
             /\ \A j : j # k.id => NamesOf(j)' = NamesOf(j)
             /\ DOMAIN shortNameToIds' \subseteq DOMAIN shortNameToIds
  <2>1. n \in NamesOf(k.id)
    BY <1>3 DEF ShortNames
  <2>2. n = a
    BY <1>3, <2>1 DEF NamesOf
  <2> QED
    BY <1>3, <2>2 DEF NamesOf
<1> QED
  BY <1>1, <1>2, <1>3, DeleteEffect

(* What is cast are two objects of the baseline file, with names of their own. *)
LEMMA CastShapeStep ==
  ASSUME PassTypeOK, OneNameEach, CastShape, Arrivals, RolesFree, [PassNext]_vars
  PROVE  CastShape'
<1>1. CASE ChooseVisibilities
  <2>1. PICK v \in OfType("visibility_store"), w \in OfType("weight_store") :
          \E m \in ShortNames(v.id), n \in ShortNames(w.id) :
            cast' = <<[from |-> v, type |-> "visibility", name |-> m],
                      [from |-> w, type |-> "weight", name |-> n]>>
    BY <1>1 DEF ChooseVisibilities
  <2>2. PICK m \in ShortNames(v.id), n \in ShortNames(w.id) :
          cast' = <<[from |-> v, type |-> "visibility", name |-> m],
                    [from |-> w, type |-> "weight", name |-> n]>>
    BY <2>1
  <2>3. pc = "configure_visibility_data" /\ pc' = "delete_1"
    BY <1>1 DEF ChooseVisibilities, Goto
  <2>4. v.id # w.id
    BY <2>3 DEF OfType, OneNameEach
  <2>5. \A a \in StationNames \cup Roles : a \notin DOMAIN shortNameToIds
    BY <2>3 DEF StationNames, Roles, Arrivals, Arrived, RolesFree, ToReference, ToRemote
  <2>6. "" \notin StationNames \cup Roles
    BY DEF StationNames, Roles
  <2>7. m \notin StationNames \cup Roles /\ n \notin StationNames \cup Roles
    BY <2>5, <2>6 DEF ShortNames, NamesOf
  <2>8. m = n => m = ""
    BY <2>4 DEF ShortNames, NamesOf
  <2>9. v.type = "visibility_store" /\ w.type = "weight_store"
    BY DEF OfType
  <2>10. /\ cast'[1].from = v /\ cast'[1].type = "visibility" /\ cast'[1].name = m
         /\ cast'[2].from = w /\ cast'[2].type = "weight" /\ cast'[2].name = n
    BY <2>2
  <2>11. \A i \in 1..2 : cast'[i].name \notin StationNames \cup Roles
    <3> TAKE i \in 1..2
    <3>1. i = 1 \/ i = 2
      OBVIOUS
    <3> QED
      BY <2>7, <2>10, <3>1
  <2> QED
    BY <2>3, <2>4, <2>8, <2>9, <2>10, <2>11 DEF CastShape
<1>2. CASE StoreAlone /\ ~ChooseVisibilities
  <2>1. /\ cast' = cast
        /\ pc' \in {"baseline", "configure_visibility_data"}
             => pc \in {"baseline", "configure_visibility_data"}
    BY <1>2 DEF StoreAlone, SkipObject, CloseFile, KeepVisibilities, Skip, LoadReference,
       LoadRemote, Configured, Ended, vars, passVars, Goto, AfterLoad, Reading
  <2> QED
    BY <2>1 DEF CastShape
<1>3. CASE LoadObject \/ NameObject
  BY <1>3 DEF LoadObject, NameObject, Stay, CastShape
<1>4. CASE DeleteSingle \/ AddDouble \/ NameDouble \/ RenameStation \/ Destroy
  BY <1>4 DEF DeleteSingle, AddDouble, NameDouble, RenameStation, Destroy, Goto, CastShape
<1> QED
  BY <1>1, <1>2, <1>3, <1>4, PassKinds DEF CastShape

(* Each of the two objects is deleted, added again in double precision, and   *)
(* given its name back, and the other one is not touched by it.               *)
LEMMA CastLedgerStep ==
  ASSUME PassTypeOK, IndexesAgree, NameTablesAgree, OneNameEach, CastShape, CastLedger,
         [PassNext]_vars
  PROVE  CastLedger'
<1> SUFFICES ASSUME pc' \in CastSteps, cast' # <<>> PROVE CastLedger'
  BY DEF CastLedger
<1>1. CASE ChooseVisibilities
  <2>1. PICK v \in OfType("visibility_store"), w \in OfType("weight_store") :
          \E m \in ShortNames(v.id), n \in ShortNames(w.id) :
            cast' = <<[from |-> v, type |-> "visibility", name |-> m],
                      [from |-> w, type |-> "weight", name |-> n]>>
    BY <1>1 DEF ChooseVisibilities
  <2>2. /\ cast'[1].from \in DOMAIN idsToObjects /\ cast'[1].name \in ShortNames(cast'[1].from.id)
        /\ cast'[2].from \in DOMAIN idsToObjects /\ cast'[2].name \in ShortNames(cast'[2].from.id)
    BY <2>1 DEF OfType
  <2>3. pc' = "delete_1" /\ idsToObjects' = idsToObjects /\ shortNameToIds' = shortNameToIds
    BY <1>1, AloneStays DEF ChooseVisibilities, Goto, StoreAlone
  <2> QED
    BY <2>2, <2>3 DEF CastLedger, Replaced, ShortNames, NamesOf
<1>2. CASE StoreAlone /\ ~ChooseVisibilities
  <2>1. cast' = cast /\ pc' = pc
    BY <1>2 DEF StoreAlone, SkipObject, CloseFile, KeepVisibilities, Skip, LoadReference,
       LoadRemote, Configured, Ended, vars, passVars, Goto, AfterLoad, Reading, CastSteps, CastShape
  <2> QED
    BY <1>2, <2>1, AloneStays DEF CastLedger, Replaced, Cast, ShortNames, NamesOf
<1>3. CASE LoadObject \/ NameObject \/ RenameStation \/ Destroy
  BY <1>3 DEF LoadObject, NameObject, RenameStation, Destroy, Stay, Goto, Reading, CastSteps
<1> DEFINE i1 == cast[1].from.id
           i2 == cast[2].from.id
<1>4. ASSUME pc \in CastSteps, cast # <<>>
      PROVE  /\ cast[1] \in Casting /\ cast[2] \in Casting
             /\ cast[1].from \in Key /\ cast[2].from \in Key
             /\ cast[1].name \in Name \cup {""} /\ cast[2].name \in Name \cup {""}
             /\ i1 # i2
             /\ cast[1].from # cast[2].from
  BY <1>4 DEF PassTypeOK, Casting, CastShape
<1>5. CASE pc = "delete_1" /\ DeleteSingle
  <2>1. cast # <<>> /\ cast' = cast /\ pc' = "delete_2" /\ DeleteObject(idsToObjects[cast[1].from])
    BY <1>5 DEF DeleteSingle, Goto, PassTypeOK
  <2>2. /\ cast[1].from \in DOMAIN idsToObjects /\ cast[1].name \in ShortNames(i1)
        /\ cast[2].from \in DOMAIN idsToObjects /\ cast[2].name \in ShortNames(i2)
    BY <1>5, <2>1 DEF CastLedger, Replaced, CastSteps
  <2>3. i1 # i2 /\ cast[1].from # cast[2].from
    BY <1>4, <1>5, <2>1 DEF CastSteps
  <2>4. PICK k, n : k = cast[1].from /\ n = cast[1].name
    OBVIOUS
  <2>5. /\ DOMAIN idsToObjects' = DOMAIN idsToObjects \ {k}
        /\ NamesOf(k.id)' = {}
        /\ n \notin DOMAIN shortNameToIds'
        /\ \A j : j # k.id => NamesOf(j)' = NamesOf(j)
    BY <1>5, <2>1, <2>2, <2>4, TakeName DEF OneNameEach, PassTypeOK
  <2> QED
    BY <2>1, <2>2, <2>3, <2>4, <2>5 DEF CastLedger, Replaced, ShortNames, NamesOf
<1>6. CASE pc = "delete_2" /\ DeleteSingle
  <2>1. cast # <<>> /\ cast' = cast /\ pc' = "add_1" /\ DeleteObject(idsToObjects[cast[2].from])
    BY <1>6 DEF DeleteSingle, Goto, PassTypeOK
  <2>2. /\ cast[1].from \notin DOMAIN idsToObjects /\ NamesOf(i1) = {}
        /\ cast[1].name \notin DOMAIN shortNameToIds
        /\ cast[2].from \in DOMAIN idsToObjects /\ cast[2].name \in ShortNames(i2)
    BY <1>6, <2>1 DEF CastLedger, Replaced, CastSteps
  <2>3. i1 # i2 /\ cast[1].from # cast[2].from
    BY <1>4, <1>6, <2>1 DEF CastSteps
  <2>4. PICK k, n : k = cast[2].from /\ n = cast[2].name
    OBVIOUS
  <2>5. /\ DOMAIN idsToObjects' = DOMAIN idsToObjects \ {k}
        /\ NamesOf(k.id)' = {}
        /\ n \notin DOMAIN shortNameToIds'
        /\ \A j : j # k.id => NamesOf(j)' = NamesOf(j)
        /\ DOMAIN shortNameToIds' \subseteq DOMAIN shortNameToIds
    BY <1>6, <2>1, <2>2, <2>4, TakeName DEF OneNameEach, PassTypeOK
  <2>6. /\ cast[1].from \notin DOMAIN idsToObjects' /\ cast[2].from \notin DOMAIN idsToObjects'
        /\ cast[1].name \notin DOMAIN shortNameToIds'
        /\ cast[2].name \notin DOMAIN shortNameToIds'
    BY <2>2, <2>4, <2>5
  <2>7. NamesOf(i1)' = {} /\ NamesOf(i2)' = {}
    BY <2>1, <2>2, <2>3, <2>4, <2>5 DEF NamesOf
  <2> QED
    BY <2>1, <2>6, <2>7 DEF CastLedger, Replaced
<1>7. CASE AddDouble
  <2>1. /\ cast # <<>> /\ cast' = cast /\ pc \in CastSteps
        /\ \/ pc = "add_1" /\ pc' = "add_2" /\ AddNew(Cast(1))
           \/ pc = "add_2" /\ pc' = "name_1" /\ AddNew(Cast(2))
    BY <1>7 DEF AddDouble, Goto, PassTypeOK, CastSteps
  <2>2. PICK k : AddNew(k) /\ k \in {Cast(1), Cast(2)} /\ (pc = "add_1" => k = Cast(1))
                 /\ (pc = "add_2" => k = Cast(2))
    BY <2>1
  <2>3. DOMAIN idsToObjects' = DOMAIN idsToObjects \cup {k} /\ shortNameToIds' = shortNameToIds
    BY <2>2, AddEffect
  <2>4. k # cast[1].from /\ k # cast[2].from
    <3>1. k.type \in {cast[1].type, cast[2].type}
      BY <2>2 DEF Cast
    <3>2. k.type # cast[1].from.type /\ k.type # cast[2].from.type
      BY <2>1, <3>1 DEF CastShape
    <3> QED
      BY <3>2
  <2> QED
    BY <2>1, <2>2, <2>3, <2>4 DEF CastLedger, Replaced, Cast, ShortNames, NamesOf, CastSteps
<1>8. CASE NameDouble
  <2>1. cast # <<>> /\ cast' = cast /\ pc \in {"name_1", "name_2"} /\ pc \in CastSteps
    BY <1>8 DEF NameDouble, PassTypeOK, CastSteps
  <2>2. Replaced(1, {"delete_1"},
                   {"add_2", "name_1", "name_2", "check_visibilities"},
                   {"delete_2", "add_1", "add_2", "name_1"})
        /\ Replaced(2, {"delete_1", "delete_2"},
                   {"name_1", "name_2", "check_visibilities"},
                   {"add_1", "add_2", "name_1", "name_2"})
    BY <2>1 DEF CastLedger
  <2>3. /\ cast[1].from \notin DOMAIN idsToObjects /\ cast[2].from \notin DOMAIN idsToObjects
        /\ Cast(1) \in DOMAIN idsToObjects /\ Cast(2) \in DOMAIN idsToObjects
        /\ NamesOf(i2) = {} /\ cast[2].name \notin DOMAIN shortNameToIds
        /\ pc = "name_1" => NamesOf(i1) = {} /\ cast[1].name \notin DOMAIN shortNameToIds
        /\ pc = "name_2" => cast[1].name \in ShortNames(i1)
    BY <2>1, <2>2 DEF Replaced
  <2>4. IsObjectPresent(i1) /\ IsObjectPresent(i2)
    BY <2>3 DEF IsObjectPresent, Cast
  <2>5. /\ i1 # i2 /\ cast[1].name \in Name \cup {""} /\ cast[2].name \in Name \cup {""}
        /\ cast[1].name = cast[2].name => cast[1].name = ""
    BY <1>4, <2>1 DEF CastShape
  <2>6. "" \notin Name /\ DOMAIN shortNameToIds \subseteq Name
    BY NameAssumption DEF PassTypeOK, StoreTypeOK
  <2>7. CASE pc = "name_1"
    <3>1. PICK i, n : i = i1 /\ n = cast[1].name /\ SetShortName(i, n)
      BY <1>8, <2>7 DEF NameDouble
    <3>2. /\ n \in ShortNames(i)'
          /\ \A j : j # i => NamesOf(j)' = NamesOf(j)
          /\ DOMAIN shortNameToIds' \subseteq DOMAIN shortNameToIds \cup ({n} \cap Name)
          /\ idsToObjects' = idsToObjects
      <4>1. /\ NamesOf(i) = {} /\ n \in Name \cup {""} /\ n \notin DOMAIN shortNameToIds
            /\ IsObjectPresent(i)
        BY <2>3, <2>4, <2>5, <2>7, <3>1
      <4>2. idsToObjects' = idsToObjects
        BY <3>1, NameEffect
      <4>3. SetShortName(i, n)
        BY <3>1
      <4>4. /\ n \in ShortNames(i)'
            /\ \A j : j # i => NamesOf(j)' = NamesOf(j)
            /\ DOMAIN shortNameToIds' \subseteq DOMAIN shortNameToIds \cup ({n} \cap Name)
        BY <4>1, <4>3, GiveName
      <4> QED
        BY <4>2, <4>4
    <3>3. pc' = "name_2"
      BY <1>8, <2>7 DEF NameDouble, Goto
    <3>4. cast[2].name \notin DOMAIN shortNameToIds'
      BY <2>3, <2>5, <2>6, <3>1, <3>2
    <3> QED
      BY <2>1, <2>3, <2>5, <3>1, <3>2, <3>3, <3>4 DEF CastLedger, Replaced, Cast, ShortNames, NamesOf
  <2>8. CASE pc = "name_2"
    <3>1. PICK i, n : i = i2 /\ n = cast[2].name /\ SetShortName(i, n)
      BY <1>8, <2>8 DEF NameDouble
    <3>2. /\ n \in ShortNames(i)'
          /\ \A j : j # i => NamesOf(j)' = NamesOf(j)
          /\ idsToObjects' = idsToObjects
      <4>1. /\ NamesOf(i) = {} /\ n \in Name \cup {""} /\ n \notin DOMAIN shortNameToIds
            /\ IsObjectPresent(i)
        BY <2>3, <2>4, <2>5, <2>8, <3>1
      <4>2. idsToObjects' = idsToObjects
        BY <3>1, NameEffect
      <4>3. SetShortName(i, n)
        BY <3>1
      <4>4. /\ n \in ShortNames(i)'
            /\ \A j : j # i => NamesOf(j)' = NamesOf(j)
            /\ DOMAIN shortNameToIds' \subseteq DOMAIN shortNameToIds \cup ({n} \cap Name)
        BY <4>1, <4>3, GiveName
      <4> QED
        BY <4>2, <4>4
    <3>3. pc' = "check_visibilities"
      BY <1>8, <2>8 DEF NameDouble, Goto
    <3> QED
      BY <2>1, <2>3, <2>5, <2>8, <3>1, <3>2, <3>3 DEF CastLedger, Replaced, Cast, ShortNames, NamesOf
  <2> QED
    BY <2>1, <2>7, <2>8
<1>9. DeleteSingle => pc \in {"delete_1", "delete_2"}
  BY DEF DeleteSingle
<1> QED
  BY <1>1, <1>2, <1>3, <1>5, <1>6, <1>7, <1>8, <1>9, PassKinds DEF CastSteps

-----------------------------------------------------------------------------
(* The stations of a pass stay; their files are what the file assumption says. *)
LEMMA StationFiles ==
  ASSUME PassTypeOK, NEW f \in {StationFile(Reference), StationFile(Remote)}
  PROVE  /\ f \in Seq(Record)
         /\ \A i, j \in 1..Len(f) : f[i].name = f[j].name /\ f[i].name \in StationNames => i = j
         /\ \A i \in 1..Len(f) : f[i].name \notin Roles
<1>1. baseline \in Baselines
  BY DEF PassTypeOK
<1>2. f \in Seq(Record)
  BY <1>1, PassStoreAssumption DEF Reference, Remote
<1>3. DOMAIN f = 1..Len(f)
  BY <1>2
<1> QED
  BY <1>1, <1>2, <1>3, FileAssumption DEF Reference, Remote, StationNames

LEMMA BaselineStays ==
  ASSUME [PassNext]_vars
  PROVE  baseline' = baseline
BY DEF PassNext, LoadObject, NameObject, SkipObject, CloseFile, KeepVisibilities,
     ChooseVisibilities, DeleteSingle, AddDouble, NameDouble, Skip, LoadReference, LoadRemote,
     RenameStation, Configured, MakeObject, Make, Destroy, Ended, vars, passVars, Goto, Stay

(* The rest of a file gets shorter at its front.                              *)
LEMMA RestShorter ==
  ASSUME NEW f, f \in Seq(Record), file \in Seq(Record), Rest(f), file # <<>>,
         file' = Tail(file)
  PROVE  /\ Rest(f)'
         /\ Taken(f)' = Taken(f) + 1
         /\ Taken(f) \in Nat /\ Taken(f) + 1 \in 1..Len(f)
         /\ file[1] = f[Taken(f) + 1] /\ Head(file) = file[1]
<1>1. Len(file') = Len(file) - 1 /\ \A j \in 1..Len(file') : file'[j] = file[j + 1]
  OBVIOUS
<1>2. Len(file) \in Nat \ {0} /\ Len(f) \in Nat
  OBVIOUS
<1>3. Taken(f)' = Taken(f) + 1
  BY <1>1, <1>2 DEF Taken
<1>4. Taken(f) \in Nat /\ Taken(f) + 1 \in 1..Len(f)
  BY <1>2 DEF Taken, Rest
<1>5. file[1] = f[Taken(f) + 1] /\ Head(file) = file[1]
  BY <1>2 DEF Rest
<1>6. ASSUME NEW j \in 1..Len(file') PROVE file'[j] = f[Taken(f)' + j]
  <2>1. j + 1 \in 1..Len(file) /\ j \in Nat
    BY <1>1, <1>2
  <2>2. file[j + 1] = f[Taken(f) + (j + 1)]
    BY <2>1 DEF Rest
  <2>3. Taken(f) + (j + 1) = Taken(f)' + j
    BY <1>3, <1>4, <2>1
  <2> QED
    BY <1>1, <2>2, <2>3
<1> QED
  BY <1>1, <1>2, <1>3, <1>4, <1>5, <1>6 DEF Rest

(* The next object of a file has the name that is expected there.             *)
LEMMA NextNotRole ==
  ASSUME PassTypeOK, FileNames, Reading, file # <<>>
  PROVE  /\ file[1].name \notin Roles
         /\ pc = "baseline" => file[1].name \notin StationNames
<1>1. file \in Seq(Record) /\ 1 \in 1..Len(file)
  BY DEF PassTypeOK
<1>2. CASE pc = "baseline"
  BY <1>1, <1>2 DEF FileNames
<1>3. ASSUME NEW f \in {StationFile(Reference), StationFile(Remote)}, Rest(f)
      PROVE  file[1].name \notin Roles
  <2>1. f \in Seq(Record)
    BY StationFiles
  <2>2. Taken(f) + 1 \in 1..Len(f) /\ file[1] = f[Taken(f) + 1]
    BY <1>1, <1>3, <2>1 DEF Rest, Taken
  <2> QED
    BY <2>2, StationFiles
<1> QED
  BY <1>2, <1>3 DEF FileNames, Reading

LEMMA FileNamesStep ==
  ASSUME PassTypeOK, FileNames, [PassNext]_vars
  PROVE  FileNames'
<1>1. PICK ref, rem : ref = StationFile(Reference) /\ rem = StationFile(Remote)
  OBVIOUS
<1>2. StationFile(Reference)' = ref /\ StationFile(Remote)' = rem
  BY <1>1, BaselineStays DEF Reference, Remote
<1>3. ref \in Seq(Record) /\ rem \in Seq(Record) /\ file \in Seq(Record)
  BY <1>1, StationFiles DEF PassTypeOK
<1>4. FileNames' <=>
        /\ pc' = "baseline" =>
             \A j \in 1..Len(file') : file'[j].name \notin StationNames \cup Roles
        /\ pc' = "reference" => Rest(ref)'
        /\ pc' = "remote" => Rest(rem)'
  BY <1>2 DEF FileNames
<1>5. /\ pc = "baseline" =>
           \A j \in 1..Len(file) : file[j].name \notin StationNames \cup Roles
      /\ pc = "reference" => Rest(ref)
      /\ pc = "remote" => Rest(rem)
  BY <1>1 DEF FileNames
<1>6. CASE NameObject \/ SkipObject
  <2>1. pc' = pc /\ file # <<>> /\ file' = Tail(file)
    BY <1>6 DEF NameObject, SkipObject, Reading, Stay, PassTypeOK
  <2>2. pc = "reference" => Rest(ref)'
    BY <1>3, <1>5, <2>1, RestShorter
  <2>3. pc = "remote" => Rest(rem)'
    BY <1>3, <1>5, <2>1, RestShorter
  <2>4. ASSUME pc = "baseline", NEW j \in 1..Len(file')
        PROVE  file'[j].name \notin StationNames \cup Roles
    <3>1. j + 1 \in 1..Len(file) /\ file'[j] = file[j + 1]
      BY <1>3, <2>1
    <3> QED
      BY <1>5, <2>4, <3>1
  <2> QED
    BY <1>4, <2>1, <2>2, <2>3, <2>4
<1>7. CASE LoadReference
  <2>1. pc' = "reference" /\ file' = ref
    BY <1>1, <1>7 DEF LoadReference, Goto
  <2>2. Rest(ref)'
    BY <1>3, <2>1 DEF Rest, Taken
  <2> QED
    BY <1>4, <2>1, <2>2
<1>8. CASE LoadRemote
  <2>1. pc' = "remote" /\ file' = rem
    BY <1>1, <1>8 DEF LoadRemote, Goto
  <2>2. Rest(rem)'
    BY <1>3, <2>1 DEF Rest, Taken
  <2> QED
    BY <1>4, <2>1, <2>2
<1>9. CASE UNCHANGED <<pc, file>>
  BY <1>4, <1>5, <1>9 DEF Rest, Taken
<1>10. CASE pc' \notin {"baseline", "reference", "remote"}
  BY <1>4, <1>10
<1>11. \/ UNCHANGED <<pc, file>> \/ pc' \notin {"baseline", "reference", "remote"}
       \/ NameObject \/ SkipObject \/ LoadReference \/ LoadRemote
  BY DEF PassNext, LoadObject, CloseFile, KeepVisibilities, ChooseVisibilities, DeleteSingle,
     AddDouble, NameDouble, Skip, RenameStation, Configured, MakeObject, Make, Destroy, Ended,
     vars, passVars, Goto, Stay, AfterLoad, Reading
<1> QED
  BY <1>6, <1>7, <1>8, <1>9, <1>10, <1>11

(* Where a name comes from.                                                   *)
LEMMA NamesMove ==
  ASSUME PassTypeOK, IndexesAgree, NameTablesAgree, CastLedger, [PassNext]_vars,
         NEW m \in DOMAIN shortNameToIds'
  PROVE  \/ m \in DOMAIN shortNameToIds /\ shortNameToIds'[m] = shortNameToIds[m]
         \/ NameObject /\ m = file[1].name /\ shortNameToIds'[m] = file[1].id
         \/ NameDouble /\ cast # <<>> /\ m \in {cast[1].name, cast[2].name}
         \/ /\ pc \in {"cache_v", "cache_w", "fit", "finalize"}
            /\ pc' \in {"cache_v", "cache_w", "fit", "finalize", "ready"}
            /\ m \in Made
         \/ \E a \in {"sta", "pcal"} :
              /\ a \in DOMAIN shortNameToIds /\ shortNameToIds'[m] = shortNameToIds[a]
              /\ \/ pc = "sta_reference" /\ a = "sta" /\ m = "ref_sta"
                 \/ pc = "pcal_reference" /\ a = "pcal" /\ m = "ref_pcal"
                 \/ pc = "sta_remote" /\ a = "sta" /\ m = "rem_sta"
                 \/ pc = "pcal_remote" /\ a = "pcal" /\ m = "rem_pcal"
<1>1. ASSUME NEW i, NEW n, SetShortName(i, n)
      PROVE  \/ m \in DOMAIN shortNameToIds /\ shortNameToIds'[m] = shortNameToIds[m]
             \/ m = n /\ shortNameToIds'[m] = i
  BY <1>1, NameEffect
<1>2. CASE StoreAlone
  BY <1>2, AloneStays
<1>3. CASE LoadObject \/ AddDouble \/ \E k \in Key : AddNew(k)
  BY <1>3, AddEffect DEF LoadObject, AddDouble
<1>4. CASE NameObject
  <2>1. file # <<>> /\ file \in Seq(Record)
    BY <1>4 DEF NameObject, Reading, PassTypeOK
  <2>2. SetShortName(file[1].id, file[1].name)
    BY <1>4, <2>1 DEF NameObject
  <2> QED
    BY <1>1, <1>4, <2>2
<1>5. CASE DeleteSingle
  <2>1. PICK k \in DOMAIN idsToObjects : DeleteObject(idsToObjects[k])
    BY <1>5 DEF DeleteSingle, CastLedger, Replaced, CastSteps, PassTypeOK
  <2> QED
    BY <2>1, DeleteEffect
<1>6. CASE NameDouble
  BY <1>1, <1>6 DEF NameDouble, PassTypeOK
<1>7. CASE RenameStation
  <2>1. ASSUME NEW a, NEW b \in Name, a # b, RenameObject(a, b)
        PROVE  \/ m \in DOMAIN shortNameToIds /\ shortNameToIds'[m] = shortNameToIds[m]
               \/ m = b /\ a \in DOMAIN shortNameToIds /\ shortNameToIds'[m] = shortNameToIds[a]
    BY <2>1, RenameEffect
  <2> QED
    BY <1>7, <2>1, PassStoreAssumption DEF RenameStation
<1>8. CASE Destroy
  BY <1>8 DEF Destroy, Clear, names
<1>9. CASE /\ pc \in {"cache_v", "cache_w", "fit", "finalize"}
           /\ pc' \in {"cache_v", "cache_w", "fit", "finalize", "ready"}
           /\ \E n \in Made : SetShortName(n, n)
  BY <1>1, <1>9
<1> QED
  BY <1>2, <1>3, <1>4, <1>5, <1>6, <1>7, <1>8, <1>9, PassKinds

(* The steps of Configure come one after another.                             *)
LEMMA Forward ==
  ASSUME PassTypeOK, [PassNext]_vars
  PROVE  /\ pc' \in ToReference => pc \in ToReference
         /\ pc' \in ToReference \cup {"pcal_reference"} => pc \in ToReference \cup {"pcal_reference"}
         /\ pc' \in ToRemote => pc \in ToRemote
         /\ pc' \in ToRemote \cup {"pcal_remote"} => pc \in ToRemote \cup {"pcal_remote"}
<1> USE DEF ToReference, ToRemote, CastSteps
<1>1. CASE StoreAlone
  BY <1>1 DEF StoreAlone, SkipObject, CloseFile, KeepVisibilities, ChooseVisibilities, Skip,
     LoadReference, LoadRemote, Configured, Ended, vars, passVars, Goto, AfterLoad, Reading
<1>2. CASE LoadObject \/ NameObject
  BY <1>2 DEF LoadObject, NameObject, Stay
<1>3. CASE DeleteSingle \/ AddDouble \/ NameDouble \/ RenameStation \/ Destroy
  BY <1>3 DEF DeleteSingle, AddDouble, NameDouble, RenameStation, Destroy, Goto
<1> QED
  BY <1>1, <1>2, <1>3, PassKinds

(* Only a rename leaves the step in which it is done.                         *)
LEMMA RenameLeaves ==
  ASSUME PassTypeOK, [PassNext]_vars,
         pc \in {"sta_reference", "pcal_reference", "sta_remote", "pcal_remote"}
  PROVE  \/ StoreAlone /\ UNCHANGED vars
         \/ RenameStation /\ UNCHANGED <<baseline, file, cast, whole, unnamed>>
BY DEF PassNext, StoreAlone, LoadObject, NameObject, SkipObject, CloseFile, KeepVisibilities,
   ChooseVisibilities, DeleteSingle, AddDouble, NameDouble, Skip, LoadReference, LoadRemote,
   RenameStation, Configured, MakeObject, Make, Destroy, Ended, Reading, Goto

LEMMA RolesFreeStep ==
  ASSUME PassTypeOK, IndexesAgree, NameTablesAgree, CastShape, CastLedger, FileNames,
         RolesFree, [PassNext]_vars
  PROVE  RolesFree'
<1>1. ASSUME NEW m \in Roles, m \in DOMAIN shortNameToIds', m \notin DOMAIN shortNameToIds
      PROVE  \/ pc = "sta_reference" /\ m = "ref_sta"
             \/ pc = "pcal_reference" /\ m = "ref_pcal"
             \/ pc = "sta_remote" /\ m = "rem_sta"
             \/ pc = "pcal_remote" /\ m = "rem_pcal"
  <2>1. ~(NameObject /\ m = file[1].name)
    BY NextNotRole DEF NameObject, PassTypeOK, Reading
  <2>2. ~(cast # <<>> /\ m \in {cast[1].name, cast[2].name})
    <3>1. 1 \in 1..2 /\ 2 \in 1..2
      OBVIOUS
    <3> QED
      BY <3>1 DEF CastShape
  <2>3. m \notin Made
    BY DEF Made, Roles
  <2> QED
    BY <1>1, <2>1, <2>2, <2>3, NamesMove
<1>2. /\ pc = "sta_reference" /\ pc' = pc => UNCHANGED shortNameToIds
      /\ pc = "pcal_reference" /\ pc' = pc => UNCHANGED shortNameToIds
      /\ pc = "sta_remote" /\ pc' = pc => UNCHANGED shortNameToIds
      /\ pc = "pcal_remote" /\ pc' = pc => UNCHANGED shortNameToIds
  BY RenameLeaves, AloneStays DEF RenameStation, Goto
<1>3. /\ pc = "sta_reference" => pc' \in {"sta_reference", "pcal_reference"}
      /\ pc = "pcal_reference" => pc' \in {"pcal_reference", "load_remote"}
      /\ pc = "sta_remote" => pc' \in {"sta_remote", "pcal_remote"}
      /\ pc = "pcal_remote" => pc' \in {"pcal_remote", "check_stations"}
  BY RenameLeaves DEF RenameStation, Goto, vars, passVars
<1>4. pc' \in ToReference => "ref_sta" \notin DOMAIN shortNameToIds'
  BY <1>1, <1>2, <1>3, Forward DEF RolesFree, Roles, ToReference, CastSteps
<1>5. pc' \in ToReference \cup {"pcal_reference"} => "ref_pcal" \notin DOMAIN shortNameToIds'
  BY <1>1, <1>2, <1>3, Forward DEF RolesFree, Roles, ToReference, CastSteps
<1>6. pc' \in ToRemote => "rem_sta" \notin DOMAIN shortNameToIds'
  BY <1>1, <1>2, <1>3, Forward DEF RolesFree, Roles, ToReference, ToRemote, CastSteps
<1>7. pc' \in ToRemote \cup {"pcal_remote"} => "rem_pcal" \notin DOMAIN shortNameToIds'
  BY <1>1, <1>2, <1>3, Forward DEF RolesFree, Roles, ToReference, ToRemote, CastSteps
<1> QED
  BY <1>4, <1>5, <1>6, <1>7 DEF RolesFree

(* The data of a station come from its file, and are renamed before the next  *)
(* file is opened.                                                            *)
LEMMA ArrivalsStep ==
  ASSUME PassTypeOK, IndexesAgree, NameTablesAgree, CastShape, CastLedger, FileNames,
         Arrivals, [PassNext]_vars
  PROVE  Arrivals'
<1>1. PICK ref, rem : ref = StationFile(Reference) /\ rem = StationFile(Remote)
  OBVIOUS
<1>2. StationFile(Reference)' = ref /\ StationFile(Remote)' = rem
  BY <1>1, BaselineStays DEF Reference, Remote
<1>3. ref \in Seq(Record) /\ rem \in Seq(Record) /\ file \in Seq(Record)
  BY <1>1, StationFiles DEF PassTypeOK
<1>4. ASSUME NEW m \in StationNames, m \in DOMAIN shortNameToIds'
      PROVE  \/ m \in DOMAIN shortNameToIds /\ shortNameToIds'[m] = shortNameToIds[m]
             \/ NameObject /\ m = file[1].name /\ shortNameToIds'[m] = file[1].id
  <2>1. ~(cast # <<>> /\ m \in {cast[1].name, cast[2].name})
    <3>1. 1 \in 1..2 /\ 2 \in 1..2
      OBVIOUS
    <3> QED
      BY <3>1 DEF CastShape
  <2>2. m \notin Made /\ m \notin Roles
    BY DEF Made, Roles, StationNames
  <2> QED
    BY <1>4, <2>1, <2>2, NamesMove DEF Roles
<1>5. ASSUME NEW m \in StationNames, m \in DOMAIN shortNameToIds',
             NEW f \in {ref, rem}, NameObject, pc \in {"reference", "remote"}, Rest(f),
             m \in DOMAIN shortNameToIds => ReadFrom(f, m)
      PROVE  ReadFrom(f, m)'
  <2>1. file # <<>> /\ file' = Tail(file) /\ pc' = pc
    BY <1>5 DEF NameObject, Reading, Stay, PassTypeOK
  <2>2. /\ Taken(f)' = Taken(f) + 1 /\ Taken(f) \in Nat /\ Taken(f) + 1 \in 1..Len(f)
        /\ file[1] = f[Taken(f) + 1]
    BY <1>3, <1>5, <2>1, RestShorter
  <2>3. DOMAIN f = 1..Len(f)
    BY <1>3
  <2>4. CASE m \in DOMAIN shortNameToIds /\ shortNameToIds'[m] = shortNameToIds[m]
    <3>1. PICK j \in DOMAIN f : f[j].name = m /\ f[j].id = shortNameToIds[m] /\ j <= Taken(f)
      BY <1>5, <2>4 DEF ReadFrom
    <3>2. j <= Taken(f)'
      BY <2>2, <2>3, <3>1
    <3> QED
      BY <2>4, <3>1, <3>2 DEF ReadFrom
  <2>5. CASE m = file[1].name /\ shortNameToIds'[m] = file[1].id
    <3>1. Taken(f) + 1 \in DOMAIN f /\ Taken(f) + 1 <= Taken(f)'
      BY <2>2, <2>3
    <3> QED
      BY <2>2, <2>5, <3>1 DEF ReadFrom
  <2> QED
    BY <1>4, <1>5, <2>4, <2>5
<1>6. ASSUME NEW m \in StationNames, m \in DOMAIN shortNameToIds',
             NEW f \in {ref, rem}, ~NameObject,
             ReadFrom(f, m), f \in Seq(Record),
             pc' \in {"reference", "remote"} =>
               pc' = pc /\ (file' = file \/ (file # <<>> /\ file' = Tail(file) /\ Rest(f)))
      PROVE  ReadFrom(f, m)'
  <2>1. m \in DOMAIN shortNameToIds /\ shortNameToIds'[m] = shortNameToIds[m]
    BY <1>4, <1>6
  <2>2. PICK j \in DOMAIN f : f[j].name = m /\ f[j].id = shortNameToIds[m]
                              /\ (pc \in {"reference", "remote"} => j <= Taken(f))
    BY <1>6 DEF ReadFrom
  <2>3. j \in Nat /\ (file' = file => Taken(f)' = Taken(f))
    BY <1>6 DEF Taken
  <2>4. file # <<>> /\ file' = Tail(file) /\ Rest(f)
          => Taken(f)' = Taken(f) + 1 /\ Taken(f) \in Nat
    BY <1>3, <1>6, RestShorter
  <2>5. pc' \in {"reference", "remote"} => j <= Taken(f)'
    BY <1>6, <2>2, <2>3, <2>4
  <2> QED
    BY <2>1, <2>2, <2>5 DEF ReadFrom
<1> DEFINE AtRef(m) == {"reference", "sta_reference"}
                         \cup (IF m = "pcal" THEN {"pcal_reference"} ELSE {})
           AtRem(m) == {"remote", "sta_remote"}
                         \cup (IF m = "pcal" THEN {"pcal_remote"} ELSE {})
<1>7. ASSUME NEW m \in StationNames, m \in DOMAIN shortNameToIds
      PROVE  \/ pc \in AtRef(m) /\ ReadFrom(ref, m)
             \/ pc \in AtRem(m) /\ ReadFrom(rem, m)
  BY <1>1, <1>7 DEF Arrivals, Arrived, StationNames
<1>8. ASSUME NEW m \in StationNames, m \in DOMAIN shortNameToIds'
      PROVE  \/ pc' \in AtRef(m) /\ ReadFrom(ref, m)'
             \/ pc' \in AtRem(m) /\ ReadFrom(rem, m)'
  <2>1. CASE NameObject
    <3>1. pc' = pc /\ Reading /\ file # <<>>
      BY <2>1 DEF NameObject, Stay, PassTypeOK, Reading
    <3>2. pc # "baseline"
      <4>1. pc = "baseline" => file[1].name \notin StationNames
        BY <3>1, NextNotRole
      <4> QED
        BY <1>4, <1>7, <1>8, <4>1
    <3>3. CASE pc = "reference"
      <4>1. Rest(ref)
        BY <1>1, <3>3 DEF FileNames
      <4>2. m \in DOMAIN shortNameToIds => ReadFrom(ref, m)
        BY <1>7, <3>3
      <4> QED
        BY <1>5, <1>8, <2>1, <3>1, <3>3, <4>1, <4>2
    <3>4. CASE pc = "remote"
      <4>1. Rest(rem)
        BY <1>1, <3>4 DEF FileNames
      <4>2. m \in DOMAIN shortNameToIds => ReadFrom(rem, m)
        BY <1>7, <3>4
      <4> QED
        BY <1>5, <1>8, <2>1, <3>1, <3>4, <4>1, <4>2
    <3> QED
      BY <3>1, <3>2, <3>3, <3>4 DEF Reading
  <2>2. CASE ~NameObject
    <3>1. m \in DOMAIN shortNameToIds
      BY <1>4, <1>8, <2>2
    <3>2. CASE RenameStation
      <4>1. /\ pc \in {"sta_reference", "sta_remote"} => m # "sta"
            /\ pc \in {"pcal_reference", "pcal_remote"} => m # "pcal"
        BY <1>8, <3>2, RenameEffect, PassStoreAssumption DEF RenameStation
      <4>2. \/ pc = "sta_reference" /\ pc' = "pcal_reference"
            \/ pc = "pcal_reference" /\ pc' = "load_remote"
            \/ pc = "sta_remote" /\ pc' = "pcal_remote"
            \/ pc = "pcal_remote" /\ pc' = "check_stations"
        BY <3>2 DEF RenameStation, Goto
      <4>3. pc' \notin {"reference", "remote"}
        BY <4>2
      <4> QED
        BY <1>3, <1>6, <1>7, <1>8, <2>2, <3>1, <4>1, <4>2, <4>3 DEF StationNames
    <3>3. CASE ~RenameStation
      <4>1. pc \in {"reference", "sta_reference", "pcal_reference",
                    "remote", "sta_remote", "pcal_remote"}
        BY <1>7, <3>1 DEF StationNames
      <4>2. \/ pc' = pc /\ file' = file
            \/ pc' = pc /\ SkipObject
            \/ pc = "reference" /\ pc' = "sta_reference"
            \/ pc = "remote" /\ pc' = "sta_remote"
        BY <2>2, <3>3, <4>1 DEF PassNext, LoadObject, SkipObject, CloseFile, KeepVisibilities,
           ChooseVisibilities, DeleteSingle, AddDouble, NameDouble, Skip, LoadReference,
           LoadRemote, Configured, MakeObject, Make, Destroy, Ended, vars, passVars, Goto, Stay,
           AfterLoad, Reading
      <4>3. SkipObject => file # <<>> /\ file' = Tail(file)
        BY DEF SkipObject
      <4>4. (pc = "reference" => Rest(ref)) /\ (pc = "remote" => Rest(rem))
        BY <1>1 DEF FileNames
      <4>5. ASSUME pc \in AtRef(m), ReadFrom(ref, m)
            PROVE  pc' \in AtRef(m) /\ ReadFrom(ref, m)'
        <5>1. pc' \in AtRef(m)
          BY <4>2, <4>5
        <5>2. pc' \in {"reference", "remote"} =>
                pc' = pc /\ (file' = file \/ (file # <<>> /\ file' = Tail(file) /\ Rest(ref)))
          <6>1. AtRef(m) \subseteq {"reference", "sta_reference", "pcal_reference"}
            OBVIOUS
          <6> HIDE DEF AtRef
          <6>2. pc' \in {"reference", "remote"} => pc' = "reference"
            BY <5>1, <6>1
          <6> QED
            BY <4>2, <4>3, <4>4, <6>2
        <5> QED
          BY <1>3, <1>6, <1>8, <2>2, <4>5, <5>1, <5>2
      <4>6. ASSUME pc \in AtRem(m), ReadFrom(rem, m)
            PROVE  pc' \in AtRem(m) /\ ReadFrom(rem, m)'
        <5>1. pc' \in AtRem(m)
          BY <4>2, <4>6
        <5>2. pc' \in {"reference", "remote"} =>
                pc' = pc /\ (file' = file \/ (file # <<>> /\ file' = Tail(file) /\ Rest(rem)))
          <6>1. AtRem(m) \subseteq {"remote", "sta_remote", "pcal_remote"}
            OBVIOUS
          <6> HIDE DEF AtRem
          <6>2. pc' \in {"reference", "remote"} => pc' = "remote"
            BY <5>1, <6>1
          <6> QED
            BY <4>2, <4>3, <4>4, <6>2
        <5> QED
          BY <1>3, <1>6, <1>8, <2>2, <4>6, <5>1, <5>2
      <4> QED
        BY <1>7, <3>1, <4>5, <4>6
    <3> QED
      BY <3>2, <3>3
  <2> QED
    BY <2>1, <2>2
<1> QED
  BY <1>2, <1>8 DEF Arrivals, Arrived, StationNames

(* A role leads to data of its station.                                       *)
LEMMA RolesKeptStep ==
  ASSUME PassTypeOK, IndexesAgree, NameTablesAgree, CastShape, CastLedger, FileNames,
         Arrivals, RolesKept, [PassNext]_vars
  PROVE  RolesKept'
<1>1. PICK ref, rem : ref = StationFile(Reference) /\ rem = StationFile(Remote)
  OBVIOUS
<1>2. StationFile(Reference)' = ref /\ StationFile(Remote)' = rem
  BY <1>1, BaselineStays DEF Reference, Remote
<1>3. ASSUME NEW n \in Roles, n \in DOMAIN shortNameToIds'
      PROVE  \/ n \in DOMAIN shortNameToIds /\ shortNameToIds'[n] = shortNameToIds[n]
             \/ \E a \in {"sta", "pcal"} :
                  /\ a \in DOMAIN shortNameToIds /\ shortNameToIds'[n] = shortNameToIds[a]
                  /\ \/ pc = "sta_reference" /\ a = "sta" /\ n = "ref_sta"
                     \/ pc = "pcal_reference" /\ a = "pcal" /\ n = "ref_pcal"
                     \/ pc = "sta_remote" /\ a = "sta" /\ n = "rem_sta"
                     \/ pc = "pcal_remote" /\ a = "pcal" /\ n = "rem_pcal"
  <2>1. ~(NameObject /\ n = file[1].name)
    BY NextNotRole DEF NameObject, PassTypeOK, Reading
  <2>2. ~(cast # <<>> /\ n \in {cast[1].name, cast[2].name})
    <3>1. 1 \in 1..2 /\ 2 \in 1..2
      OBVIOUS
    <3> QED
      BY <3>1 DEF CastShape
  <2>3. n \notin Made
    BY DEF Made, Roles
  <2> QED
    BY <1>3, <2>1, <2>2, <2>3, NamesMove
<1>4. /\ pc \in {"sta_reference", "pcal_reference"} =>
           \A a \in {"sta", "pcal"} : a \in DOMAIN shortNameToIds /\ (a = "sta" => pc = "sta_reference")
             => shortNameToIds[a] \in Ids(ref)
      /\ pc \in {"sta_remote", "pcal_remote"} =>
           \A a \in {"sta", "pcal"} : a \in DOMAIN shortNameToIds /\ (a = "sta" => pc = "sta_remote")
             => shortNameToIds[a] \in Ids(rem)
  BY <1>1 DEF Arrivals, Arrived, ReadFrom, Ids
<1>5. ASSUME NEW n \in DOMAIN shortNameToIds', n \in {"ref_sta", "ref_pcal"}
      PROVE  shortNameToIds'[n] \in Ids(ref)
  BY <1>1, <1>3, <1>4, <1>5 DEF RolesKept, Roles
<1>6. ASSUME NEW n \in DOMAIN shortNameToIds', n \in {"rem_sta", "rem_pcal"}
      PROVE  shortNameToIds'[n] \in Ids(rem)
  BY <1>1, <1>3, <1>4, <1>6 DEF RolesKept, Roles
<1> QED
  BY <1>2, <1>5, <1>6 DEF RolesKept, Ids

(* Found under a name, the data stay found as long as the name leads to them. *)
LEMMA FoundStays ==
  ASSUME NEW f, NEW n, NEW sta, NEW pcal, FoundTo(f, n, sta, pcal),
         DOMAIN idsToObjects \subseteq DOMAIN idsToObjects',
         \A m \in {sta, pcal} \cap DOMAIN shortNameToIds :
           m \in DOMAIN shortNameToIds' /\ shortNameToIds'[m] = shortNameToIds[m]
  PROVE  FoundTo(f, n, sta, pcal)'
BY DEF FoundTo, HasObject

LEMMA FoundWhole ==
  ASSUME NEW f \in Seq(Record), NEW sta, NEW pcal
  PROVE  /\ FoundAs(f, sta, pcal) <=> FoundTo(f, Len(f), sta, pcal)
         /\ FoundAs(f, sta, pcal)' <=> FoundTo(f, Len(f), sta, pcal)'
<1>1. DOMAIN f = 1..Len(f)
  OBVIOUS
<1> QED
  BY <1>1 DEF FoundAs, FoundTo

LEMMA FoundAsStays ==
  ASSUME NEW f, NEW sta, NEW pcal, FoundAs(f, sta, pcal),
         DOMAIN idsToObjects \subseteq DOMAIN idsToObjects',
         \A m \in {sta, pcal} \cap DOMAIN shortNameToIds :
           m \in DOMAIN shortNameToIds' /\ shortNameToIds'[m] = shortNameToIds[m]
  PROVE  FoundAs(f, sta, pcal)'
BY DEF FoundAs, HasObject

(* A rename to a free name takes the data along.                              *)
LEMMA StationRenamed ==
  ASSUME NameTablesAgree, NEW f, NEW role \in Name, NEW pcal,
         role \notin DOMAIN shortNameToIds, role # "sta", pcal \notin {"sta", role},
         "sta" \in DOMAIN shortNameToIds => IsObjectPresent(shortNameToIds["sta"]),
         FoundAs(f, "sta", pcal), RenameObject("sta", role)
  PROVE  FoundAs(f, role, pcal)'
<1>1. /\ idsToObjects' = idsToObjects
      /\ \A m \in DOMAIN shortNameToIds \ {"sta"} :
           m \in DOMAIN shortNameToIds' /\ shortNameToIds'[m] = shortNameToIds[m]
      /\ "sta" \in DOMAIN shortNameToIds =>
           role \in DOMAIN shortNameToIds' /\ shortNameToIds'[role] = shortNameToIds["sta"]
  BY RenameEffect
<1> QED
  BY <1>1 DEF FoundAs, HasObject

LEMMA PcalRenamed ==
  ASSUME NameTablesAgree, NEW f, NEW sta, NEW role \in Name,
         role \notin DOMAIN shortNameToIds, role # "pcal", sta \notin {"pcal", role},
         "pcal" \in DOMAIN shortNameToIds => IsObjectPresent(shortNameToIds["pcal"]),
         FoundAs(f, sta, "pcal"), RenameObject("pcal", role)
  PROVE  FoundAs(f, sta, role)'
<1>1. /\ idsToObjects' = idsToObjects
      /\ \A m \in DOMAIN shortNameToIds \ {"pcal"} :
           m \in DOMAIN shortNameToIds' /\ shortNameToIds'[m] = shortNameToIds[m]
      /\ "pcal" \in DOMAIN shortNameToIds =>
           role \in DOMAIN shortNameToIds' /\ shortNameToIds'[role] = shortNameToIds["pcal"]
  BY RenameEffect
<1> QED
  BY <1>1 DEF FoundAs, HasObject

(* The next object of a station file is found under its name: the store has    *)
(* nothing of this name, as the file has the name but once.                   *)
LEMMA NextIsFound ==
  ASSUME PassTypeOK, NameTablesAgree, Complete, Arrivals, NameObject,
         NEW f, \/ pc = "reference" /\ f = StationFile(Reference)
                \/ pc = "remote" /\ f = StationFile(Remote),
         Rest(f), FoundTo(f, Taken(f), "sta", "pcal")
  PROVE  FoundTo(f, Taken(f), "sta", "pcal")'
<1>1. f \in Seq(Record) /\ f \in {StationFile(Reference), StationFile(Remote)}
  BY StationFiles
<1>2. file \in Seq(Record) /\ file # <<>> /\ file' = Tail(file) /\ unnamed
  BY DEF NameObject, Reading, PassTypeOK
<1>3. /\ Taken(f)' = Taken(f) + 1 /\ Taken(f) \in Nat /\ Taken(f) + 1 \in 1..Len(f)
      /\ file[1] = f[Taken(f) + 1] /\ Head(file) = file[1]
  BY <1>1, <1>2, RestShorter
<1>4. PICK n : n = Taken(f) /\ n \in Nat
  BY <1>3
<1>5. DOMAIN f = 1..Len(f) /\ f[n + 1] \in Record
  BY <1>1, <1>3, <1>4
<1>6. PICK r : r = f[n + 1] /\ r \in Record
  BY <1>5
<1>7. PICK i, m : i = r.id /\ m = r.name /\ SetShortName(i, m)
  BY <1>3, <1>4, <1>6 DEF NameObject
<1>8. [type |-> r.type, id |-> i] \in DOMAIN idsToObjects
  BY <1>2, <1>3, <1>4, <1>6, <1>7 DEF Complete
<1>9. m \in StationNames => m \notin DOMAIN shortNameToIds
  <2>1. SUFFICES ASSUME m \in StationNames, m \in DOMAIN shortNameToIds PROVE FALSE
    OBVIOUS
  <2>2. ReadFrom(f, m)
    BY <2>1 DEF Arrivals, Arrived, StationNames
  <2>3. PICK j \in DOMAIN f : f[j].name = m /\ j <= n
    BY <1>4, <2>2 DEF ReadFrom
  <2>4. j = n + 1
    BY <1>1, <1>3, <1>4, <1>5, <1>6, <1>7, <2>1, <2>3, StationFiles
  <2>5. j \in Nat
    BY <1>5, <2>3
  <2> QED
    BY <1>4, <2>3, <2>4, <2>5
<1>10. IsObjectPresent(i)
  BY <1>8 DEF IsObjectPresent
<1>11. /\ idsToObjects' = idsToObjects
       /\ \A a \in DOMAIN shortNameToIds :
            a \in DOMAIN shortNameToIds' /\ shortNameToIds'[a] = shortNameToIds[a]
       /\ m \in StationNames => m \in DOMAIN shortNameToIds' /\ shortNameToIds'[m] = i
  <2>1. m \in StationNames => m \in Name \ DOMAIN shortNameToIds
    BY <1>9, PassStoreAssumption DEF StationNames
  <2>2. CASE m \in Name \ DOMAIN shortNameToIds /\ IsObjectPresent(i)
    BY <1>7, <2>2, NameEffect
  <2>3. CASE ~(m \in Name \ DOMAIN shortNameToIds /\ IsObjectPresent(i))
    <3>1. m \notin StationNames
      BY <1>10, <2>1, <2>3
    <3>2. idsToObjects' = idsToObjects /\ shortNameToIds' = shortNameToIds
      BY <1>7, <2>3, NameEffect
    <3> QED
      BY <3>1, <3>2
  <2> QED
    BY <2>2, <2>3
<1>12. FoundTo(f, n, "sta", "pcal")'
  BY <1>4, <1>11, FoundStays
<1>13. m \in StationNames => HasObject(r.type, m)'
  BY <1>8, <1>11 DEF HasObject
<1>14. ASSUME NEW j \in 1..(n + 1)
       PROVE  /\ f[j].name = "sta" => HasObject(f[j].type, "sta")'
              /\ f[j].name = "pcal" => HasObject(f[j].type, "pcal")'
  <2>1. CASE j \in 1..n
    BY <1>12, <2>1 DEF FoundTo
  <2>2. CASE j = n + 1
    BY <1>6, <1>7, <1>13, <2>2 DEF StationNames
  <2> QED
    BY <1>4, <2>1, <2>2
<1>15. Taken(f)' = n + 1
  BY <1>3, <1>4
<1> QED
  BY <1>14, <1>15 DEF FoundTo

(* What was found of the files stays found, and what is read is found.         *)
LEMMA ProgressStep ==
  ASSUME PassTypeOK, IndexesAgree, NameTablesAgree, NamesResolve, FileNames, Arrivals,
         RolesFree, Complete, [PassNext]_vars, whole,
         whole',
         NEW ref, NEW rem, ref = StationFile(Reference), rem = StationFile(Remote)
  PROVE  Progress(ref, rem)'
<1> DEFINE Steps == {"reference", "sta_reference", "pcal_reference", "load_remote", "remote",
                     "sta_remote", "pcal_remote", "check_stations"}
<1> SUFFICES ASSUME pc' \in Steps PROVE Progress(ref, rem)'
  BY DEF Progress
<1>1. Progress(ref, rem)
  BY DEF Complete
<1>2. ref \in Seq(Record) /\ rem \in Seq(Record) /\ file \in Seq(Record)
  BY StationFiles DEF PassTypeOK
<1>3. (pc = "reference" => Rest(ref)) /\ (pc = "remote" => Rest(rem))
  BY DEF FileNames
<1>4. ASSUME pc' = pc, DOMAIN idsToObjects \subseteq DOMAIN idsToObjects', NEW n, n = Taken(ref),
             NEW k, k = Taken(rem),
             \A m \in DOMAIN shortNameToIds :
               m \in DOMAIN shortNameToIds' /\ shortNameToIds'[m] = shortNameToIds[m]
      PROVE  /\ pc = "reference" => FoundTo(ref, n, "sta", "pcal")'
             /\ pc = "sta_reference" => FoundAs(ref, "sta", "pcal")'
             /\ pc = "pcal_reference" => FoundAs(ref, "ref_sta", "pcal")'
             /\ pc \in {"load_remote", "remote", "sta_remote", "pcal_remote", "check_stations"} =>
                  FoundAs(ref, "ref_sta", "ref_pcal")'
             /\ pc = "remote" => FoundTo(rem, k, "sta", "pcal")'
             /\ pc = "sta_remote" => FoundAs(rem, "sta", "pcal")'
             /\ pc = "pcal_remote" => FoundAs(rem, "rem_sta", "pcal")'
             /\ pc = "check_stations" => FoundAs(rem, "rem_sta", "rem_pcal")'
  BY <1>1, <1>4, FoundStays, FoundAsStays DEF Progress
<1> DEFINE Kept == \A m \in DOMAIN shortNameToIds :
                     m \in DOMAIN shortNameToIds' /\ shortNameToIds'[m] = shortNameToIds[m]
<1>5. CASE UNCHANGED <<pc, file>> /\ DOMAIN idsToObjects \subseteq DOMAIN idsToObjects' /\ Kept
  <2>1. PICK n, k : n = Taken(ref) /\ k = Taken(rem)
    OBVIOUS
  <2>2. Taken(ref)' = n /\ Taken(rem)' = k
    BY <1>5, <2>1 DEF Taken
  <2>3. FoundTo(ref, n, "sta", "pcal")' <=> FoundTo(ref, Taken(ref), "sta", "pcal")'
    BY <2>2 DEF FoundTo
  <2>4. FoundTo(rem, k, "sta", "pcal")' <=> FoundTo(rem, Taken(rem), "sta", "pcal")'
    BY <2>2 DEF FoundTo
  <2> QED
    BY <1>4, <1>5, <2>1, <2>3, <2>4 DEF Progress
<1>6. CASE NameObject
  <2>1. pc' = pc /\ pc \in {"reference", "remote"}
    BY <1>6 DEF NameObject, Stay, Reading
  <2>2. PICK i, m : SetShortName(i, m)
    BY <1>6 DEF NameObject
  <2>3. idsToObjects' = idsToObjects /\ Kept
    BY <2>2, NameEffect
  <2>4. CASE pc = "reference"
    BY <1>1, <1>3, <1>6, <2>1, <2>4, NextIsFound DEF Progress
  <2>5. CASE pc = "remote"
    <3>1. FoundTo(rem, Taken(rem), "sta", "pcal")'
      BY <1>1, <1>3, <1>6, <2>5, NextIsFound DEF Progress
    <3>2. FoundAs(ref, "ref_sta", "ref_pcal")'
      BY <1>1, <2>3, <2>5, FoundAsStays DEF Progress
    <3> QED
      BY <2>1, <2>5, <3>1, <3>2 DEF Progress
  <2> QED
    BY <2>1, <2>4, <2>5
<1>7. CASE CloseFile
  <2>1. /\ file = <<>> /\ idsToObjects' = idsToObjects /\ shortNameToIds' = shortNameToIds
        /\ \/ pc = "reference" /\ pc' = "sta_reference"
           \/ pc = "remote" /\ pc' = "sta_remote"
    BY <1>7, AloneStays DEF CloseFile, StoreAlone, Goto, AfterLoad, Reading
  <2>2. Taken(ref) = Len(ref) /\ Taken(rem) = Len(rem)
    BY <1>2, <2>1 DEF Taken
  <2>3. CASE pc = "reference"
    <3>1. FoundTo(ref, Len(ref), "sta", "pcal")
      BY <1>1, <2>2, <2>3 DEF Progress
    <3>2. FoundAs(ref, "sta", "pcal")
      BY <1>2, <3>1, FoundWhole
    <3>3. FoundAs(ref, "sta", "pcal")'
      BY <2>1, <3>2, FoundAsStays
    <3> QED
      BY <2>1, <2>3, <3>3 DEF Progress
  <2>4. CASE pc = "remote"
    <3>1. FoundTo(rem, Len(rem), "sta", "pcal")
      BY <1>1, <2>2, <2>4 DEF Progress
    <3>2. FoundAs(rem, "sta", "pcal")
      BY <1>2, <3>1, FoundWhole
    <3>3. FoundAs(rem, "sta", "pcal")'
      BY <2>1, <3>2, FoundAsStays
    <3>4. FoundAs(ref, "ref_sta", "ref_pcal")'
      BY <1>1, <2>1, <2>4, FoundAsStays DEF Progress
    <3> QED
      BY <2>1, <2>4, <3>3, <3>4 DEF Progress
  <2> QED
    BY <2>1, <2>3, <2>4
<1>8. CASE LoadReference
  <2>1. pc' = "reference" /\ file' = ref
    BY <1>8 DEF LoadReference, Goto
  <2>2. Taken(ref)' = 0
    BY <1>2, <2>1 DEF Taken
  <2> QED
    BY <2>1, <2>2 DEF Progress, FoundTo
<1>9. CASE LoadRemote
  <2>1. /\ pc = "load_remote" /\ pc' = "remote" /\ file' = rem
        /\ idsToObjects' = idsToObjects /\ shortNameToIds' = shortNameToIds
    BY <1>9, AloneStays DEF LoadRemote, StoreAlone, Goto
  <2>2. Taken(rem)' = 0
    BY <1>2, <2>1 DEF Taken
  <2>3. FoundAs(ref, "ref_sta", "ref_pcal")'
    BY <1>1, <2>1, FoundAsStays DEF Progress
  <2> QED
    BY <2>1, <2>2, <2>3 DEF Progress, FoundTo
<1>10. CASE RenameStation
  <2>1. \A m \in DOMAIN shortNameToIds : IsObjectPresent(shortNameToIds[m])
    BY <1>10 DEF NamesResolve, RenameStation
  <2>2. {"ref_sta", "rem_sta", "ref_pcal", "rem_pcal"} \subseteq Name
    BY PassStoreAssumption
  <2>3. CASE pc = "sta_reference"
    <3>1. RenameObject("sta", "ref_sta") /\ pc' = "pcal_reference"
      BY <1>10, <2>3 DEF RenameStation, Goto
    <3>2. FoundAs(ref, "ref_sta", "pcal")'
      BY <1>1, <2>1, <2>2, <2>3, <3>1, StationRenamed DEF Progress, RolesFree, ToReference
    <3> QED
      BY <3>1, <3>2 DEF Progress
  <2>4. CASE pc = "pcal_reference"
    <3>1. RenameObject("pcal", "ref_pcal") /\ pc' = "load_remote"
      BY <1>10, <2>4 DEF RenameStation, Goto
    <3>2. FoundAs(ref, "ref_sta", "ref_pcal")'
      BY <1>1, <2>1, <2>2, <2>4, <3>1, PcalRenamed DEF Progress, RolesFree
    <3> QED
      BY <3>1, <3>2 DEF Progress
  <2>5. CASE pc = "sta_remote"
    <3>1. RenameObject("sta", "rem_sta") /\ pc' = "pcal_remote"
      BY <1>10, <2>5 DEF RenameStation, Goto
    <3>2. FoundAs(rem, "rem_sta", "pcal")'
      BY <1>1, <2>1, <2>2, <2>5, <3>1, StationRenamed DEF Progress, RolesFree, ToRemote
    <3>3. FoundAs(ref, "ref_sta", "ref_pcal")'
      BY <1>1, <2>2, <2>5, <3>1, RenameEffect, FoundAsStays DEF Progress
    <3> QED
      BY <3>1, <3>2, <3>3 DEF Progress
  <2>6. CASE pc = "pcal_remote"
    <3>1. RenameObject("pcal", "rem_pcal") /\ pc' = "check_stations"
      BY <1>10, <2>6 DEF RenameStation, Goto
    <3>2. FoundAs(rem, "rem_sta", "rem_pcal")'
      BY <1>1, <2>1, <2>2, <2>6, <3>1, PcalRenamed DEF Progress, RolesFree
    <3>3. FoundAs(ref, "ref_sta", "ref_pcal")'
      BY <1>1, <2>2, <2>6, <3>1, RenameEffect, FoundAsStays DEF Progress
    <3> QED
      BY <3>1, <3>2, <3>3 DEF Progress
  <2> QED
    BY <1>10, <2>3, <2>4, <2>5, <2>6 DEF RenameStation
<1>11. CASE LoadObject
  <2>1. PICK k : AddNew(k)
    BY <1>11 DEF LoadObject
  <2>2. DOMAIN idsToObjects \subseteq DOMAIN idsToObjects' /\ Kept
    BY <2>1, AddEffect
  <2> QED
    BY <1>5, <1>11, <2>2 DEF LoadObject, Stay
<1>12. CASE StoreAlone /\ UNCHANGED <<pc, file>>
  BY <1>5, <1>12, AloneStays
<1>13. \/ StoreAlone /\ UNCHANGED <<pc, file>>
       \/ LoadObject \/ NameObject \/ CloseFile \/ LoadReference \/ LoadRemote \/ RenameStation
  <2>1. SkipObject => pc = "baseline" /\ pc' = pc
    BY DEF SkipObject, Reading
  <2>2. ~(DeleteSingle \/ AddDouble \/ NameDouble \/ Destroy)
    BY DEF DeleteSingle, AddDouble, NameDouble, Destroy, Goto
  <2>3. KeepVisibilities \/ ChooseVisibilities \/ Skip \/ Configured \/ Ended => pc' \notin Steps
    BY DEF KeepVisibilities, ChooseVisibilities, Skip, Configured, Ended, vars, passVars, Goto
  <2>4. UNCHANGED vars => UNCHANGED <<pc, file>>
    BY DEF vars, passVars
  <2> QED
    BY <2>1, <2>2, <2>3, <2>4, PassKinds DEF StoreAlone
<1> QED
  BY <1>6, <1>7, <1>8, <1>9, <1>10, <1>11, <1>12, <1>13

LEMMA CompleteStep ==
  ASSUME PassTypeOK, IndexesAgree, NameTablesAgree, NamesResolve, FileNames, Arrivals,
         RolesFree, Complete, [PassNext]_vars
  PROVE  Complete'
<1>1. PICK ref, rem : ref = StationFile(Reference) /\ rem = StationFile(Remote)
  OBVIOUS
<1>2. StationFile(Reference)' = ref /\ StationFile(Remote)' = rem
  BY <1>1, BaselineStays DEF Reference, Remote
<1>3. whole' => whole
  BY DEF PassNext, LoadObject, NameObject, SkipObject, CloseFile, KeepVisibilities,
     ChooseVisibilities, DeleteSingle, AddDouble, NameDouble, Skip, LoadReference, LoadRemote,
     RenameStation, Configured, MakeObject, Destroy, Ended, vars, passVars
<1>4. whole' => Progress(ref, rem)'
  BY <1>1, <1>3, ProgressStep
<1>5. ASSUME pc' \in {"reference", "remote"}, unnamed'
      PROVE  [type |-> Head(file').type, id |-> Head(file').id] \in DOMAIN idsToObjects'
  <2>1. CASE LoadObject
    <3>1. PICK k : AddNew(k) /\ k = [type |-> Head(file).type, id |-> Head(file).id]
      BY <2>1 DEF LoadObject
    <3>2. file' = file
      BY <2>1 DEF LoadObject
    <3> QED
      BY <3>1, <3>2, AddEffect
  <2>2. CASE UNCHANGED vars
    BY <1>5, <2>2 DEF Complete, vars, passVars, storeVars
  <2>3. LoadObject \/ UNCHANGED vars
    BY <1>5 DEF PassTypeOK, PassNext, NameObject, SkipObject, CloseFile, KeepVisibilities,
       ChooseVisibilities, DeleteSingle, AddDouble, NameDouble, Skip, LoadReference, LoadRemote,
       RenameStation, Configured, MakeObject, Make, Destroy, Ended, Goto, Stay, AfterLoad, Reading
  <2> QED
    BY <2>1, <2>2, <2>3
<1>6. Complete' <=>
        /\ pc' \in {"reference", "remote"} /\ unnamed' =>
             [type |-> Head(file').type, id |-> Head(file').id] \in DOMAIN idsToObjects'
        /\ whole' => Progress(ref, rem)'
  BY <1>2 DEF Complete, Progress, FoundTo, FoundAs, Taken
<1> QED
  BY <1>4, <1>5, <1>6

(* The invariant of a pass, on top of its types and of the tables of the store. *)
PassInv ==
  /\ NamesInv
  /\ RolesInv

LEMMA PassInvInit ==
  ASSUME PassInit
  PROVE  PassInv
<1>1. /\ pc = "baseline" /\ cast = <<>> /\ unnamed = FALSE
      /\ DOMAIN idsToObjects = {} /\ DOMAIN shortNameToIds = {}
  BY DEF PassInit, StoreInit, Empty
<1>2. /\ file \in Seq(Record)
      /\ \A i, j \in DOMAIN file : file[i].id = file[j].id => i = j
      /\ \A i \in DOMAIN file : file[i].name \notin {"sta", "pcal"} \cup Roles
  BY PassStoreAssumption, FileAssumption DEF PassInit
<1>3. DOMAIN file = 1..Len(file)
  BY <1>2
<1>4. NamesInv
  BY <1>1, <1>2, <1>3 DEF NamesInv, ReadOnce, OneNameEach, CastShape, CastLedger, CastSteps,
     NamesResolve
<1>5. RolesInv
  BY <1>1, <1>2, <1>3 DEF RolesInv, FileNames, StationNames, Arrivals, Arrived, RolesFree,
     RolesKept, Complete, Progress
<1> QED
  BY <1>4, <1>5 DEF PassInv

LEMMA PassInvStep ==
  ASSUME PassTypeOK, IndexesAgree, NameTablesAgree, PassInv, [PassNext]_vars
  PROVE  PassInv'
<1>1. NamesInv'
  BY ReadOnceStep, OneNameEachStep, CastShapeStep, CastLedgerStep, NamesResolveStep
     DEF PassInv, NamesInv, RolesInv
<1>2. RolesInv'
  BY FileNamesStep, ArrivalsStep, RolesFreeStep, RolesKeptStep, CompleteStep
     DEF PassInv, NamesInv, RolesInv
<1> QED
  BY <1>1, <1>2 DEF PassInv

(* In every pass the objects and their names go together in each step.         *)
THEOREM PassInvariant == PassSpec => []PassInv
<1>1. PassInit => PassInv
  BY PassInvInit
<1>2. PassTypeOK /\ IndexesAgree /\ NameTablesAgree /\ PassInv /\ [PassNext]_vars => PassInv'
  BY PassInvStep
<1> QED
  BY <1>1, <1>2, PassTyped, PassLookupsAreOwned, PassReservedNamesLead, PTL DEF PassSpec

(* No pass leaves a short name behind that leads to nothing, whatever is in    *)
(* its files: the names of the visibilities and weights go with them.          *)
THEOREM NamesAlwaysResolve == PassSpec => []NamesResolve
<1>1. PassInv => NamesResolve
  BY DEF PassInv, NamesInv
<1> QED
  BY <1>1, PassInvariant, PTL

(* The cast to double precision changes the type of an object and nothing      *)
(* else: ids and name are those of the file.                                   *)
THEOREM CastIsFound == PassSpec => []CastKeepsIdentity
<1>1. PassInv => CastKeepsIdentity
  <2>1. SUFFICES ASSUME PassInv, pc = "check_visibilities", cast # <<>>, NEW i \in 1..2
                 PROVE  /\ Cast(i) \in DOMAIN idsToObjects
                        /\ cast[i].from \notin DOMAIN idsToObjects
                        /\ cast[i].name \in ShortNames(cast[i].from.id)
    BY DEF CastKeepsIdentity
  <2>2. CastLedger
    BY <2>1 DEF PassInv, NamesInv
  <2> QED
    BY <2>1, <2>2 DEF CastLedger, CastSteps, Replaced
<1> QED
  BY <1>1, PassInvariant, PTL

(* The two stations of a pass are never taken for each other, and what their   *)
(* files hold is found under the names of their roles.                         *)
THEOREM RolesAreKept == PassSpec => []StationRoles
<1>1. PassInv => StationRoles
  <2>1. SUFFICES ASSUME PassInv PROVE StationRoles
    OBVIOUS
  <2>2. RolesKept /\ Complete
    BY <2>1 DEF PassInv, RolesInv
  <2>3. pc = "check_stations" /\ whole
          => /\ FoundAs(StationFile(Reference), "ref_sta", "ref_pcal")
             /\ FoundAs(StationFile(Remote), "rem_sta", "rem_pcal")
    BY <2>2 DEF Complete, Progress
  <2> QED
    BY <2>2, <2>3 DEF StationRoles, RolesKept
<1> QED
  BY <1>1, PassInvariant, PTL

-----------------------------------------------------------------------------
(* Binary files *)

(* The bytes of the records: the first starts the file, each ends no earlier  *)
(* than the next one starts or the file ends, wherever the end was lost.      *)
Layout ==
  /\ records = <<>> => length = 0
  /\ \A i \in 1..Len(records) :
       /\ i = 1 => records[i].at = 0
       /\ records[i].at < Limit(i)
       /\ Limit(i) <= length
       /\ Limit(i) <= End(i)
       /\ \A j \in 1..(i - 1) : records[j].at < records[i].at

(* If no write failed and all sizes were right, the index is complete, or there *)
(* is none.                                                                     *)
IndexKept ==
  cuts = 0 /\ (\A i \in 1..Len(records) : records[i].declared = records[i].actual) =>
    /\ index \in {<<>>, records}
    /\ mode = "write" => IF collect THEN index = records ELSE index = <<>>

(* Before reading, nothing of an earlier reading is there.                    *)
Unread ==
  /\ mode \in {"closed", "write"} => source = "object"
  /\ mode \in {"closed", "write"} => keys = <<>> /\ offsets = <<>> /\ pos = 0
  /\ mode \in {"closed", "write", "keys"} => nextKey = 1 /\ loaded = <<>>

(* Jumping from key to key is in step with the records as long as these can   *)
(* be jumped over.                                                            *)
JumpInStep ==
  /\ Len(offsets) = Len(keys)
  /\ \A n \in 1..Len(records) :
       (\A i \in 1..(n - 1) : Sized(i)) =>
         /\ n <= Len(keys) => keys[n] = records[n] /\ offsets[n] = records[n].at
         /\ n = Len(keys) + 1 => pos = records[n].at

Extracting == mode = "keys" => good /\ source = "object" /\ JumpInStep

FromIndex == mode \in {"read", "done", "dead"} /\ source = "index" => keys = index

(* Record i can be read, and its key is there to ask for it. *)
Asked(i) == Readable(i) /\ i <= Len(keys) /\ keys[i] = records[i]

(* Reading is in step with the keys as long as the records can be read.       *)
ReadInStep ==
  /\ nextKey >= 1
  /\ \A n \in 1..Len(records) :
    /\ n < nextKey /\ (\A i \in 1..n : Asked(i)) =>
         /\ n <= Len(loaded)
         /\ loaded[n] = [key |-> records[n], object |-> records[n], as |-> "whole"]
    /\ n = nextKey /\ (\A i \in 1..(n - 1) : Asked(i)) =>
         /\ good
         /\ pos = records[n].at
         /\ Len(loaded) = n - 1

Loading ==
  /\ mode = "read" => ReadInStep
  /\ mode = "done" => ReadInStep /\ nextKey > Len(keys)

FileInv ==
  /\ TypeOK
  /\ Layout
  /\ IndexKept
  /\ Unread
  /\ Extracting
  /\ FromIndex
  /\ KeysFound
  /\ Loading

(* The first m elements of a sequence.                                        *)
LEMMA Start ==
  ASSUME NEW S, NEW s \in Seq(S), NEW m \in 0..Len(s)
  PROVE  /\ SubSeq(s, 1, m) \in Seq(S)
         /\ Len(SubSeq(s, 1, m)) = m
         /\ \A i \in 1..m : SubSeq(s, 1, m)[i] = s[i]
<1>1. \A i \in 1..m : s[i] \in S
  OBVIOUS
<1>2. /\ SubSeq(s, 1, m) \in Seq(S)
      /\ Len(SubSeq(s, 1, m)) = IF 1 <= m THEN m - 1 + 1 ELSE 0
      /\ \A i \in 1 .. m - 1 + 1 : SubSeq(s, 1, m)[i] = s[1 + i - 1]
  BY <1>1, SubSeqProperties
<1> QED
  BY <1>2

(* What is written is an object file and an index; of the reading, nothing.   *)
LEMMA WriteStepsTyped ==
  ASSUME TypeOK, WriteSteps
  PROVE  TypeOK'
<1> USE SizeAssumption DEF TypeOK, reading
<1>1. ASSUME NEW c \in BOOLEAN, OpenToWrite(c) \/ OpenToAppend(c) PROVE TypeOK'
  <2>1. safe' \in [length : Nat, keys : Nat]
    BY <1>1 DEF OpenToWrite, OpenToAppend
  <2>2. /\ mode' \in {"closed", "write", "keys", "read", "done", "dead"}
        /\ collect' \in BOOLEAN /\ good' \in BOOLEAN
        /\ UNCHANGED <<records, length, index, cuts, pos, source, keys, offsets, nextKey, loaded>>
    BY <1>1, Zenon DEF OpenToWrite, OpenToAppend
  <2> QED
    BY <2>1, <2>2
<1>2. ASSUME NEW k \in Kind PROVE NewRecord(k) \in FileRecord
  BY DEF Kinds, FileRecord, NewRecord
<1>3. ASSUME NEW k \in Kind, Write(k) PROVE TypeOK'
  <2>1. k.actual \in Nat
    BY DEF Kinds
  <2> QED
    BY <1>2, <1>3, <2>1, SMTT(30) DEF Write
<1>4. ASSUME NEW k \in Kind, NEW n \in Nat, WriteFails(k, n) PROVE TypeOK'
  <2>1. records' \in Seq(FileRecord) /\ Len(records') <= MaxRecords
    BY <1>2, <1>4 DEF WriteFails
  <2>2. length' \in Nat /\ cuts' \in 0..MaxCuts
    BY <1>4 DEF WriteFails
  <2>3. good' \in BOOLEAN /\ UNCHANGED <<index, safe, mode, collect, reading>>
    BY <1>4 DEF WriteFails
  <2> QED
    BY <2>1, <2>2, <2>3
<1>5. CASE Close
  BY <1>5 DEF Close, Closed
<1>6. ASSUME NEW n \in 0..length, NEW k \in 0..Len(index), CutShort(n, k) PROVE TypeOK'
  <2>1. PICK m \in Before(n) : records' = SubSeq(records, 1, m)
    BY <1>6 DEF CutShort
  <2>2. m \in 0..Len(records)
    BY DEF Before
  <2>3. records' \in Seq(FileRecord) /\ Len(records') <= MaxRecords
    BY <2>1, <2>2, Start
  <2>4. index' \in Seq(FileRecord)
    BY <1>6, Start DEF CutShort
  <2> QED
    <3>1. length' \in Nat /\ cuts' \in 0..MaxCuts /\ safe' \in [length : Nat, keys : Nat]
      BY <1>6 DEF CutShort, Closed
    <3>2. mode' = "closed" /\ collect' = FALSE /\ good' = TRUE /\ UNCHANGED reading
      BY <1>6 DEF CutShort
    <3> QED
      BY <2>3, <2>4, <3>1, <3>2
<1>7. ASSUME NEW k \in Kind, NEW n \in 1..(KeySize + k.actual - 1) PROVE n \in Nat
  BY DEF Kinds
<1> QED
  BY <1>1, <1>3, <1>4, <1>5, <1>6, <1>7 DEF WriteSteps

(* Where records start and end in the file are numbers of bytes.              *)
LEMMA Positions ==
  ASSUME TypeOK, NEW i \in 1..Len(records)
  PROVE  /\ records[i] \in FileRecord
         /\ records[i].at \in Nat /\ records[i].declared \in Nat
         /\ records[i].actual \in Nat
         /\ Data(i) \in Nat /\ End(i) \in Nat /\ AfterUnknownVersion(i) \in Nat
<1>1. records[i] \in FileRecord
  BY DEF TypeOK
<1>2. /\ records[i].at \in Nat /\ records[i].declared \in Nat
      /\ records[i].actual \in Nat
  BY <1>1 DEF FileRecord
<1>3. KeySize \in Nat /\ VersionSize \in Nat
  BY SizeAssumption
<1> QED
  BY <1>1, <1>2, <1>3, SMTT(30) DEF Data, End, AfterUnknownVersion, SetUnknown

LEMMA ReadStepsTyped ==
  ASSUME TypeOK, BeginExtraction \/ TakeIndex \/ ReadSteps
  PROVE  TypeOK'
<1> USE SizeAssumption DEF TypeOK, written, reading
<1>1. \A i \in 1..Len(records) :
        /\ records[i] \in FileRecord
        /\ Data(i) \in Nat /\ End(i) \in Nat /\ AfterUnknownVersion(i) \in Nat
  BY Positions
<1>2. CASE BeginExtraction
  BY <1>2 DEF BeginExtraction
<1>3. CASE TakeIndex
  BY <1>3 DEF TakeIndex
<1>4. CASE ExtractKey
  <2>1. PICK i \in 1..Len(records) :
          /\ keys' = Append(keys, records[i])
          /\ offsets' = Append(offsets, pos)
          /\ pos' = Data(i) + records[i].declared
    BY <1>4 DEF ExtractKey, KeyAt
  <2>2. Data(i) \in Nat /\ records[i].declared \in Nat
    BY Positions
  <2> QED
    <3>1. pos' \in Nat
      <4> HIDE DEF TypeOK
      <4> QED
        BY <2>1, <2>2
    <3>2. keys' \in Seq(FileRecord) /\ offsets' \in Seq(Nat)
      BY <1>1, <2>1
    <3> QED
      BY <1>4, <3>1, <3>2 DEF ExtractKey
<1>5. CASE EndExtraction
  BY <1>5 DEF EndExtraction
<1>6. CASE UnknownClass
  BY <1>6 DEF UnknownClass
<1>7. ASSUME NEW i \in 1..Len(records), NEW q \in Quality, nextKey <= Len(keys), Load(i, q)
      PROVE  /\ nextKey' \in Nat \ {0}
             /\ loaded' \in Seq([key : FileRecord, object : FileRecord, as : Quality])
  <2>1. [key |-> keys[nextKey], object |-> records[i], as |-> q]
          \in [key : FileRecord, object : FileRecord, as : Quality]
    BY <1>1, <1>7
  <2> QED
    BY <1>7, <2>1 DEF Load
<1>8. CASE ReadObject
  <2>1. PICK i \in 1..Len(records), q \in Quality :
          Load(i, q) /\ pos' \in {End(i), AfterUnknownVersion(i)}
    BY <1>8 DEF ReadObject, Found, KeyAt, Quality
  <2> QED
    BY <1>1, <1>7, <1>8, <2>1 DEF ReadObject
<1>9. CASE ReadDamaged
  <2>1. PICK i \in 1..Len(records) :
          /\ Load(i, "damaged")
          /\ \/ pos' \in Data(i)..length /\ good' = good
             \/ pos' = pos /\ good' = FALSE
    BY <1>9 DEF ReadDamaged, FoundCut
  <2> QED
    <3>1. pos' \in Nat
      <4>1. Data(i) \in Nat /\ length \in Nat /\ pos \in Nat
        BY <1>1
      <4> HIDE DEF TypeOK
      <4> QED
        BY <2>1, <4>1
    <3>2. good' \in BOOLEAN
      BY <2>1
    <3>3. /\ nextKey' \in Nat \ {0}
          /\ loaded' \in Seq([key : FileRecord, object : FileRecord, as : Quality])
      BY <1>7, <1>9, <2>1 DEF ReadDamaged, Quality
    <3> QED
      BY <1>9, <3>1, <3>2, <3>3 DEF ReadDamaged
<1>10. CASE ReadThrows
  BY <1>10 DEF ReadThrows
<1>11. CASE ReadMismatch
  <2>1. pos' \in Nat
    BY <1>11 DEF ReadMismatch, AfterKey
  <2> QED
    <3>1. good' \in BOOLEAN
      BY <1>11 DEF ReadMismatch
    <3>2. nextKey' \in Nat \ {0} /\ UNCHANGED <<written, mode, source, keys, offsets, loaded>>
      BY <1>11 DEF ReadMismatch
    <3> QED
      BY <2>1, <3>1, <3>2
<1>12. CASE EndLoad
  BY <1>12 DEF EndLoad
<1> QED
  BY <1>2, <1>3, <1>4, <1>5, <1>6, <1>8, <1>9, <1>10, <1>11, <1>12 DEF ReadSteps

LEMMA FileTypedStep ==
  ASSUME TypeOK, [Next]_fileVars
  PROVE  TypeOK'
<1>1. CASE Stopped \/ UNCHANGED fileVars
  BY <1>1 DEF Stopped, fileVars, written, reading, TypeOK
<1> QED
  BY <1>1, WriteStepsTyped, ReadStepsTyped DEF Next

-----------------------------------------------------------------------------
(* The records lie one behind the other; a record that is cut short is        *)
(* followed by what was appended there.                                       *)
LEMMA LayoutKept ==
  ASSUME TypeOK, Layout, UNCHANGED <<records, length>>
  PROVE  Layout'
BY DEF Layout, Limit, End, Data

LEMMA LayoutGrown ==
  ASSUME TypeOK, Layout, NEW k \in Kind, NEW n \in 1..(KeySize + k.actual),
         records' = Append(records, NewRecord(k)), length' = length + n
  PROVE  Layout'
<1>0. PICK last \in Nat \ {0} : last = Len(records) + 1
  BY DEF TypeOK
<1>1. k.actual \in Nat /\ KeySize \in Nat /\ n \in Nat \ {0} /\ length \in Nat
  BY SizeAssumption DEF Kinds, TypeOK
<1>2. /\ Len(records') = last
      /\ records'[last].at = length /\ records'[last].actual = k.actual
      /\ \A i \in 1..Len(records) : records'[i] = records[i]
  BY <1>0 DEF TypeOK, NewRecord
<1>3. \A i \in 1..Len(records) : Limit(i)' = Limit(i)
  BY <1>2, SMTT(30) DEF Limit, TypeOK
<1>4. \A i \in 1..Len(records) : End(i)' = End(i)
  BY <1>2 DEF End, Data
<1>5. Limit(last)' = length' /\ End(last)' = length + KeySize + k.actual
  BY <1>0, <1>2 DEF Limit, End, Data
<1>6. \A i \in 1..Len(records) : records[i].at < length /\ Limit(i) \in Nat
  <2> TAKE i \in 1..Len(records)
  <2>1. records[i].at \in Nat
    BY Positions
  <2>2. Limit(i) \in Nat
    BY Positions, SMTT(30) DEF Limit, TypeOK
  <2> QED
    BY <1>1, <2>1, <2>2 DEF Layout
<1>7. records' # <<>>
  BY <1>0, <1>2
<1>8. ASSUME NEW i \in 1..Len(records)
      PROVE  /\ i = 1 => records'[i].at = 0
             /\ records'[i].at < Limit(i)'
             /\ Limit(i)' <= length'
             /\ Limit(i)' <= End(i)'
             /\ \A j \in 1..(i - 1) : records'[j].at < records'[i].at
  <2>1. /\ records'[i] = records[i] /\ Limit(i)' = Limit(i) /\ End(i)' = End(i)
        /\ \A j \in 1..(i - 1) : records'[j] = records[j]
    BY <1>2, <1>3, <1>4
  <2>2. Limit(i) <= length => Limit(i) <= length'
    BY <1>1, <1>6
  <2> QED
    BY <2>1, <2>2 DEF Layout
<1>9. /\ last = 1 => records'[last].at = 0
      /\ records'[last].at < Limit(last)'
      /\ Limit(last)' <= length'
      /\ Limit(last)' <= End(last)'
      /\ \A j \in 1..(last - 1) : records'[j].at < records'[last].at
  <2>1. last = 1 => length = 0
    BY <1>0 DEF Layout, TypeOK
  <2>2. \A j \in 1..(last - 1) : records'[j].at < length
    BY <1>0, <1>2, <1>6
  <2>3. length < length' /\ length' <= length + KeySize + k.actual
    BY <1>1
  <2> QED
    BY <1>1, <1>2, <1>5, <2>1, <2>2, <2>3
<1>10. \A i \in 1..Len(records') : i \in 1..Len(records) \/ i = last
  BY <1>0, <1>2
<1> QED
  BY <1>7, <1>8, <1>9, <1>10 DEF Layout

LEMMA LayoutCut ==
  ASSUME TypeOK, Layout, NEW n \in 0..length, NEW m \in Before(n),
         records' = SubSeq(records, 1, m), length' = n
  PROVE  Layout'
<1>1. /\ m \in 0..Len(records) /\ n \in Nat /\ length \in Nat
      /\ \A i \in 1..Len(records) : i <= m <=> records[i].at < n
  BY DEF Before, TypeOK
<1>2. Len(records') = m /\ \A i \in 1..m : records'[i] = records[i]
  BY <1>1, Start DEF TypeOK
<1>3. \A i \in 1..m : End(i)' = End(i) /\ records[i].at \in Nat /\ End(i) \in Nat
  BY <1>1, <1>2, Positions DEF End, Data
<1>4. ASSUME NEW i \in 1..m, i < m PROVE Limit(i)' = Limit(i)
  <2>1. Len(records) \in Nat
    BY DEF TypeOK
  <2>2. i + 1 \in 1..m /\ i < Len(records)
    BY <1>1, <1>4, <2>1
  <2>3. records'[i + 1] = records[i + 1] /\ i < Len(records')
    BY <1>2, <1>4, <2>2
  <2> QED
    BY <2>2, <2>3 DEF Limit
<1>5. Limit(m)' = n
  BY <1>1, <1>2 DEF Limit
<1>6. records' = <<>> => length' = 0
  <2> SUFFICES ASSUME m = 0, n > 0
               PROVE  FALSE
    BY <1>1, <1>2
  <2>1. CASE Len(records) = 0
    BY <1>1, <2>1 DEF Layout, TypeOK
  <2>2. CASE Len(records) # 0
    <3>1. 1 \in 1..Len(records) /\ records[1].at = 0
      BY <2>2 DEF Layout, TypeOK
    <3> QED
      BY <1>1, <3>1
  <2> QED
    BY <2>1, <2>2
<1>7. ASSUME NEW i \in 1..m
      PROVE  /\ i = 1 => records'[i].at = 0
             /\ records'[i].at < Limit(i)'
             /\ Limit(i)' <= length'
             /\ Limit(i)' <= End(i)'
             /\ \A j \in 1..(i - 1) : records'[j].at < records'[i].at
  <2>1. i \in 1..Len(records) /\ records'[i] = records[i] /\ records[i].at < n
    BY <1>1, <1>2
  <2>2. /\ i = 1 => records'[i].at = 0
        /\ \A j \in 1..(i - 1) : records'[j].at < records'[i].at
    BY <1>1, <1>2, <2>1 DEF Layout
  <2>3. CASE i < m
    <3>1. i + 1 \in 1..Len(records) /\ i + 1 \in 1..m
      BY <1>1, <2>3
    <3>2. Limit(i)' = records[i + 1].at
      BY <1>2, <2>3, <3>1 DEF Limit
    <3>3. Limit(i) = Limit(i)' /\ Limit(i)' < n /\ Limit(i)' \in Nat
      BY <1>1, <1>3, <1>4, <2>3, <3>1, <3>2
    <3>4. records[i].at < Limit(i) /\ Limit(i) <= End(i)
      BY <2>1 DEF Layout
    <3> QED
      BY <1>1, <1>3, <2>1, <2>2, <3>3, <3>4
  <2>4. CASE i = m
    <3>1. n <= Limit(m)
      <4>1. CASE m < Len(records)
        <5>1. m + 1 \in 1..Len(records) /\ Limit(m) = records[m + 1].at
          BY <1>1, <2>4, <4>1 DEF Limit
        <5>2. records[m + 1].at \in Nat
          BY <5>1, Positions
        <5>3. ~(records[m + 1].at < n)
          BY <1>1, <5>1
        <5> QED
          BY <1>1, <5>1, <5>2, <5>3
      <4>2. CASE m = Len(records)
        BY <1>1, <4>2 DEF Limit
      <4> QED
        BY <1>1, <4>1, <4>2
    <3>2. Limit(m) <= End(m)
      BY <2>1, <2>4 DEF Layout
    <3>3. Limit(m) \in Nat
      BY <1>1, <2>1, <2>4, Positions DEF Limit
    <3> QED
      BY <1>1, <1>3, <1>5, <2>1, <2>2, <2>4, <3>1, <3>2, <3>3
  <2>5. i < m \/ i = m
    BY <1>1
  <2> QED
    BY <2>3, <2>4, <2>5
<1> QED
  BY <1>2, <1>6, <1>7 DEF Layout

(* The layout is kept by every step.                                          *)
LEMMA LayoutStep ==
  ASSUME TypeOK, Layout, [Next]_fileVars
  PROVE  Layout'
<1>1. ASSUME NEW c \in BOOLEAN, OpenToWrite(c) \/ OpenToAppend(c)
      PROVE  UNCHANGED <<records, length>>
  BY <1>1 DEF OpenToWrite, OpenToAppend
<1>2. CASE Close
  BY <1>2, LayoutKept DEF Close
<1>3. ASSUME NEW k \in Kind, Write(k)
      PROVE  Layout'
  <2>1. k.actual \in Nat /\ KeySize \in Nat \ {0} /\ length \in Nat
    BY SizeAssumption DEF Kinds, TypeOK
  <2>2. KeySize + k.actual \in 1..(KeySize + k.actual)
    BY <2>1
  <2>3. records' = Append(records, NewRecord(k)) /\ length' = length + (KeySize + k.actual)
    BY <1>3, <2>1 DEF Write
  <2> QED
    BY <2>2, <2>3, LayoutGrown
<1>4. ASSUME NEW k \in Kind, NEW n \in 1..(KeySize + k.actual - 1), WriteFails(k, n)
      PROVE  Layout'
  <2>1. k.actual \in Nat /\ KeySize \in Nat \ {0}
    BY SizeAssumption DEF Kinds
  <2>2. n \in 1..(KeySize + k.actual)
    BY <2>1
  <2>3. records' = Append(records, NewRecord(k)) /\ length' = length + n
    BY <1>4 DEF WriteFails
  <2> QED
    BY <2>2, <2>3, LayoutGrown
<1>5. ASSUME NEW n \in 0..length, NEW k \in 0..Len(index), CutShort(n, k)
      PROVE  Layout'
  <2>1. PICK m \in Before(n) : records' = SubSeq(records, 1, m)
    BY <1>5 DEF CutShort
  <2>2. length' = n
    BY <1>5 DEF CutShort
  <2> QED
    BY <2>1, <2>2, LayoutCut
<1>6. WriteSteps => Layout'
  BY <1>1, <1>2, <1>3, <1>4, <1>5, LayoutKept DEF WriteSteps
<1>7. ASSUME BeginExtraction \/ TakeIndex \/ ReadSteps \/ Stopped \/ UNCHANGED fileVars
      PROVE  UNCHANGED <<records, length>>
  BY <1>7 DEF BeginExtraction, TakeIndex, ReadSteps, Stopped, ExtractKey, EndExtraction,
       UnknownClass, ReadObject, ReadDamaged, ReadThrows, ReadMismatch, EndLoad,
       fileVars, written
<1> QED
  BY <1>6, <1>7, LayoutKept DEF Next

-----------------------------------------------------------------------------
(* Steps that do not write leave the files alone, and no writing begins.      *)
LEMMA FilesAlone ==
  ASSUME BeginExtraction \/ TakeIndex \/ ReadSteps \/ Stopped \/ UNCHANGED fileVars
  PROVE  /\ UNCHANGED written
         /\ mode' \in {"closed", "write"} => UNCHANGED <<mode, good, reading>>
BY DEF BeginExtraction, TakeIndex, ReadSteps, Stopped, ExtractKey, EndExtraction,
     UnknownClass, ReadObject, ReadDamaged, ReadThrows, ReadMismatch, EndLoad, fileVars

LEMMA IndexKeptStep ==
  ASSUME TypeOK, IndexKept, [Next]_fileVars
  PROVE  IndexKept'
<1> SUFFICES ASSUME cuts' = 0,
                    \A i \in 1..Len(records') : records'[i].declared = records'[i].actual
             PROVE  /\ index' \in {<<>>, records'}
                    /\ mode' = "write" => IF collect' THEN index' = records' ELSE index' = <<>>
  BY DEF IndexKept
<1> DEFINE right == \A i \in 1..Len(records) : records[i].declared = records[i].actual
<1>1. CASE UNCHANGED written /\ (mode' \in {"closed", "write"} => mode' = mode)
  BY <1>1 DEF IndexKept, written
<1>2. ASSUME NEW c \in BOOLEAN, OpenToWrite(c) PROVE IndexKept'
  <2>1. records = <<>> /\ UNCHANGED <<records, index, cuts>>
    BY <1>2 DEF OpenToWrite
  <2> QED
    BY <2>1 DEF IndexKept
<1>3. CASE OpenToAppend(index # <<>>)
  <2>1. UNCHANGED <<records, index, cuts>> /\ (collect' <=> index # <<>>)
    BY <1>3, Zenon DEF OpenToAppend
  <2> QED
    BY <2>1 DEF IndexKept
<1>4. ASSUME NEW k \in Kind, Write(k)
      PROVE  /\ index' \in {<<>>, records'}
             /\ mode' = "write" => IF collect' THEN index' = records' ELSE index' = <<>>
  <2>1. /\ mode = "write" /\ UNCHANGED <<cuts, mode, collect>>
        /\ records' = Append(records, NewRecord(k))
        /\ index' = IF collect /\ k.declared = k.actual THEN Append(index, NewRecord(k))
                    ELSE index
    BY <1>4 DEF Write
  <2>2. /\ Len(records') = Len(records) + 1 /\ Len(records) \in Nat
        /\ records'[Len(records) + 1] = NewRecord(k)
        /\ \A i \in 1..Len(records) : records'[i] = records[i]
    BY <2>1 DEF TypeOK
  <2>3. right /\ k.declared = k.actual
    BY <2>2 DEF NewRecord
  <2>4. IF collect THEN index = records ELSE index = <<>>
    BY <2>1, <2>3 DEF IndexKept
  <2>5. CASE collect
    BY <2>1, <2>3, <2>4, <2>5
  <2>6. CASE ~collect
    BY <2>1, <2>4, <2>6
  <2> QED
    BY <2>5, <2>6
<1>5. ASSUME NEW k \in Kind, NEW n, WriteFails(k, n) PROVE FALSE
  BY <1>5 DEF WriteFails, TypeOK
<1>6. CASE Close
  BY <1>6 DEF Close, IndexKept
<1>7. ASSUME NEW n, NEW k, CutShort(n, k) PROVE FALSE
  BY <1>7 DEF CutShort, TypeOK
<1>8. CASE WriteSteps
  BY <1>2, <1>3, <1>4, <1>5, <1>6, <1>7, <1>8 DEF WriteSteps, IndexKept
<1> QED
  BY <1>1, <1>8, FilesAlone DEF Next

(* Nothing is read while the file is written.                                 *)
LEMMA UnreadStep ==
  ASSUME Unread, [Next]_fileVars
  PROVE  Unread'
<1>1. CASE WriteSteps
  <2>1. mode \in {"closed", "write"} /\ UNCHANGED reading
    BY <1>1 DEF WriteSteps, OpenToWrite, OpenToAppend, Write, WriteFails, Close, CutShort
  <2> QED
    BY <2>1 DEF Unread, reading
<1>2. CASE BeginExtraction \/ TakeIndex
  BY <1>2 DEF BeginExtraction, TakeIndex, Unread
<1>3. CASE ReadSteps
  BY <1>3 DEF ReadSteps, ExtractKey, EndExtraction, UnknownClass, ReadObject, ReadDamaged,
       ReadThrows, ReadMismatch, EndLoad, Unread
<1>4. CASE Stopped \/ UNCHANGED fileVars
  BY <1>4 DEF Stopped, fileVars, reading, Unread
<1> QED
  BY <1>1, <1>2, <1>3, <1>4 DEF Next

-----------------------------------------------------------------------------
(* No two records start at the same byte.                                     *)
LEMMA OneRecordAt ==
  ASSUME TypeOK, Layout, NEW i \in 1..Len(records), NEW j \in 1..Len(records),
         records[i].at = records[j].at
  PROVE  i = j
<1>1. \A a \in 1..Len(records) : records[a].at \in Nat
  BY Positions
<1>2. \A a, b \in 1..Len(records) : a < b => records[a].at < records[b].at
  <2> TAKE a, b \in 1..Len(records)
  <2>1. a < b => a \in 1..(b - 1)
    BY DEF TypeOK
  <2> QED
    BY <2>1 DEF Layout
<1>3. i < j => records[i].at < records[j].at
  BY <1>2
<1>4. j < i => records[j].at < records[i].at
  BY <1>2
<1>5. records[i].at \in Nat
  BY <1>1
<1>6. i \in Int /\ j \in Int
  OBVIOUS
<1> QED
  BY <1>3, <1>4, <1>5, <1>6

(* A record that can be jumped over ends where the next one starts.           *)
LEMMA SizedEnds ==
  ASSUME TypeOK, Layout, NEW i \in 1..Len(records), Sized(i)
  PROVE  /\ End(i) = Limit(i)
         /\ Data(i) + records[i].declared = End(i)
         /\ i < Len(records) => End(i) = records[i + 1].at
         /\ Data(i) <= length
<1>1. End(i) <= Limit(i) /\ records[i].declared = records[i].actual
  BY DEF Sized, Whole
<1>2. Limit(i) <= End(i) /\ Limit(i) <= length
  BY DEF Layout
<1>3. i < Len(records) => i + 1 \in 1..Len(records)
  BY DEF TypeOK
<1>4. Limit(i) \in Nat
  BY <1>3, Positions DEF Limit, TypeOK
<1>5. End(i) \in Nat /\ Data(i) \in Nat /\ End(i) = Data(i) + records[i].actual
      /\ records[i].actual \in Nat /\ length \in Nat
  BY Positions DEF End, TypeOK
<1>6. End(i) = Limit(i)
  BY <1>1, <1>2, <1>4, <1>5
<1> QED
  BY <1>1, <1>2, <1>3, <1>5, <1>6 DEF Limit

LEMMA ExtractingStep ==
  ASSUME TypeOK, Layout, Unread, Extracting, [Next]_fileVars
  PROVE  Extracting'
<1>1. CASE WriteSteps
  BY <1>1 DEF WriteSteps, OpenToWrite, OpenToAppend, Write, WriteFails, Close, CutShort,
       Extracting
<1>2. CASE BeginExtraction
  <2>1. /\ good' = TRUE /\ pos' = 0 /\ source' = "object" /\ keys' = <<>> /\ offsets' = <<>>
        /\ UNCHANGED <<records, length>>
    BY <1>2 DEF BeginExtraction, Unread, written
  <2>2. \A n \in 1..Len(records) : n = 1 => records[n].at = 0
    BY DEF Layout
  <2> QED
    BY <2>1, <2>2 DEF Extracting, JumpInStep, TypeOK
<1>3. CASE ExtractKey
  <2>1. PICK j \in KeyAt(pos) :
          /\ keys' = Append(keys, records[j])
          /\ offsets' = Append(offsets, pos)
          /\ pos' = Data(j) + records[j].declared
    BY <1>3 DEF ExtractKey
  <2>2. j \in 1..Len(records) /\ records[j].at = pos
    BY DEF KeyAt
  <2>3. good /\ source = "object" /\ JumpInStep
    BY <1>3 DEF ExtractKey, Extracting
  <2>4. UNCHANGED <<records, length, good, source>>
    BY <1>3 DEF ExtractKey, written
  <2>5. \A i : Sized(i)' = Sized(i)
    BY <2>4 DEF Sized, Whole, End, Data, Limit
  <2>6. /\ Len(keys') = Len(keys) + 1 /\ Len(offsets') = Len(offsets) + 1
        /\ Len(keys) \in Nat /\ Len(offsets) = Len(keys)
        /\ keys'[Len(keys) + 1] = records[j] /\ offsets'[Len(keys) + 1] = pos
        /\ \A i \in 1..Len(keys) : keys'[i] = keys[i] /\ offsets'[i] = offsets[i]
    BY <2>1, <2>3 DEF JumpInStep, TypeOK
  <2>7. ASSUME NEW n \in 1..Len(records), \A i \in 1..(n - 1) : Sized(i)
        PROVE  /\ n <= Len(keys) + 1 => keys'[n] = records[n] /\ offsets'[n] = records[n].at
               /\ n = Len(keys) + 2 => pos' = records[n].at
    <3>1. n <= Len(keys) => keys'[n] = records[n] /\ offsets'[n] = records[n].at
      BY <2>3, <2>6, <2>7 DEF JumpInStep
    <3>2. CASE n = Len(keys) + 1
      <4>1. pos = records[n].at
        BY <2>3, <2>7, <3>2 DEF JumpInStep
      <4>2. n = j
        BY <2>2, <4>1, OneRecordAt
      <4> QED
        BY <2>6, <3>2, <4>1, <4>2
    <3>3. CASE n = Len(keys) + 2
      <4>1. n - 1 \in 1..Len(records) /\ n - 1 = Len(keys) + 1
        BY <2>6, <3>3
      <4>2. \A i \in 1..(n - 1 - 1) : Sized(i)
        BY <2>6, <2>7, <3>3
      <4>3. pos = records[n - 1].at
        BY <2>3, <4>1, <4>2 DEF JumpInStep
      <4>4. n - 1 = j
        BY <2>2, <4>1, <4>3, OneRecordAt
      <4>5. Sized(j) /\ j < Len(records) /\ j + 1 = n
        BY <2>6, <2>7, <3>3, <4>4 DEF TypeOK
      <4> QED
        BY <2>1, <2>2, <4>5, SizedEnds, <3>3, <2>6
    <3> QED
      BY <2>6, <3>1, <3>2, <3>3
  <2>8. JumpInStep'
    BY <2>4, <2>5, <2>6, <2>7 DEF JumpInStep
  <2> QED
    BY <2>3, <2>4, <2>8 DEF Extracting
<1>4. CASE TakeIndex \/ (ReadSteps /\ ~ExtractKey)
  BY <1>4 DEF TakeIndex, ReadSteps, EndExtraction, UnknownClass, ReadObject, ReadDamaged,
       ReadThrows, ReadMismatch, EndLoad, Extracting
<1>5. CASE Stopped \/ UNCHANGED fileVars
  BY <1>5 DEF Stopped, fileVars, written, reading, Extracting, JumpInStep, Sized, Whole, End,
       Data, Limit
<1> QED
  BY <1>1, <1>2, <1>3, <1>4, <1>5 DEF Next

LEMMA FromIndexStep ==
  ASSUME Unread, Extracting, FromIndex, [Next]_fileVars
  PROVE  FromIndex'
<1>1. CASE WriteSteps
  BY <1>1 DEF WriteSteps, OpenToWrite, OpenToAppend, Write, WriteFails, Close, CutShort,
       FromIndex
<1>2. CASE BeginExtraction \/ TakeIndex
  BY <1>2 DEF BeginExtraction, TakeIndex, FromIndex, written
<1>3. CASE ReadSteps
  BY <1>3 DEF ReadSteps, ExtractKey, EndExtraction, UnknownClass, ReadObject, ReadDamaged,
       ReadThrows, ReadMismatch, EndLoad, Extracting, FromIndex, written, reading
<1>4. CASE Stopped \/ UNCHANGED fileVars
  BY <1>4 DEF Stopped, fileVars, written, reading, FromIndex
<1> QED
  BY <1>1, <1>2, <1>3, <1>4 DEF Next

(* When no key is found where the next record starts, the file has no more of *)
(* them.                                                                      *)
LEMMA KeysFoundStep ==
  ASSUME TypeOK, Layout, Unread, Extracting, KeysFound, [Next]_fileVars
  PROVE  KeysFound'
<1>1. CASE WriteSteps
  BY <1>1 DEF WriteSteps, OpenToWrite, OpenToAppend, Write, WriteFails, Close, CutShort,
       KeysFound
<1>2. CASE BeginExtraction \/ TakeIndex \/ ExtractKey
  BY <1>2 DEF BeginExtraction, TakeIndex, ExtractKey, KeysFound
<1>3. CASE EndExtraction
  <2>1. /\ KeyAt(pos) = {} /\ JumpInStep
        /\ UNCHANGED <<records, length, keys, offsets>>
    BY <1>3 DEF EndExtraction, Extracting, written
  <2>2. \A i : Sized(i)' = Sized(i) /\ Data(i)' = Data(i)
    BY <2>1 DEF Sized, Whole, End, Data, Limit
  <2>3. ASSUME NEW n \in 1..Len(records), \A i \in 1..(n - 1) : Sized(i), Data(n) <= length
        PROVE  n <= Len(keys)
    <3> SUFFICES ASSUME ~(n <= Len(keys))
                 PROVE  FALSE
      OBVIOUS
    <3>1. PICK m \in 1..n : m = Len(keys) + 1
      BY DEF TypeOK
    <3>2. m \in 1..Len(records) /\ \A i \in 1..(m - 1) : Sized(i)
      BY <2>3, <3>1 DEF TypeOK
    <3>3. pos = records[m].at
      BY <2>1, <3>1, <3>2 DEF JumpInStep
    <3>4. m < n => records[m].at < records[n].at
      BY <3>1 DEF Layout
    <3>5. records[m].at \in Nat /\ records[n].at \in Nat /\ KeySize \in Nat /\ length \in Nat
      BY <3>2, Positions, SizeAssumption DEF TypeOK
    <3>6. Data(m) <= length
      BY <2>3, <3>1, <3>4, <3>5 DEF Data
    <3> QED
      BY <2>1, <3>2, <3>3, <3>6 DEF KeyAt
  <2> QED
    BY <2>1, <2>2, <2>3 DEF KeysFound, JumpInStep
<1>4. CASE ReadSteps /\ ~ExtractKey /\ ~EndExtraction
  <2>1. /\ UNCHANGED <<records, length, keys, offsets, source>>
        /\ mode = "read"
    BY <1>4 DEF ReadSteps, UnknownClass, ReadObject, ReadDamaged, ReadThrows, ReadMismatch,
         EndLoad, written, reading
  <2> QED
    BY <2>1 DEF KeysFound, Sized, Whole, End, Data, Limit
<1>5. CASE Stopped \/ UNCHANGED fileVars
  BY <1>5 DEF Stopped, fileVars, written, reading, KeysFound, Sized, Whole, End, Data, Limit
<1> QED
  BY <1>1, <1>2, <1>3, <1>4, <1>5 DEF Next

-----------------------------------------------------------------------------
(* While the file is read, nothing is written: what can be asked for stays.   *)
LEMMA AskedStays ==
  ASSUME UNCHANGED <<records, length, keys>>
  PROVE  \A i : Asked(i)' = Asked(i)
BY DEF Asked, Readable, Sized, Whole, End, Data, Limit

(* Where record n is asked for, it is found.                                  *)
LEMMA AskedIsFound ==
  ASSUME TypeOK, Layout, NEW n \in 1..Len(records), Asked(n), n = nextKey,
         good, pos = records[n].at
  PROVE  /\ n \in Found
         /\ FoundCut = {}
         /\ Factory \in Known
<1>1. /\ Sized(n) /\ records[n].class \in Known /\ records[n].current
      /\ keys[n] = records[n]
  BY DEF Asked, Readable
<1>2. Factory = records[n].class
  BY <1>1 DEF Factory
<1>3. n \in KeyAt(pos)
  BY <1>1, SizedEnds DEF KeyAt
<1>4. ASSUME NEW i \in FoundCut PROVE FALSE
  <2>1. i \in 1..Len(records) /\ records[i].at = pos /\ Cut(i)
    BY DEF FoundCut
  <2>2. i = n
    BY <2>1, OneRecordAt
  <2> QED
    BY <1>1, <2>1, <2>2 DEF Cut, Sized
<1> QED
  BY <1>1, <1>2, <1>3, <1>4 DEF Found

(* One step on in the keys.  What was given to the store is not taken back;   *)
(* what the step must do is to load the record that the key is for, if all    *)
(* before it have been loaded, and to stop where the next one starts.         *)
LEMMA OneKeyOn ==
  ASSUME TypeOK, ReadInStep,
         UNCHANGED <<records, length, keys>>,
         nextKey' = nextKey + 1,
         \/ loaded' = loaded
         \/ \E x : loaded' = Append(loaded, x),
         ASSUME nextKey <= Len(records), \A i \in 1..nextKey : Asked(i),
                good, pos = records[nextKey].at, Len(loaded) = nextKey - 1
         PROVE  /\ good'
                /\ pos' = Limit(nextKey)
                /\ loaded' = Append(loaded, [key |-> records[nextKey],
                                             object |-> records[nextKey], as |-> "whole"])
  PROVE  ReadInStep'
<1>1. \A i : Asked(i)' = Asked(i)
  BY AskedStays
<1>2. nextKey \in Nat \ {0} /\ Len(records) \in Nat /\ Len(loaded) \in Nat
  BY DEF TypeOK
<1>3. /\ Len(loaded) <= Len(loaded')
      /\ \A i \in 1..Len(loaded) : loaded'[i] = loaded[i]
  <2>1. CASE loaded' = loaded
    BY <1>2, <2>1
  <2>2. ASSUME NEW x, loaded' = Append(loaded, x)
        PROVE  <1>3
    <3>1. Len(loaded') = Len(loaded) + 1 /\ \A i \in 1..Len(loaded) : loaded'[i] = loaded[i]
      BY <2>2 DEF TypeOK
    <3> QED
      BY <1>2, <3>1
  <2> QED
    BY <2>1, <2>2
<1>4. ASSUME nextKey <= Len(records), \A i \in 1..nextKey : Asked(i)
      PROVE  /\ good' /\ pos' = Limit(nextKey)
             /\ Len(loaded') = nextKey
             /\ loaded'[nextKey] =
                  [key |-> records[nextKey], object |-> records[nextKey], as |-> "whole"]
  <2>1. nextKey \in 1..Len(records) /\ \A i \in 1..(nextKey - 1) : Asked(i)
    BY <1>2, <1>4
  <2>2. good /\ pos = records[nextKey].at /\ Len(loaded) = nextKey - 1
    BY <2>1 DEF ReadInStep
  <2>3. /\ good' /\ pos' = Limit(nextKey)
        /\ loaded' = Append(loaded, [key |-> records[nextKey],
                                     object |-> records[nextKey], as |-> "whole"])
    BY <1>4, <2>2
  <2> QED
    BY <1>2, <2>2, <2>3 DEF TypeOK
<1>5. ASSUME NEW n \in 1..Len(records), n < nextKey + 1, \A i \in 1..n : Asked(i)
      PROVE  /\ n <= Len(loaded')
             /\ loaded'[n] = [key |-> records[n], object |-> records[n], as |-> "whole"]
  <2>1. CASE n < nextKey
    <3>1. /\ n <= Len(loaded)
          /\ loaded[n] = [key |-> records[n], object |-> records[n], as |-> "whole"]
      BY <1>5, <2>1 DEF ReadInStep
    <3> QED
      BY <1>2, <1>3, <3>1
  <2>2. CASE n = nextKey
    BY <1>2, <1>4, <1>5, <2>2
  <2> QED
    BY <1>2, <1>5, <2>1, <2>2
<1>6. ASSUME NEW n \in 1..Len(records), n = nextKey + 1, \A i \in 1..(n - 1) : Asked(i)
      PROVE  good' /\ pos' = records[n].at /\ Len(loaded') = n - 1
  <2>1. nextKey < Len(records) /\ \A i \in 1..nextKey : Asked(i)
    BY <1>2, <1>6
  <2>2. Limit(nextKey) = records[n].at
    BY <1>6, <2>1 DEF Limit
  <2> QED
    BY <1>2, <1>4, <1>6, <2>1, <2>2
<1> QED
  BY <1>1, <1>2, <1>5, <1>6 DEF ReadInStep

LEMMA LoadingStep ==
  ASSUME TypeOK, Layout, Unread, Extracting, Loading, [Next]_fileVars
  PROVE  Loading'
<1>1. CASE WriteSteps
  BY <1>1 DEF WriteSteps, OpenToWrite, OpenToAppend, Write, WriteFails, Close, CutShort,
       Loading
<1>2. CASE BeginExtraction \/ ExtractKey
  BY <1>2 DEF BeginExtraction, ExtractKey, Loading
<1>3. CASE TakeIndex \/ EndExtraction
  <2>1. /\ nextKey' = 1 /\ loaded' = <<>> /\ good' /\ pos' = 0 /\ mode' = "read"
        /\ UNCHANGED records
    BY <1>3 DEF TakeIndex, EndExtraction, Unread, Extracting, written
  <2>2. ReadInStep'
    BY <2>1 DEF ReadInStep, Layout, TypeOK
  <2> QED
    BY <2>1, <2>2 DEF Loading
<1>4. ASSUME mode = "read", UNCHANGED <<records, length, keys, mode>>, ReadInStep'
      PROVE  Loading'
  BY <1>4 DEF Loading
<1>5. CASE UnknownClass
  <2>1. /\ mode = "read" /\ UNCHANGED <<records, length, keys, mode>>
        /\ nextKey' = nextKey + 1 /\ loaded' = loaded
        /\ Factory \notin Known
    BY <1>5 DEF UnknownClass, written
  <2>2. ReadInStep
    BY <2>1 DEF Loading
  <2>3. ASSUME nextKey <= Len(records), \A i \in 1..nextKey : Asked(i),
               good, pos = records[nextKey].at
        PROVE  FALSE
    <3>1. nextKey \in 1..Len(records) /\ Asked(nextKey)
      BY <2>3 DEF TypeOK
    <3> QED
      BY <2>1, <2>3, <3>1, AskedIsFound
  <2>4. ReadInStep'
    BY <2>1, <2>2, <2>3, OneKeyOn
  <2> QED
    BY <1>4, <2>1, <2>4
<1>6. CASE ReadObject
  <2>1. PICK i \in Found :
          \/ records[i].current /\ Whole(i) /\ Load(i, "whole") /\ pos' = End(i)
          \/ ~records[i].current /\ Load(i, "empty")
    BY <1>6 DEF ReadObject
  <2>2. mode = "read" /\ UNCHANGED <<records, length, keys, mode, good>>
    BY <1>6 DEF ReadObject, written
  <2>3. nextKey' = nextKey + 1 /\ \E x : loaded' = Append(loaded, x)
    BY <2>1 DEF Load
  <2>4. ReadInStep
    BY <2>2 DEF Loading
  <2>5. ASSUME nextKey <= Len(records), \A j \in 1..nextKey : Asked(j),
               good, pos = records[nextKey].at, Len(loaded) = nextKey - 1
        PROVE  /\ good'
               /\ pos' = Limit(nextKey)
               /\ loaded' = Append(loaded, [key |-> records[nextKey],
                                            object |-> records[nextKey], as |-> "whole"])
    <3>1. nextKey \in 1..Len(records) /\ Asked(nextKey)
      BY <2>5 DEF TypeOK
    <3>2. i \in 1..Len(records) /\ records[i].at = pos
      BY DEF Found, KeyAt
    <3>3. i = nextKey
      BY <2>5, <3>1, <3>2, OneRecordAt
    <3>4. records[i].current /\ Sized(i) /\ keys[nextKey] = records[i]
      BY <3>1, <3>3 DEF Asked, Readable
    <3>5. Load(i, "whole") /\ pos' = End(i)
      BY <2>1, <3>4
    <3>6. pos' = Limit(nextKey)
      BY <3>2, <3>3, <3>4, <3>5, SizedEnds
    <3> QED
      BY <2>2, <2>5, <3>3, <3>4, <3>5, <3>6 DEF Load
  <2>6. ReadInStep'
    BY <2>2, <2>3, <2>4, <2>5, OneKeyOn
  <2> QED
    BY <1>4, <2>2, <2>6
<1>7. CASE ReadDamaged
  <2>1. PICK i \in FoundCut : Load(i, "damaged")
    BY <1>7 DEF ReadDamaged
  <2>2. mode = "read" /\ UNCHANGED <<records, length, keys, mode>>
    BY <1>7 DEF ReadDamaged, written
  <2>3. nextKey' = nextKey + 1 /\ \E x : loaded' = Append(loaded, x)
    BY <2>1 DEF Load
  <2>4. ReadInStep
    BY <2>2 DEF Loading
  <2>5. ASSUME nextKey <= Len(records), \A j \in 1..nextKey : Asked(j),
               good, pos = records[nextKey].at
        PROVE  FALSE
    <3>1. nextKey \in 1..Len(records) /\ Asked(nextKey)
      BY <2>5 DEF TypeOK
    <3> QED
      BY <2>1, <2>5, <3>1, AskedIsFound
  <2>6. ReadInStep'
    BY <2>2, <2>3, <2>4, <2>5, OneKeyOn
  <2> QED
    BY <1>4, <2>2, <2>6
<1>8. CASE ReadMismatch
  <2>1. /\ mode = "read" /\ UNCHANGED <<records, length, keys, mode>>
        /\ nextKey' = nextKey + 1 /\ loaded' = loaded
        /\ Found = {}
    BY <1>8 DEF ReadMismatch, written
  <2>2. ReadInStep
    BY <2>1 DEF Loading
  <2>3. ASSUME nextKey <= Len(records), \A i \in 1..nextKey : Asked(i),
               good, pos = records[nextKey].at
        PROVE  FALSE
    <3>1. nextKey \in 1..Len(records) /\ Asked(nextKey)
      BY <2>3 DEF TypeOK
    <3> QED
      BY <2>1, <2>3, <3>1, AskedIsFound
  <2>4. ReadInStep'
    BY <2>1, <2>2, <2>3, OneKeyOn
  <2> QED
    BY <1>4, <2>1, <2>4
<1>9. CASE ReadThrows
  BY <1>9 DEF ReadThrows, Loading
<1>10. ASSUME UNCHANGED <<records, length, keys, nextKey, loaded, good, pos>>
       PROVE  ReadInStep' = ReadInStep
  BY <1>10, AskedStays DEF ReadInStep
<1>11. CASE EndLoad
  BY <1>10, <1>11 DEF EndLoad, written, reading, Loading
<1>12. CASE Stopped \/ UNCHANGED fileVars
  BY <1>10, <1>12 DEF Stopped, fileVars, written, reading, Loading
<1> QED
  BY <1>1, <1>2, <1>3, <1>5, <1>6, <1>7, <1>8, <1>9, <1>11, <1>12 DEF Next, ReadSteps

LEMMA FileInvInit ==
  ASSUME Init
  PROVE  FileInv
<1>1. TypeOK
  <2>1. /\ <<>> \in Seq(FileRecord) /\ <<>> \in Seq(Nat)
        /\ <<>> \in Seq([key : FileRecord, object : FileRecord, as : Quality])
        /\ Len(<<>>) = 0
    OBVIOUS
  <2>2. 0 <= MaxRecords /\ 0 \in 0..MaxCuts
    BY SizeAssumption
  <2>3. safe \in [length : Nat, keys : Nat]
    BY DEF Init, Closed
  <2>4. collect \in BOOLEAN /\ good \in BOOLEAN
    BY DEF Init
  <2> QED
    BY <2>1, <2>2, <2>3, <2>4 DEF Init, TypeOK
<1>2. Layout /\ IndexKept /\ Unread
  BY DEF Init, Layout, IndexKept, Unread
<1>3. Extracting /\ FromIndex /\ KeysFound /\ Loading
  BY DEF Init, Extracting, FromIndex, KeysFound, Loading
<1> QED
  BY <1>1, <1>2, <1>3 DEF FileInv

LEMMA FileInvStep ==
  ASSUME FileInv, [Next]_fileVars
  PROVE  FileInv'
BY FileTypedStep, LayoutStep, IndexKeptStep, UnreadStep, ExtractingStep, FromIndexStep,
   KeysFoundStep, LoadingStep DEF FileInv

(* Whatever is written, lost, appended and read: all of the above.            *)
THEOREM FileInvariant == Spec => []FileInv
  BY FileInvInit, FileInvStep, PTL DEF Spec

(* Sizes, positions and what was read stay what they are.                     *)
THEOREM FilesTyped == Spec => []TypeOK
<1>1. FileInv => TypeOK
  BY DEF FileInv
<1> QED
  BY <1>1, FileInvariant, PTL

(* The keys of an object file are found up to the first record that cannot be *)
(* jumped over, wherever the file was cut.                                    *)
THEOREM AllKeysFound == Spec => []KeysFound
<1>1. FileInv => KeysFound
  BY DEF FileInv
<1> QED
  BY <1>1, FileInvariant, PTL

(* What can be read is read.                                                  *)
THEOREM ReadablePrefixLoaded == Spec => []PrefixLoaded
<1>1. FileInv => PrefixLoaded
  <2> SUFFICES ASSUME FileInv, mode = "done", NEW n \in 1..Len(records),
                      \A i \in 1..n : Asked(i)
               PROVE  /\ n <= Len(loaded)
                      /\ loaded[n] = [key |-> records[n], object |-> records[n], as |-> "whole"]
    BY DEF PrefixLoaded, Asked
  <2>1. ReadInStep /\ nextKey > Len(keys)
    BY DEF FileInv, Loading
  <2>2. n <= Len(keys) /\ n \in Nat /\ nextKey \in Nat /\ Len(keys) \in Nat
    BY DEF Asked, FileInv, TypeOK
  <2> QED
    BY <2>1, <2>2 DEF ReadInStep
<1> QED
  BY <1>1, FileInvariant, PTL

(* An index that was kept up has the keys of all objects.                     *)
THEOREM IndexIsComplete == Spec => []IndexComplete
<1>1. FileInv => IndexComplete
  <2> SUFFICES ASSUME FileInv, mode = "read", source = "index", cuts = 0, index # <<>>,
                      \A i \in 1..Len(records) : Sized(i)
               PROVE  keys = records
    BY DEF IndexComplete
  <2>1. keys = index /\ index \in {<<>>, records}
    BY DEF FileInv, FromIndex, IndexKept, Sized
  <2> QED
    BY <2>1
<1> QED
  BY <1>1, FileInvariant, PTL

-----------------------------------------------------------------------------
(* Reading gets on.  Of LoadEnds this is what the program itself must bring:  *)
(* that no file makes it go round in circles.                                 *)

\* what is still to be done: bytes to jump over, then keys to read the objects of
BytesAhead == IF pos < length THEN length - pos ELSE 0
ToRead ==
  CASE mode = "keys" -> BytesAhead + length + 2
    [] mode = "read" -> Len(keys) + 2 - nextKey
    [] mode \notin {"keys", "read"} -> 0

\* no more keys than bytes, each of them asked for once
KeysBehind ==
  /\ mode = "keys" => Len(keys) <= pos /\ Len(keys) <= length
  /\ mode = "read" => nextKey <= Len(keys) + 1

LoadInv == TypeOK /\ Unread /\ KeysBehind

(* Each step of the reading leaves less to do, and no step of another kind    *)
(* comes between, or changes the file: the number of steps to the end is      *)
(* bounded by the size of the file, whatever is in it.                        *)
LoadAdvances ==
  [][(mode \in {"keys", "read"}) => UNCHANGED written /\ ToRead' < ToRead]_fileVars

LEMMA ToReadTyped ==
  ASSUME LoadInv
  PROVE  ToRead \in Nat
<1>1. Len(keys) \in Nat /\ length \in Nat /\ pos \in Nat /\ nextKey \in Nat
  BY DEF LoadInv, TypeOK
<1>2. BytesAhead \in Nat
  BY <1>1 DEF BytesAhead
<1>3. CASE mode = "keys"
  BY <1>1, <1>2, <1>3 DEF ToRead
<1>4. CASE mode = "read"
  BY <1>1, <1>4 DEF ToRead, LoadInv, KeysBehind
<1> QED
  BY <1>3, <1>4 DEF ToRead

(* A key that is found lies ahead, and the next one is looked for behind it.  *)
LEMMA JumpsAhead ==
  ASSUME LoadInv, ExtractKey
  PROVE  /\ mode = "keys" /\ UNCHANGED <<written, mode, nextKey>>
         /\ Len(keys') = Len(keys) + 1
         /\ pos < pos' /\ pos < length /\ pos' \in Nat
<1>1. PICK i \in 1..Len(records) :
        /\ records[i].at = pos /\ Data(i) <= length
        /\ keys' = Append(keys, records[i])
        /\ pos' = Data(i) + records[i].declared
  BY DEF ExtractKey, KeyAt
<1>2. records[i].declared \in Nat /\ KeySize \in Nat \ {0} /\ pos \in Nat /\ length \in Nat
  <2>1. records[i] \in FileRecord
    BY DEF LoadInv, TypeOK
  <2> QED
    BY <2>1, SizeAssumption DEF FileRecord, LoadInv, TypeOK
<1>3. pos' = pos + KeySize + records[i].declared /\ pos + KeySize <= length
  BY <1>1, <1>2 DEF Data
<1>4. Len(keys') = Len(keys) + 1
  BY <1>1 DEF LoadInv, TypeOK
<1> QED
  BY <1>2, <1>3, <1>4 DEF ExtractKey

(* Whatever becomes of the object of a key, the key is done with.             *)
LEMMA KeysGoOn ==
  ASSUME UnknownClass \/ ReadObject \/ ReadDamaged \/ ReadMismatch
  PROVE  /\ mode = "read" /\ nextKey <= Len(keys)
         /\ nextKey' = nextKey + 1
         /\ UNCHANGED <<written, mode, keys>>
BY DEF UnknownClass, ReadObject, ReadDamaged, ReadMismatch, Load

LEMMA LoadInvStep ==
  ASSUME LoadInv, [Next]_fileVars
  PROVE  LoadInv'
<1>1. TypeOK' /\ Unread'
  BY FileTypedStep, UnreadStep DEF LoadInv
<1>2. Len(keys) \in Nat /\ nextKey \in Nat /\ length \in Nat /\ pos \in Nat
  BY DEF LoadInv, TypeOK
<1>3. CASE WriteSteps
  <2>1. mode' \notin {"keys", "read"}
    BY <1>3 DEF WriteSteps, OpenToWrite, OpenToAppend, Write, WriteFails, Close, CutShort
  <2> QED
    BY <1>1, <2>1 DEF LoadInv, KeysBehind
<1>4. CASE BeginExtraction \/ TakeIndex
  <2>1. mode = "closed" /\ UNCHANGED <<length, nextKey>>
    BY <1>4 DEF BeginExtraction, TakeIndex, written
  <2>2. keys = <<>> /\ nextKey = 1
    BY <2>1 DEF LoadInv, Unread
  <2>3. mode' = "keys" => keys' = <<>> /\ pos' = 0
    BY <1>4, <2>2 DEF BeginExtraction, TakeIndex
  <2>4. Len(keys') \in Nat
    BY <1>1 DEF TypeOK
  <2>5. KeysBehind'
    BY <1>2, <2>1, <2>2, <2>3, <2>4 DEF KeysBehind
  <2> QED
    BY <1>1, <2>5 DEF LoadInv
<1>5. CASE ExtractKey
  <2>1. /\ mode = "keys" /\ mode' = "keys" /\ length' = length
        /\ Len(keys') = Len(keys) + 1
        /\ pos < pos' /\ pos < length /\ pos' \in Nat
    BY <1>5, JumpsAhead DEF written
  <2>2. Len(keys) <= pos
    BY <2>1 DEF LoadInv, KeysBehind
  <2>3. KeysBehind'
    BY <1>2, <2>1, <2>2 DEF KeysBehind
  <2> QED
    BY <1>1, <2>3 DEF LoadInv
<1>6. CASE EndExtraction
  <2>1. mode = "keys" /\ mode' = "read" /\ UNCHANGED <<keys, nextKey>>
    BY <1>6 DEF EndExtraction
  <2>2. nextKey = 1
    BY <2>1 DEF LoadInv, Unread
  <2>3. KeysBehind'
    BY <1>2, <2>1, <2>2 DEF KeysBehind
  <2> QED
    BY <1>1, <2>3 DEF LoadInv
<1>7. CASE UnknownClass \/ ReadObject \/ ReadDamaged \/ ReadMismatch
  <2>1. mode' = "read" /\ nextKey <= Len(keys) /\ nextKey' = nextKey + 1 /\ keys' = keys
    BY <1>7, KeysGoOn
  <2>2. KeysBehind'
    BY <1>2, <2>1 DEF KeysBehind
  <2> QED
    BY <1>1, <2>2 DEF LoadInv
<1>8. CASE ReadThrows \/ EndLoad
  <2>1. mode' \notin {"keys", "read"}
    BY <1>8 DEF ReadThrows, EndLoad
  <2> QED
    BY <1>1, <2>1 DEF LoadInv, KeysBehind
<1>9. CASE Stopped \/ UNCHANGED fileVars
  <2>1. UNCHANGED <<mode, keys, pos, length, nextKey>>
    BY <1>9 DEF Stopped, fileVars, written, reading
  <2> QED
    BY <1>1, <2>1 DEF LoadInv, KeysBehind
<1> QED
  BY <1>3, <1>4, <1>5, <1>6, <1>7, <1>8, <1>9 DEF Next, ReadSteps

LEMMA LoadShrinks ==
  ASSUME LoadInv, Next, mode \in {"keys", "read"}
  PROVE  ToRead' < ToRead /\ UNCHANGED written
<1>1. Len(keys) \in Nat /\ nextKey \in Nat /\ length \in Nat /\ pos \in Nat
  BY DEF LoadInv, TypeOK
<1>2. ReadSteps
  BY DEF Next, WriteSteps, OpenToWrite, OpenToAppend, Write, WriteFails, Close, CutShort,
       BeginExtraction, TakeIndex, Stopped
<1>3. UNCHANGED written
  BY <1>2, FilesAlone
<1>4. CASE ExtractKey
  <2>1. mode = "keys" /\ mode' = "keys" /\ length' = length /\ pos < pos' /\ pos < length
          /\ pos' \in Nat
    BY <1>4, JumpsAhead DEF written
  <2> DEFINE p == pos
             q == pos'
             n == IF q < length THEN length - q ELSE 0
  <2>2. p \in Nat /\ q \in Nat /\ p < q /\ p < length
    BY <1>1, <2>1
  <2>3. BytesAhead = length - p /\ BytesAhead' = n
    BY <2>1 DEF BytesAhead
  <2>4. ToRead = length - p + length + 2 /\ ToRead' = n + length + 2
    BY <2>1, <2>3 DEF ToRead
  <2> HIDE DEF p, q
  <2>5. n \in Nat /\ n < length - p
    BY <1>1, <2>2
  <2> HIDE DEF n
  <2>6. n + length + 2 < length - p + length + 2
    BY <1>1, <2>2, <2>5
  <2> QED
    BY <1>3, <2>4, <2>6
<1>5. CASE EndExtraction
  <2>1. mode = "keys" /\ mode' = "read" /\ UNCHANGED <<keys, nextKey>>
    BY <1>5 DEF EndExtraction
  <2>2. nextKey = 1 /\ Len(keys) <= length
    BY <2>1 DEF LoadInv, Unread, KeysBehind
  <2>3. BytesAhead \in Nat
    BY <1>1 DEF BytesAhead
  <2>4. ToRead = BytesAhead + length + 2 /\ ToRead' = Len(keys) + 2 - nextKey
    BY <2>1 DEF ToRead
  <2> QED
    BY <1>1, <1>3, <2>2, <2>3, <2>4
<1>6. CASE UnknownClass \/ ReadObject \/ ReadDamaged \/ ReadMismatch
  <2>1. mode = "read" /\ mode' = "read" /\ nextKey' = nextKey + 1 /\ keys' = keys
    BY <1>6, KeysGoOn
  <2>2. ToRead = Len(keys) + 2 - nextKey /\ ToRead' = Len(keys) + 2 - (nextKey + 1)
    BY <2>1 DEF ToRead
  <2> QED
    BY <1>1, <1>3, <2>2
<1>7. CASE ReadThrows \/ EndLoad
  <2>1. mode = "read" /\ mode' \notin {"keys", "read"}
    BY <1>7 DEF ReadThrows, EndLoad
  <2>2. nextKey <= Len(keys) + 1
    BY <2>1 DEF LoadInv, KeysBehind
  <2>3. ToRead = Len(keys) + 2 - nextKey /\ ToRead' = 0
    BY <2>1 DEF ToRead
  <2> QED
    BY <1>1, <1>3, <2>2, <2>3
<1> QED
  BY <1>2, <1>4, <1>5, <1>6, <1>7 DEF ReadSteps

LEMMA LoadInvariant == Spec => []LoadInv
<1>1. Init => LoadInv
  <2> SUFFICES ASSUME Init PROVE LoadInv
    OBVIOUS
  <2>1. TypeOK /\ Unread
    BY FileInvInit DEF FileInv
  <2> QED
    BY <2>1 DEF LoadInv, KeysBehind, Init
<1> QED
  BY <1>1, LoadInvStep, PTL DEF Spec

(* Extraction and loading make way with every step, in any file.              *)
THEOREM LoadMakesWay == Spec => [](ToRead \in Nat) /\ LoadAdvances
<1>1. LoadInv => ToRead \in Nat
  BY ToReadTyped
<1>2. LoadInv /\ [Next]_fileVars =>
        [(mode \in {"keys", "read"}) => UNCHANGED written /\ ToRead' < ToRead]_fileVars
  BY LoadShrinks
<1> QED
  BY <1>1, <1>2, LoadInvariant, PTL DEF Spec, LoadAdvances
=============================================================================
