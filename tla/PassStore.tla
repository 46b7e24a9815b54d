------------------------------ MODULE PassStore -------------------------------
(***************************************************************************)
(* How a fringe fitter fills the container store of its pass: it loads the *)
(* baseline file, casts visibilities and weights to double precision, and  *)
(* loads and renames the data of the two stations, which arrive under the  *)
(* same names (and for an autocorrelation with the same object ids).  The  *)
(* objects are found again by name; nothing tells the later steps what     *)
(* went wrong in an earlier one.                                           *)
(***************************************************************************)
EXTENDS Integers, Sequences, ContainerStore

CONSTANTS
  BaselineFiles,  \* baseline files: sequences of [type, id, name]
  Baselines,      \* <<reference, remote>> stations
  StationFile(_)  \* the file of a station

VARIABLES
  pc,        \* the next step of Configure
  unnamed,   \* an object was added, its name has not been set yet
  baseline,  \* the stations of the pass
  file,      \* what is left to be read of the current file
  cast,      \* the objects that are cast, with their short names
  whole      \* history: nothing was skipped in the station files

passVars == <<pc, unnamed, baseline, file, cast, whole>>
vars     == <<storeVars, passVars>>

\* mutant: the file of the remote station is read before the names are changed
AfterLoadUnnamed(step) ==
  CASE step = "baseline"  -> "configure_visibility_data"
    [] step = "reference" -> "load_remote"
    [] step = "remote"    -> "sta_remote"

\* what follows when a file is read
AfterLoad(step) ==
  CASE step = "baseline"  -> "configure_visibility_data"
    [] step = "reference" -> "sta_reference"
    [] step = "remote"    -> "sta_remote"

\* objects made during the fit: their ids and their names
Made == {"cached_v", "cached_w", "sbd", "phasors"}

Record == [type : Type, id : Id, name : Name \cup {""}]

Casting == [from : Key, type : Type, name : Name \cup {""}]

ASSUME PassStoreAssumption ==
  /\ BaselineFiles \subseteq Seq(Record)
  /\ \A b \in Baselines : StationFile(b[1]) \in Seq(Record)
                         /\ StationFile(b[2]) \in Seq(Record)
  /\ {"visibility", "weight", "phasors"} \subseteq Type
  /\ Made \subseteq Id /\ Made \subseteq Name
  /\ {"sta", "ref_sta", "rem_sta", "pcal", "ref_pcal", "rem_pcal"} \subseteq Name

\* the names that the data of the two stations are given
Roles == {"ref_sta", "ref_pcal", "rem_sta", "rem_pcal"}

\* what the programs that write the files put there: every object of a baseline file
\* has an id of its own, and a station file has at most one station and one phase cal
ASSUME FileAssumption ==
  /\ \A f \in BaselineFiles :
       /\ \A i, j \in DOMAIN f : f[i].id = f[j].id => i = j
       /\ \A i \in DOMAIN f : f[i].name \notin {"sta", "pcal"} \cup Roles
  /\ \A b \in Baselines : \A f \in {StationFile(b[1]), StationFile(b[2])} :
       /\ \A i, j \in DOMAIN f :
            f[i].name = f[j].name /\ f[i].name \in {"sta", "pcal"} => i = j
       /\ \A i \in DOMAIN f : f[i].name \notin Roles

PassTypeOK ==
  /\ StoreTypeOK
  /\ file \in Seq(Record)
  /\ cast \in {<<>>} \cup (Casting \X Casting)
  /\ pc \in {"delete_1", "delete_2", "add_1", "add_2", "name_1", "name_2"} => cast # <<>>
  /\ unnamed \in BOOLEAN
  /\ unnamed => \/ pc \in {"cache_v", "cache_w", "fit", "finalize"}
                \/ pc \in {"baseline", "reference", "remote"} /\ file # <<>>
  /\ baseline \in Baselines
  /\ whole \in BOOLEAN

PassInit ==
  /\ StoreInit
  /\ pc = "baseline"
  /\ unnamed = FALSE
  /\ baseline \in Baselines
  /\ file \in BaselineFiles
  /\ cast = <<>>
  /\ whole = TRUE

Reference == baseline[1]
Remote == baseline[2]

Goto(step) == pc' = step /\ UNCHANGED <<unnamed, baseline>>

\* an object is added, and named in a second call
Stay(waits) == unnamed' = waits /\ UNCHANGED <<pc, baseline>>

\* a new object is added, at the address that the allocator returns
AddNew(k) ==
  \E p \in Object \ DOMAIN objectsToIds :
    /\ p = CHOOSE q \in Object : q \notin DOMAIN objectsToIds
    /\ AddObject(p, k)

-----------------------------------------------------------------------------
(* MHO_ContainerFileInterface::PopulateStoreFromFile *)

Reading == pc \in {"baseline", "reference", "remote"}

\* the object is built and added
LoadObject ==
  /\ Reading /\ ~unnamed /\ file # <<>>
  /\ AddNew([type |-> Head(file).type, id |-> Head(file).id])
  /\ Stay(TRUE)
  /\ UNCHANGED <<file, cast, whole>>

NameObject ==
  /\ Reading /\ unnamed
  /\ SetShortName(Head(file).id, Head(file).name)
  /\ file' = Tail(file)
  /\ Stay(FALSE)
  /\ UNCHANGED <<cast, whole>>

\* the object cannot be read, or its type is not known
SkipObject ==
  /\ Reading /\ ~unnamed /\ file # <<>>
  /\ file' = Tail(file)
  /\ whole' = (whole /\ pc = "baseline")
  /\ UNCHANGED <<pc, unnamed, baseline, cast, storeVars>>

CloseFile ==
  /\ Reading /\ ~unnamed /\ file = <<>>
  /\ Goto(AfterLoad(pc))
  /\ UNCHANGED <<file, cast, whole, storeVars>>

-----------------------------------------------------------------------------
(* MHO_FringeDataInitializer::configure_visibility_data *)

DoublePrecision ==
  Cardinality(OfType("visibility")) = 1 /\ Cardinality(OfType("weight")) = 1

\* there is nothing to cast, or not both of them
KeepVisibilities ==
  /\ pc = "configure_visibility_data"
  /\ DoublePrecision \/ OfType("visibility_store") = {} \/ OfType("weight_store") = {}
  /\ Goto("check_visibilities")
  /\ UNCHANGED <<file, cast, whole, storeVars>>

ShortNames(i) == IF NamesOf(i) = {} THEN {""} ELSE NamesOf(i)

\* the first ones in the order of their ids, which is random
ChooseVisibilities ==
  /\ pc = "configure_visibility_data"
  /\ ~DoublePrecision
  /\ \E v \in OfType("visibility_store"), w \in OfType("weight_store") :
       \E m \in ShortNames(v.id), n \in ShortNames(w.id) :
         cast' = <<[from |-> v, type |-> "visibility", name |-> m],
                   [from |-> w, type |-> "weight", name |-> n]>>
  /\ Goto("delete_1")
  /\ UNCHANGED <<file, whole, storeVars>>

\* mutant: the store still owns the addresses of the objects deleted
Forget(k) ==
  /\ idsToObjects' = Erase(idsToObjects, k)
  /\ shortNameToIds' = [n \in DOMAIN shortNameToIds \ NamesOf(k.id) |-> shortNameToIds[n]]
  /\ shortNameSet' = shortNameSet \ NamesOf(k.id)
  /\ UNCHANGED objectsToIds

DeleteSingleForget ==
  /\ \/ pc = "delete_1" /\ Forget(cast[1].from) /\ Goto("delete_2")
     \/ pc = "delete_2" /\ Forget(cast[2].from) /\ Goto("add_1")
  /\ UNCHANGED <<file, cast, whole>>

DeleteSingle ==
  /\ \/ pc = "delete_1" /\ DeleteObject(idsToObjects[cast[1].from]) /\ Goto("delete_2")
     \/ pc = "delete_2" /\ DeleteObject(idsToObjects[cast[2].from]) /\ Goto("add_1")
  /\ UNCHANGED <<file, cast, whole>>

\* mutant: the double precision objects get new ids
CastNew(i) == [type |-> cast[i].type, id |-> CHOOSE n \in Id : ~IsObjectPresent(n)]

Cast(i) == [type |-> cast[i].type, id |-> cast[i].from.id]

AddDouble ==
  /\ \/ pc = "add_1" /\ AddNew(Cast(1)) /\ Goto("add_2")
     \/ pc = "add_2" /\ AddNew(Cast(2)) /\ Goto("name_1")
  /\ UNCHANGED <<file, cast, whole>>

NameDouble ==
  /\ \/ pc = "name_1" /\ SetShortName(cast[1].from.id, cast[1].name) /\ Goto("name_2")
     \/ pc = "name_2" /\ SetShortName(cast[2].from.id, cast[2].name)
                      /\ Goto("check_visibilities")
  /\ UNCHANGED <<file, cast, whole>>

-----------------------------------------------------------------------------
(* Configure: checks, and configure_station_data *)

Skip ==
  /\ \/ /\ pc = "check_visibilities"
        /\ ~(HasObject("visibility", "vis") /\ HasObject("weight", "weight"))
     \/ /\ pc = "check_stations"
        /\ ~(HasObject("station", "ref_sta") /\ HasObject("station", "rem_sta"))
  /\ Goto("skipped")
  /\ UNCHANGED <<file, cast, whole, storeVars>>

LoadReference ==
  /\ pc = "check_visibilities"
  /\ HasObject("visibility", "vis") /\ HasObject("weight", "weight")
  /\ Goto("reference")
  /\ file' = StationFile(Reference)
  /\ UNCHANGED <<cast, whole, storeVars>>

LoadRemote ==
  /\ pc = "load_remote"
  /\ Goto("remote")
  /\ file' = StationFile(Remote)
  /\ UNCHANGED <<cast, whole, storeVars>>

RenameStation ==
  /\ \/ pc = "sta_reference" /\ RenameObject("sta", "ref_sta") /\ Goto("pcal_reference")
     \/ pc = "pcal_reference" /\ RenameObject("pcal", "ref_pcal") /\ Goto("load_remote")
     \/ pc = "sta_remote" /\ RenameObject("sta", "rem_sta") /\ Goto("pcal_remote")
     \/ pc = "pcal_remote" /\ RenameObject("pcal", "rem_pcal") /\ Goto("check_stations")
  /\ UNCHANGED <<file, cast, whole>>

Configured ==
  /\ pc = "check_stations"
  /\ HasObject("station", "ref_sta") /\ HasObject("station", "rem_sta")
  /\ \E step \in {"cache_v", "fit"} : Goto(step)
  /\ UNCHANGED <<file, cast, whole, storeVars>>

-----------------------------------------------------------------------------
(* Objects made during the fit *)

\* clones get a new id; sbd is made once, phasors for the plot
Make(step, t, n, next) ==
  /\ pc = step
  /\ \/ ~unnamed /\ AddNew([type |-> t, id |-> n]) /\ Stay(TRUE)
     \/ unnamed /\ SetShortName(n, n) /\ pc' = next /\ unnamed' = FALSE
                /\ UNCHANGED baseline

MakeObject ==
  /\ \/ Make("cache_v", "visibility", "cached_v", "cache_w")
     \/ Make("cache_w", "weight", "cached_w", "fit")
     \/ Make("fit", "visibility", "sbd", "finalize")
     \/ Make("finalize", "phasors", "phasors", "ready")
  /\ UNCHANGED <<file, cast, whole>>

\* MHO_FringePass is destroyed
Destroy ==
  /\ pc \in {"ready", "skipped"}
  /\ Clear
  /\ Goto("destroyed")
  /\ UNCHANGED <<file, cast, whole>>

Ended == pc = "destroyed" /\ UNCHANGED vars

PassNext ==
  \/ LoadObject \/ NameObject \/ SkipObject \/ CloseFile
  \/ KeepVisibilities \/ ChooseVisibilities \/ DeleteSingle \/ AddDouble \/ NameDouble
  \/ Skip \/ LoadReference \/ LoadRemote \/ RenameStation \/ Configured
  \/ MakeObject \/ Destroy \/ Ended

PassSpec == PassInit /\ [][PassNext]_vars

-----------------------------------------------------------------------------
(* Properties *)

(* The fitter uses the store as any client may, one operation at a time, and  *)
(* no object changes its ids there: what holds of the store holds in a pass.  *)
IsContainerStore == StoreSpec

(* As long as the pass lives, a short name leads to an object: none is left   *)
(* behind by the replacement of the visibilities and weights.                 *)
NamesResolve ==
  pc # "destroyed" => \A n \in DOMAIN shortNameToIds : IsObjectPresent(shortNameToIds[n])

Ids(f) == {f[j].id : j \in DOMAIN f}

\* what a station file has is found, as the data of the station and as its phase cal
FoundAs(f, sta, pcal) ==
  \A j \in DOMAIN f :
    /\ f[j].name = "sta" => HasObject(f[j].type, sta)
    /\ f[j].name = "pcal" => HasObject(f[j].type, pcal)

(* The data of the two stations, which come under the same names, are never   *)
(* taken for each other, whatever is missing in one of the files; and when    *)
(* both files were read completely all their data are found under the names   *)
(* of their roles, also if the two stations are the same, or one of them has  *)
(* no phase cal.                                                              *)
StationRoles ==
  /\ \A n \in DOMAIN shortNameToIds :
       /\ n \in {"ref_sta", "ref_pcal"} => shortNameToIds[n] \in Ids(StationFile(Reference))
       /\ n \in {"rem_sta", "rem_pcal"} => shortNameToIds[n] \in Ids(StationFile(Remote))
  /\ pc = "check_stations" /\ whole
       => /\ FoundAs(StationFile(Reference), "ref_sta", "ref_pcal")
          /\ FoundAs(StationFile(Remote), "rem_sta", "rem_pcal")

(* After the cast each object is found, in double precision only, by the id   *)
(* and by the name that it had in the file.                                   *)
CastKeepsIdentity ==
  pc = "check_visibilities" /\ cast # <<>>
    => \A i \in 1..2 :
         /\ Cast(i) \in DOMAIN idsToObjects
         /\ cast[i].from \notin DOMAIN idsToObjects
         /\ cast[i].name \in ShortNames(cast[i].from.id)
=============================================================================
