----------------------------- MODULE BinaryFile ------------------------------
(***************************************************************************)
(* MHO_BinaryFileInterface and MHO_ContainerFileInterface: a file of       *)
(* objects, each behind a key that says its class and its size in bytes.   *)
(* The keys are extracted first, jumping from key to key; then the objects *)
(* are read one after another, each by the factory of its key's class.     *)
(* The two walks over the file have nothing but its bytes in common.       *)
(***************************************************************************)
EXTENDS Integers, Sequences

CONSTANTS
  Class,        \* class names (type uuids)
  Known,        \* the classes the reading program has a factory for
  KeySize,      \* MHO_FileKeySize
  VersionSize,  \* sizeof(MHO_ClassVersion)
  Kind,         \* the objects that are written
  MaxRecords,   \* bound: objects in the file
  MaxCuts       \* bound: writers whose last bytes did not get to the disk

ASSUME KnownAssumption == Known \subseteq Class

\* an object to be written: GetSerializedSize says "declared", the streaming
\* operator writes "actual" bytes, in a version known to the reader or not
Kinds == [class : Class, current : BOOLEAN, declared : Nat, actual : Nat]

ASSUME SizeAssumption ==
  /\ KeySize \in Nat \ {0}
  /\ VersionSize \in Nat \ {0}
  /\ Kind \subseteq Kinds
  /\ \A k \in Kind : k.actual >= VersionSize
  /\ MaxRecords \in Nat
  /\ MaxCuts \in Nat

VARIABLES
  records,   \* what was written to the object file, in order
  length,    \* the bytes the object file has
  index,     \* the index file: keys, each shown as the record it was made for
  safe,      \* the bytes and the keys that were there when the file was opened
  mode,      \* what the interface is doing
  cuts,      \* how often the end of the file was lost
  collect,   \* fCollectKeys
  good,      \* good() of the object stream
  pos,       \* its position, when reading
  source,    \* where the keys were extracted from
  keys,      \* ikeys, likewise
  offsets,   \* byte_offsets
  nextKey,   \* the place in ikeys that PopulateStoreFromFile has come to
  loaded     \* the objects given to the store: for which key, of which record

written == <<records, length, index, safe, cuts, collect>>
reading == <<pos, source, keys, offsets, nextKey, loaded>>
fileVars == <<written, mode, good, reading>>

\* an object in the file: its key starts at byte "at"
FileRecord ==
  [class : Class, current : BOOLEAN, declared : Nat, actual : Nat, at : Nat]

\* an object as Read left it: all its data, none, or data cut short
Quality == {"whole", "empty", "damaged"}

TypeOK ==
  /\ records \in Seq(FileRecord)
  /\ Len(records) <= MaxRecords
  /\ length \in Nat
  /\ index \in Seq(FileRecord)
  /\ safe \in [length : Nat, keys : Nat]
  /\ mode \in {"closed", "write", "keys", "read", "done", "dead"}
  /\ cuts \in 0..MaxCuts
  /\ collect \in BOOLEAN
  /\ good \in BOOLEAN
  /\ pos \in Nat
  /\ source \in {"object", "index"}
  /\ keys \in Seq(FileRecord)
  /\ offsets \in Seq(Nat)
  /\ nextKey \in Nat \ {0}
  /\ loaded \in Seq([key : FileRecord, object : FileRecord, as : Quality])

Closed == [length |-> 0, keys |-> 0]

Init ==
  /\ records = <<>>
  /\ length = 0
  /\ index = <<>>
  /\ safe = Closed
  /\ mode = "closed"
  /\ cuts = 0
  /\ collect = FALSE
  /\ good = TRUE
  /\ pos = 0
  /\ source = "object"
  /\ keys = <<>>
  /\ offsets = <<>>
  /\ nextKey = 1
  /\ loaded = <<>>

-----------------------------------------------------------------------------
(* Positions *)

\* where the data of record i start, and where they should end
Data(i) == records[i].at + KeySize
End(i)  == Data(i) + records[i].actual

\* where the next record starts, or the file ends
Limit(i) == IF i < Len(records) THEN records[i + 1].at ELSE length

\* all bytes of record i are there
Whole(i) == End(i) <= Limit(i)

\* the records whose key is found at byte p: one or none
KeyAt(p) == {i \in 1..Len(records) : records[i].at = p /\ Data(i) <= length}

-----------------------------------------------------------------------------
(* Writing *)

\* bound: the file is new
OpenToWrite(c) ==
  /\ mode = "closed"
  /\ records = <<>>
  /\ mode' = "write"
  /\ collect' = c
  /\ good' = TRUE
  /\ safe' = [length |-> length, keys |-> Len(index)]
  /\ UNCHANGED <<records, length, index, cuts, reading>>

\* mutant: the index is not kept up
AppendForgetsIndex(c) ==
  /\ mode = "closed"
  /\ records # <<>>
  /\ Data(Len(records)) <= length
  /\ mode' = "write"
  /\ collect' = FALSE
  /\ good' = TRUE
  /\ safe' = [length |-> length, keys |-> Len(index)]
  /\ UNCHANGED <<records, length, index, cuts, reading>>

\* also onto a file that was cut short; bounds: not in the middle of a key, and an
\* index is kept up if there is one
OpenToAppend(c) ==
  /\ mode = "closed"
  /\ records # <<>>
  /\ Data(Len(records)) <= length
  /\ mode' = "write"
  /\ collect' = c
  /\ good' = TRUE
  /\ safe' = [length |-> length, keys |-> Len(index)]
  /\ UNCHANGED <<records, length, index, cuts, reading>>

NewRecord(k) ==
  [class |-> k.class, current |-> k.current, declared |-> k.declared,
   actual |-> k.actual, at |-> length]

\* the bytes are in the file also when the size turns out to be wrong, and the
\* object is reported as not written
Write(k) ==
  /\ mode = "write"
  /\ good
  /\ Len(records) < MaxRecords
  /\ records' = Append(records, NewRecord(k))
  /\ length' = length + KeySize + k.actual
  /\ index' = IF collect /\ k.declared = k.actual THEN Append(index, NewRecord(k)) ELSE index
  /\ UNCHANGED <<safe, cuts, mode, collect, good, reading>>

\* the stream fails after n bytes; nothing more is written through it
WriteFails(k, n) ==
  /\ mode = "write"
  /\ good
  /\ Len(records) < MaxRecords
  /\ cuts < MaxCuts
  /\ cuts' = cuts + 1
  /\ n \in 1..(KeySize + k.actual - 1)
  /\ records' = Append(records, NewRecord(k))
  /\ length' = length + n
  /\ good' = FALSE
  /\ UNCHANGED <<index, safe, mode, collect, reading>>

Close ==
  /\ mode = "write"
  /\ mode' = "closed"
  /\ collect' = FALSE
  /\ good' = TRUE
  /\ safe' = Closed
  /\ UNCHANGED <<records, length, index, cuts, reading>>

\* how many records start before byte n
Before(n) ==
  {m \in 0..Len(records) : \A i \in 1..Len(records) : i <= m <=> records[i].at < n}

\* the process dies, or the last flush fails, which is not looked at: of what was
\* written since the file was opened, the end does not get to the disk
CutShort(n, k) ==
  /\ mode = "write"
  /\ cuts < MaxCuts
  /\ cuts' = cuts + 1
  /\ n \in safe.length..length
  /\ k \in {safe.keys, Len(index)}
  /\ length' = n
  /\ \E m \in Before(n) : records' = SubSeq(records, 1, m)
  /\ index' = SubSeq(index, 1, k)
  /\ mode' = "closed"
  /\ collect' = FALSE
  /\ good' = TRUE
  /\ safe' = Closed
  /\ UNCHANGED reading

-----------------------------------------------------------------------------
(* Reading: PopulateStoreFromFile *)

BeginExtraction ==
  /\ mode = "closed"
  /\ mode' = "keys"
  /\ good' = TRUE
  /\ pos' = 0
  /\ UNCHANGED <<written, source, keys, offsets, nextKey, loaded>>

\* ExtractIndexFileObjectKeys; then the object file is opened
TakeIndex ==
  /\ mode = "closed"
  /\ mode' = "read"
  /\ good' = TRUE
  /\ source' = "index"
  /\ keys' = index
  /\ UNCHANGED <<written, pos, offsets, nextKey, loaded>>

\* mutant: the key itself is forgotten in the offsets
ExtractKeyOffByKey ==
  /\ mode = "keys"
  /\ \E i \in KeyAt(pos) :
       /\ keys' = Append(keys, records[i])
       /\ offsets' = Append(offsets, pos - KeySize * Len(keys))
       /\ pos' = Data(i) + records[i].declared
  /\ UNCHANGED <<written, mode, good, source, nextKey, loaded>>

\* a key with the sync word: SkipAhead over its object; a position past the end
\* of the file is reached without complaint
ExtractKey ==
  /\ mode = "keys"
  /\ \E i \in KeyAt(pos) :
       /\ keys' = Append(keys, records[i])
       /\ offsets' = Append(offsets, pos)
       /\ pos' = Data(i) + records[i].declared
  /\ UNCHANGED <<written, mode, good, source, nextKey, loaded>>

\* mutant: the end of the file is not noticed
EndNotNoticed ==
  /\ mode = "keys"
  /\ KeyAt(pos) = {}
  /\ IF pos + KeySize <= length
     THEN mode' = "read" /\ pos' = 0
     ELSE UNCHANGED <<mode, pos>>
  /\ UNCHANGED <<written, good, source, keys, offsets, nextKey, loaded>>

\* mutant: the file is not read from its beginning
EndExtractionNoRewind ==
  /\ mode = "keys"
  /\ KeyAt(pos) = {}
  /\ mode' = "read"
  /\ UNCHANGED <<written, good, pos, source, keys, offsets, nextKey, loaded>>

\* the end of the file, or bytes that are not a key; the objects are read from
\* the beginning of the file
EndExtraction ==
  /\ mode = "keys"
  /\ KeyAt(pos) = {}
  /\ mode' = "read"
  /\ pos' = 0
  /\ UNCHANGED <<written, good, source, keys, offsets, nextKey, loaded>>

\* the factory of the present key, if there is one
Factory == keys[nextKey].class

\* no factory: the class is reported, and nothing is read
UnknownClass ==
  /\ mode = "read"
  /\ nextKey <= Len(keys)
  /\ Factory \notin Known
  /\ nextKey' = nextKey + 1
  /\ UNCHANGED <<written, mode, good, pos, source, keys, offsets, loaded>>

\* MHO_ObjectStreamState::SetUnknown marks streams declared as MHO_FileStreamer;
\* the objects are read from an MHO_BinaryFileStreamer, for which it does nothing
SetUnknown == FALSE

\* the position after record i, of a version that is not known, has been read
AfterUnknownVersion(i) ==
  IF SetUnknown THEN Data(i) + records[i].declared ELSE Data(i) + VersionSize

\* Read: the key at the present position is that of an object of the class asked for
Found == {i \in KeyAt(pos) : good /\ records[i].class = Factory}

\* the object is stored with the id in the key that was read, and the name in the
\* key that was extracted
Load(i, q) ==
  /\ nextKey' = nextKey + 1
  /\ loaded' = Append(loaded, [key |-> keys[nextKey], object |-> records[i], as |-> q])

ReadObject ==
  /\ mode = "read"
  /\ nextKey <= Len(keys)
  /\ Factory \in Known
  /\ \E i \in Found :
       \/ /\ records[i].current
          /\ Whole(i)
          /\ Load(i, "whole")
          /\ pos' = End(i)
       \/ /\ ~records[i].current
          /\ Data(i) + VersionSize <= Limit(i)
          /\ Load(i, "empty")
          /\ pos' = AfterUnknownVersion(i)
  /\ UNCHANGED <<written, mode, good, source, keys, offsets>>

Cut(i) == IF records[i].current THEN ~Whole(i) ELSE Data(i) + VersionSize > Limit(i)

\* an object that is cut short and is taken for what was asked for: of its key, the
\* class at least may be there
FoundCut ==
  {i \in 1..Len(records) :
     good /\ records[i].at = pos /\ records[i].class = Factory /\ Cut(i)}

\* the data end, or go over into another record: what was not read is what the
\* memory or the other record happened to hold, the sizes of what follows included
ReadDamaged ==
  /\ mode = "read"
  /\ nextKey <= Len(keys)
  /\ Factory \in Known
  /\ \E i \in FoundCut :
       /\ Load(i, "damaged")
       /\ \/ pos' \in Data(i)..length /\ good' = good
          \/ pos' = pos /\ good' = FALSE
  /\ UNCHANGED <<written, mode, source, keys, offsets>>

\* ... or the decoder of the tags throws, which nothing catches
ReadThrows ==
  /\ mode = "read"
  /\ nextKey <= Len(keys)
  /\ Factory \in Known
  /\ FoundCut # {}
  /\ mode' = "dead"
  /\ UNCHANGED <<written, good, reading>>

\* the positions after what has been read as a key: if it was
\* none, the bytes in place of its label may ask for more to be skipped
AfterKey ==
  IF ~good THEN {}
  ELSE IF KeyAt(pos) # {} THEN {pos + KeySize}
  ELSE (pos + KeySize)..length

\* mutant: a key of another class is given back, and one that was not there too
ReadMismatchSeeksBack ==
  /\ mode = "read"
  /\ nextKey <= Len(keys)
  /\ Factory \in Known
  /\ Found = {}
  /\ \/ pos' = pos /\ AfterKey # {} /\ good' = good
     \/ pos' = pos - KeySize /\ ~(good /\ KeyAt(pos) # {}) /\ good' = FALSE
  /\ nextKey' = nextKey + 1
  /\ UNCHANGED <<written, mode, source, keys, offsets, loaded>>

\* not a key, or one of another class: it has been read and its object has not
ReadMismatch ==
  /\ mode = "read"
  /\ nextKey <= Len(keys)
  /\ Factory \in Known
  /\ Found = {}
  /\ \/ pos' \in AfterKey /\ good' = good
     \/ pos' = pos /\ ~(good /\ KeyAt(pos) # {}) /\ good' = FALSE
  /\ nextKey' = nextKey + 1
  /\ UNCHANGED <<written, mode, source, keys, offsets, loaded>>

EndLoad ==
  /\ mode = "read"
  /\ nextKey > Len(keys)
  /\ mode' = "done"
  /\ UNCHANGED <<written, good, reading>>

Stopped ==
  /\ mode \in {"done", "dead"}
  /\ UNCHANGED fileVars

-----------------------------------------------------------------------------
WriteSteps ==
  \/ \E c \in BOOLEAN : OpenToWrite(c)
  \/ OpenToAppend(index # <<>>)
  \/ \E k \in Kind :
       \/ Write(k)
       \/ \E n \in 1..(KeySize + k.actual - 1) : WriteFails(k, n)
  \/ Close
  \/ \E n \in 0..length, k \in 0..Len(index) : CutShort(n, k)

ReadSteps ==
  \/ ExtractKey \/ EndExtraction
  \/ UnknownClass \/ ReadObject \/ ReadDamaged \/ ReadThrows \/ ReadMismatch
  \/ EndLoad

Next == WriteSteps \/ BeginExtraction \/ TakeIndex \/ ReadSteps \/ Stopped

Spec == Init /\ [][Next]_fileVars

\* a program that has begun to read a file goes on
FairSpec == Spec /\ WF_fileVars(ReadSteps)

-----------------------------------------------------------------------------
(* Properties *)

\* record i can be jumped over from key to key
Sized(i) == records[i].declared = records[i].actual /\ Whole(i)

\* record i can be read
Readable(i) == Sized(i) /\ records[i].class \in Known /\ records[i].current

(* The keys of the object file are found, in order and with their offsets, up *)
(* to and including the first record that is cut short or has another size    *)
(* than its key says: the two ways to count bytes, on writing and on jumping, *)
(* agree.  Those who read an object by its offset depend on no more.          *)
KeysFound ==
  mode \in {"read", "done"} /\ source = "object" =>
    \A n \in 1..Len(records) :
      (\A i \in 1..(n - 1) : Sized(i)) /\ Data(n) <= length =>
        /\ n <= Len(keys)
        /\ keys[n] = records[n]
        /\ offsets[n] = records[n].at

(* Reading all objects one after another stays in step with the keys, up to   *)
(* the first record that cannot be read: each object before it is in the      *)
(* store, whole and under its own name, whatever comes after it in the file,  *)
(* and whether the keys came from the object file or from an index.           *)
PrefixLoaded ==
  mode = "done" =>
    \A n \in 1..Len(records) :
      (\A i \in 1..n : Readable(i) /\ i <= Len(keys) /\ keys[i] = records[i]) =>
        /\ n <= Len(loaded)
        /\ loaded[n] = [key |-> records[n], object |-> records[n], as |-> "whole"]

(* If no write failed, the two ways to extract the keys give the same: the     *)
(* index has the key of every object, those appended later included.          *)
IndexComplete ==
  /\ mode = "read"
  /\ source = "index"
  /\ cuts = 0
  /\ index # <<>>
  /\ \A i \in 1..Len(records) : Sized(i)
  => keys = records

(* Whatever is in the file, reading it ends.                                  *)
LoadEnds == mode \in {"keys", "read"} ~> mode \in {"done", "dead"}
=============================================================================
