----------------------------- MODULE DataManager ------------------------------
(***************************************************************************)
(* storage::DataManager (DataManager.hpp): the table of file metadata and   *)
(* the file it is saved to, storage.data.  Insert updates the table and     *)
(* then Storage rewrites the whole file in place (FileUtil::SetContent:     *)
(* truncate, then write).  The process may die between two steps; InitLoad  *)
(* reads the file when it starts again.                                     *)
(*                                                                          *)
(* The table has one user, the event loop of the storage service, so its    *)
(* lock is always free.  A URL is the download prefix and a file name, and  *)
(* stands for the name here.                                                *)
(***************************************************************************)
EXTENDS Integers, Functions

CONSTANTS
  Names,       \* file names
  Dirs,        \* storage directories
  MaxInt       \* largest value asInt() returns: 2^31 - 1

ASSUME DataConfig == MaxInt \in Nat

VARIABLES
  table,       \* _m_table
  saved,       \* the entries that parsing storage.data yields
  dm,          \* "off", "ready", or the next step of Storage: "open", "write"
  unsaved      \* history: the last Storage failed

dataVars == <<table, saved, dm, unsaved>>

(***************************************************************************)
(* What the program keeps of a file; path is dir and name.                  *)
(***************************************************************************)
StorageInfo == [name : Names, dir : Dirs, fsize : Nat, mtime : Nat]

EmptyTable == [n \in {} |-> {}]

TableOf(infos) ==
  [n \in {i.name : i \in infos} |-> CHOOSE i \in infos : i.name = n]

DataInit ==
  /\ table = EmptyTable
  /\ saved = {}
  /\ dm = "off"
  /\ unsaved = FALSE

-----------------------------------------------------------------------------
(***************************************************************************)
(* The constructor: nothing is written while loading.  A file that is       *)
(* absent, empty or unreadable yields no entries.  asInt throws for a value *)
(* that needs more than 32 bits, and nobody catches: the program cannot     *)
(* start any more.                                                          *)
(***************************************************************************)
InitLoad ==
  /\ dm = "off"
  /\ \A i \in saved : i.fsize <= MaxInt /\ i.mtime <= MaxInt
  /\ table' = TableOf(saved)
  /\ dm' = "ready"
  /\ unsaved' = FALSE
  /\ UNCHANGED saved

(* Faulty variant: the table is not saved. *)
InsertOnly(info) ==
  /\ dm = "ready"
  /\ table' = [n \in DOMAIN table \cup {info.name} |->
                 IF n = info.name THEN info ELSE table[n]]
  /\ UNCHANGED <<saved, dm, unsaved>>

(* Faulty variant: an entry that is there already is kept. *)
InsertNew(info) ==
  /\ dm = "ready"
  /\ table' = [n \in DOMAIN table \cup {info.name} |->
                 IF n \in DOMAIN table THEN table[n] ELSE info]
  /\ dm' = "open"
  /\ UNCHANGED <<saved, unsaved>>

Insert(info) ==
  /\ dm = "ready"
  /\ table' = [n \in DOMAIN table \cup {info.name} |->
                 IF n = info.name THEN info ELSE table[n]]
  /\ dm' = "open"
  /\ UNCHANGED <<saved, unsaved>>

(***************************************************************************)
(* SetContent opens storage.data: its content is gone.                      *)
(***************************************************************************)
OpenSaved ==
  /\ dm = "open"
  /\ saved' = {}
  /\ dm' = "write"
  /\ UNCHANGED <<table, unsaved>>

(***************************************************************************)
(* It cannot be opened: logged, Storage returns true.                       *)
(***************************************************************************)
OpenSavedFails ==
  /\ dm = "open"
  /\ unsaved' = TRUE
  /\ dm' = "ready"
  /\ UNCHANGED <<table, saved>>

(***************************************************************************)
(* Storage writes what GetAll returns.                                      *)
(***************************************************************************)
GetAll == Range(table)

WriteSaved ==
  /\ dm = "write"
  /\ saved' = GetAll
  /\ unsaved' = FALSE
  /\ dm' = "ready"
  /\ UNCHANGED table

(***************************************************************************)
(* The write fails part of the way, unnoticed.  What UnSerialize gets from  *)
(* a text that stops early are the entries before that place: its result is *)
(* not looked at, and jsoncpp keeps what it has.  (An entry cut in two has  *)
(* no URL yet, the last of its fields, and nobody asks for it.)             *)
(***************************************************************************)
UnSerialized(infos) == SUBSET infos \ {infos}

WriteSavedFails ==
  /\ dm = "write"
  /\ saved' \in UnSerialized(GetAll)
  /\ unsaved' = TRUE
  /\ dm' = "ready"
  /\ UNCHANGED table

Storage == OpenSaved \/ WriteSaved

StorageFails == OpenSavedFails \/ WriteSavedFails

(***************************************************************************)
(* The process dies.                                                        *)
(***************************************************************************)
ForgetTable ==
  /\ table' = EmptyTable
  /\ dm' = "off"
  /\ UNCHANGED <<saved, unsaved>>

GetOneByURL(n) == n \in DOMAIN table

-----------------------------------------------------------------------------
DataNext ==
  \/ InitLoad
  \/ \E info \in StorageInfo : Insert(info)
  \/ Storage \/ StorageFails
  \/ ForgetTable

DataSpec == DataInit /\ [][DataNext]_dataVars

(* Type invariant: each table entry is under its own name.                  *)
DataTypeOK ==
  /\ DOMAIN table \subseteq Names
  /\ \A n \in DOMAIN table : table[n] \in StorageInfo /\ table[n].name = n
  /\ saved \subseteq StorageInfo
  /\ dm \in {"off", "ready", "open", "write"}
  /\ unsaved \in BOOLEAN

(* The file agrees with the table whenever nobody is saving, unless the     *)
(* last attempt to save failed.                                             *)
SavedIsTable == dm = "ready" /\ ~unsaved => saved = Range(table)
=============================================================================
