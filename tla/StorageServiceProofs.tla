------------------------- MODULE StorageServiceProofs -------------------------
(***************************************************************************)
(* Safety of the storage service for any files, clients, sizes, requests,   *)
(* failures and restarts.  The invariant is built in layers, each inductive *)
(* relative to those before it: the shapes of the variables, what the table *)
(* and storage.data hold of the uploads that were answered, which file goes *)
(* with which entry, what is on its way to a client, and what a client has. *)
(***************************************************************************)
EXTENDS StorageService, TLAPS

-----------------------------------------------------------------------------
(* Shapes                                                                   *)

Tag == [name : Names, fsize : Nat, mtime : Nat]

UploadRequest == [kind : {"upload"}, path : Paths, size : Sizes]

DownloadRequest ==
  [kind : {"download"}, client : Clients, name : Names, ifRange : Tag \cup {NoTag},
   from : Nat, last : Int, excused : BOOLEAN]

Reply ==
  [status : {200, 206, 404, 416, 500}, known : BOOLEAN, tag : Tag \cup {NoTag},
   path : Paths \cup {Gone}, num : Nat, size : Nat, total : Nat, next : Nat,
   last : Int, excused : BOOLEAN]

Copy ==
  [tag : Tag \cup {NoTag}, total : Nat, got : Nat, nums : SUBSET Nat, excused : BOOLEAN]

Version == [num : Nat, size : Sizes, info : StorageInfo]

(* The request fits the step, the data manager is busy only for Persist.    *)
RequestInv ==
  /\ pc \in {"down", "idle", "store", "record", "persist", "uncompress", "serve"}
  /\ pc = "down" <=> dm = "off"
  /\ pc \notin {"down", "persist"} => dm = "ready"
  /\ pc \in {"down", "idle"} => req = NoRequest
  /\ pc \in {"store", "record", "persist"} => req \in UploadRequest /\ req.path \in DOMAIN files
  /\ pc \in {"uncompress", "serve"} => req \in DownloadRequest
  /\ pc = "uncompress" => GetOneByURL(req.name) /\ table[req.name].dir = "deep"

FilesInv ==
  /\ {now, uploads, faults, crashes} \subseteq Nat
  /\ DOMAIN files \subseteq Paths
  /\ \A p \in DOMAIN files : files[p] \in [num : 0 .. uploads, size : Sizes \cup {0}]
  /\ stored \subseteq Version
  /\ suspect \subseteq Paths

ClientsInv ==
  /\ reply \in [Clients -> Reply \cup {NoReply}]
  /\ \A c \in Clients : reply[c] # NoReply => reply[c].num <= uploads
  /\ client \in [Clients -> Copy]
  /\ \A c \in Clients : client[c].nums \subseteq 0 .. uploads

TypeInv == DataTypeOK /\ RequestInv /\ FilesInv /\ ClientsInv

-----------------------------------------------------------------------------
(* What was answered is kept                                                *)

(* An upload has one number; the one being handled is the last.             *)
StoredInv ==
  /\ \A s \in stored : s.num <= uploads
  /\ \A s, t \in stored : s.num = t.num => s = t
  /\ pc \in {"store", "record"} => \A s \in stored : s.num < uploads
  /\ acked \subseteq {s.num : s \in stored}
  /\ pc = "persist" => \E s \in stored : /\ s.num = uploads
                                         /\ req.path[2] \in DOMAIN table
                                         /\ s.info = table[req.path[2]]

(* Among the entries infos is that of s, or of a later upload of its name.  *)
Covers(infos, versions, s) ==
  \E i \in infos, t \in versions :
    i.name = s.info.name /\ t.num >= s.num /\ t.info = i

(* What the process that starts next will find: until Storage opens the     *)
(* file, storage.data is as the last Storage that succeeded left it.        *)
Intact == dm = "off" \/ (dm \in {"ready", "open"} /\ ~unsaved)

SavedInv ==
  /\ SavedIsTable
  /\ \A i, j \in saved : i.name = j.name => i = j
  /\ \A s \in stored : s.num \in acked \ lost =>
       /\ dm # "off" => Covers(Range(table), stored, s)
       /\ Intact => Covers(saved, stored, s)

-----------------------------------------------------------------------------
(* The file of an entry                                                     *)

PathOf(info) == <<info.dir, info.name>>

(* The file has the content of the upload that the entry records.           *)
Backed(info, fs, versions) ==
  \E s \in versions : /\ s.info = info
                      /\ PathOf(info) \in DOMAIN fs
                      /\ fs[PathOf(info)] = [num |-> s.num, size |-> s.size]
                      /\ info.fsize = IF info.dir = "deep" THEN Compress(s.size) ELSE s.size

(* A file that is being uploaded goes with no entry until RecordInfo, and   *)
(* with none of storage.data until Storage opens that.                      *)
BackedInv ==
  /\ \A n \in DOMAIN table :
       LET p == PathOf(table[n])
       IN  \/ p \in suspect
           \/ pc = "record" /\ p = req.path
           \/ Backed(table[n], files, stored)
  /\ Intact =>
       \A i \in saved :
         LET p == PathOf(i)
         IN  \/ p \in suspect
             \/ (pc = "record" \/ dm = "open") /\ p = req.path
             \/ Backed(i, files, stored)
  /\ pc = "store" => req.path \in suspect
  /\ pc = "record" /\ req.path \notin suspect =>
       files[req.path] = [num |-> uploads, size |-> req.size]

(* A deep file is served from a copy under the low path.                    *)
CopyInv ==
  pc = "serve" /\ GetOneByURL(req.name) /\ table[req.name].dir = "deep" /\ ~req.excused =>
    /\ <<"deep", req.name>> \in DOMAIN files
    /\ LowPath(req.name) \in DOMAIN files
    /\ files[LowPath(req.name)] = files[<<"deep", req.name>>]

-----------------------------------------------------------------------------
(* Replies and copies                                                       *)

HasBody(c) == reply[c].status \in {200, 206}

IsBodyOf(r, s) == r.num = s.num /\ r.size = s.size /\ r.tag = GetETag(s.info)

(* The body is that of an upload that has the tag.                          *)
ReplyInv ==
  \A c \in Clients :
    reply[c] # NoReply /\ ~reply[c].excused =>
      HasBody(c) /\ \E s \in stored : IsBodyOf(reply[c], s)

(* What is said of a client holds unless it is excused or its tag is that   *)
(* of two uploads.                                                          *)
Sound(c) == client[c].tag # NoTag /\ ~client[c].excused /\ ~Ambiguous(client[c].tag.name)

(* A client has bytes of the upload with its tag, as many as it asked for.  *)
IsPartOf(k, s) ==
  /\ k.tag = GetETag(s.info)
  /\ k.total = s.size
  /\ k.got <= s.size
  /\ k.nums = IF k.got = 0 THEN {} ELSE {s.num}

(* What comes next is what the client has not.                              *)
CopyOK(c) ==
  /\ Sound(c) => \E s \in stored : IsPartOf(client[c], s)
  /\ HasBody(c) => reply[c].tag = client[c].tag
  /\ HasBody(c) /\ ~reply[c].excused /\ Sound(c) =>
       reply[c].last < reply[c].size /\ reply[c].next = client[c].got

CopiesInv == \A c \in Clients : CopyOK(c)

(* The client does not change while its request is handled.                 *)
ResumeInv ==
  pc \in {"uncompress", "serve"} =>
    /\ client[req.client].tag = req.ifRange
    /\ client[req.client].got = req.from
    /\ req.last < client[req.client].total
    /\ reply[req.client] = NoReply

IInv ==
  /\ TypeInv /\ StoredInv /\ SavedInv /\ BackedInv /\ CopyInv
  /\ ReplyInv /\ CopiesInv /\ ResumeInv

-----------------------------------------------------------------------------
(* What the parts of a step do                                              *)

LEMMA SizesNat ==
  /\ \A s \in Sizes \cup {0} : s \in Nat /\ Compress(s) \in Nat
  /\ \A s \in Sizes : s > 0
BY ServiceConfig DEF Compress

LEMMA PathParts ==
  /\ \A p \in Paths : p[1] \in Dirs /\ p[2] \in Names /\ p = <<p[1], p[2]>>
  /\ \A d \in Dirs, n \in Names : <<d, n>> \in Paths /\ LowPath(n) \in Paths
BY ServiceConfig DEF Paths, LowPath

Rewritten(r, n, k, e) == [r EXCEPT !.num = n, !.size = k, !.excused = e]

LEMMA RewrittenReply ==
  ASSUME NEW r \in Reply, NEW n \in Nat, NEW k \in Nat, NEW e \in BOOLEAN
  PROVE  LET u == Rewritten(r, n, k, e)
         IN  /\ u \in Reply /\ u.status = r.status /\ u.tag = r.tag
             /\ u.num = n /\ u.excused = e
<1> DEFINE a == [r EXCEPT !.num = n]
           b == [a EXCEPT !.size = k]
           d == [b EXCEPT !.excused = e]
<1>1. a \in Reply /\ a.status = r.status /\ a.tag = r.tag /\ a.num = n
  BY DEF Reply
<1> HIDE DEF a
<1>2. b \in Reply /\ b.status = a.status /\ b.tag = a.tag /\ b.num = a.num
  BY <1>1 DEF Reply
<1> HIDE DEF b
<1>3. d \in Reply
  BY <1>2 DEF Reply
<1>4. d.status = b.status /\ d.tag = b.tag /\ d.num = b.num /\ d.excused = e
  BY <1>2 DEF Reply
<1> HIDE DEF d
<1>5. d = Rewritten(r, n, k, e)
  BY DEF a, b, d, Rewritten
<1> QED
  BY <1>1, <1>2, <1>3, <1>4, <1>5

LEMMA NotNoReply == NoReply \notin Reply /\ NoReply.status = 0
BY DEF NoReply, Reply

(* Rewriting a file: replies sent from it are excused.                      *)
LEMMA SetContentEffect ==
  ASSUME reply \in [Clients -> Reply \cup {NoReply}],
         NEW p, NEW x \in [num : Nat, size : Sizes \cup {0}], SetContent(p, x)
  PROVE  /\ DOMAIN files' = DOMAIN files \cup {p}
         /\ files'[p] = x
         /\ \A q \in DOMAIN files : q # p => files'[q] = files[q]
         /\ reply' \in [Clients -> Reply \cup {NoReply}]
         /\ \A c \in Clients :
              \/ reply'[c] = reply[c]
              \/ /\ HasBody(c) /\ reply'[c] # NoReply
                 /\ reply'[c].status = reply[c].status
                 /\ reply'[c].num = x.num
                 /\ reply'[c].tag = reply[c].tag
                 /\ reply'[c].excused = TRUE
<1>1. /\ DOMAIN files' = DOMAIN files \cup {p}
      /\ files'[p] = x
      /\ \A q \in DOMAIN files : q # p => files'[q] = files[q]
  BY DEF SetContent
<1>2. x.num \in Nat /\ x.size \in Nat
  BY SizesNat
<1>3. ASSUME NEW c \in Clients
      PROVE  /\ reply'[c] \in Reply \cup {NoReply}
             /\ \/ reply'[c] = reply[c]
                \/ /\ HasBody(c) /\ reply'[c] # NoReply
                   /\ reply'[c].status = reply[c].status
                   /\ reply'[c].num = x.num
                   /\ reply'[c].tag = reply[c].tag
                   /\ reply'[c].excused = TRUE
  <2>1. CASE HasBody(c) /\ reply[c].path = p
    <3>1. reply[c] \in Reply
      BY <2>1, NotNoReply DEF HasBody
    <3>2. reply'[c] = [reply[c] EXCEPT !.num = x.num, !.size = x.size, !.excused = TRUE]
      BY <2>1 DEF HasBody, SetContent
    <3>3. /\ reply'[c] \in Reply /\ reply'[c].status = reply[c].status
          /\ reply'[c].num = x.num /\ reply'[c].tag = reply[c].tag
          /\ reply'[c].excused = TRUE
      <4>1. PICK e \in BOOLEAN : e = TRUE
        OBVIOUS
      <4>2. reply'[c] = Rewritten(reply[c], x.num, x.size, e)
        BY <3>2, <4>1 DEF Rewritten
      <4>3. /\ reply'[c] \in Reply /\ reply'[c].status = reply[c].status
            /\ reply'[c].num = x.num /\ reply'[c].tag = reply[c].tag
            /\ reply'[c].excused = e
        BY <3>1, <4>2, <1>2, RewrittenReply
      <4> QED
        BY <4>1, <4>3
    <3> QED
      BY <3>3, <2>1, NotNoReply
  <2>2. CASE ~(HasBody(c) /\ reply[c].path = p)
    BY <2>2 DEF HasBody, SetContent
  <2> QED
    BY <2>1, <2>2
<1>4. reply' \in [Clients -> Reply \cup {NoReply}]
  BY <1>3 DEF SetContent
<1> QED
  BY <1>1, <1>3, <1>4

-----------------------------------------------------------------------------
(* The shapes are kept                                                      *)

LEMMA FileSizeNat ==
  ASSUME FilesInv, NEW p \in DOMAIN files
  PROVE  /\ files[p].num \in Nat /\ files[p].size \in Nat
         /\ files[p] \in [num : Nat, size : Sizes \cup {0}]
         /\ FileSize(p) \in Nat
         /\ p \in Paths
<1>1. files[p] \in [num : 0 .. uploads, size : Sizes \cup {0}]
  BY DEF FilesInv
<1> QED
  BY <1>1, SizesNat DEF FilesInv, FileSize

LEMMA SetContentFiles ==
  ASSUME FilesInv, reply \in [Clients -> Reply \cup {NoReply}],
         uploads' \in Nat, uploads <= uploads',
         NEW p \in Paths, NEW x \in [num : 0 .. uploads', size : Sizes \cup {0}],
         SetContent(p, x)
  PROVE  /\ DOMAIN files' \subseteq Paths
         /\ \A q \in DOMAIN files' : files'[q] \in [num : 0 .. uploads', size : Sizes \cup {0}]
<1>1. x \in [num : Nat, size : Sizes \cup {0}]
  OBVIOUS
<1>2. \A q \in DOMAIN files : files[q] \in [num : 0 .. uploads, size : Sizes \cup {0}]
  BY DEF FilesInv
<1>3. \A q \in DOMAIN files : files[q] \in [num : 0 .. uploads', size : Sizes \cup {0}]
  <2>1. uploads \in Nat
    BY DEF FilesInv
  <2> QED
    BY <1>2, <2>1
<1>4. /\ DOMAIN files' = DOMAIN files \cup {p}
      /\ files'[p] = x
      /\ \A q \in DOMAIN files : q # p => files'[q] = files[q]
  BY <1>1, SetContentEffect
<1> QED
  BY <1>3, <1>4 DEF FilesInv

LEMMA SetContentClients ==
  ASSUME FilesInv, ClientsInv, uploads' \in Nat, uploads <= uploads', UNCHANGED client,
         NEW p, NEW x \in [num : 0 .. uploads', size : Sizes \cup {0}], SetContent(p, x)
  PROVE  ClientsInv'
<1>1. x \in [num : Nat, size : Sizes \cup {0}] /\ x.num <= uploads' /\ uploads \in Nat
  BY DEF FilesInv
<1>2. /\ reply' \in [Clients -> Reply \cup {NoReply}]
      /\ \A c \in Clients : reply'[c] = reply[c] \/ reply'[c].num = x.num
  BY <1>1, SetContentEffect DEF ClientsInv
<1>3. ASSUME NEW c \in Clients, reply'[c] # NoReply PROVE reply'[c].num <= uploads'
  <2>1. CASE reply'[c] = reply[c]
    <3>1. reply[c] \in Reply /\ reply[c].num <= uploads
      BY <1>3, <2>1 DEF ClientsInv
    <3>2. reply[c].num \in Nat
      BY <3>1 DEF Reply
    <3> QED
      BY <1>1, <2>1, <3>1, <3>2
  <2>2. CASE reply'[c].num = x.num
    BY <1>1, <2>2
  <2> QED
    BY <1>2, <2>1, <2>2
<1>4. \A c \in Clients : client[c].nums \subseteq 0 .. uploads'
  BY <1>1 DEF ClientsInv
<1> QED
  BY <1>2, <1>3, <1>4 DEF ClientsInv

(* What an upload writes.                                                   *)
LEMMA ContentShape ==
  ASSUME FilesInv, NEW u \in Nat
  PROVE  /\ Truncated \in [num : 0 .. u, size : Sizes \cup {0}]
         /\ \A s \in Sizes : [num |-> u, size |-> s] \in [num : 0 .. u, size : Sizes \cup {0}]
BY DEF Truncated

LEMMA UploadPath ==
  ASSUME RequestInv, pc \in {"store", "record", "persist"}
  PROVE  /\ req.path \in Paths /\ req.path \in DOMAIN files /\ req.size \in Sizes
         /\ req.path[1] \in Dirs /\ req.path[2] \in Names
         /\ req.path = <<req.path[1], req.path[2]>>
<1>1. req.path \in Paths /\ req.size \in Sizes
  BY DEF RequestInv, UploadRequest
<1> QED
  BY <1>1, PathParts DEF RequestInv

LEMMA NewInfo ==
  ASSUME RequestInv, FilesInv, pc \in {"store", "record", "persist"}
  PROVE  LET i == NewStorageInfo(req.path)
         IN  /\ i \in StorageInfo
             /\ i.name = req.path[2] /\ i.dir = req.path[1]
             /\ i.fsize = FileSize(req.path)
             /\ PathOf(i) = req.path
<1>1. req.path[1] \in Dirs /\ req.path[2] \in Names /\ FileSize(req.path) \in Nat /\ now \in Nat
  BY UploadPath, FileSizeNat DEF FilesInv
<1>2. req.path = <<req.path[1], req.path[2]>>
  BY UploadPath
<1> QED
  BY <1>1, <1>2 DEF NewStorageInfo, StorageInfo, PathOf

(* A step of the data manager keeps its own types.                          *)
LEMMA DataTypeStep ==
  ASSUME DataTypeOK
  PROVE  /\ InitLoad => DataTypeOK'
         /\ \A info \in StorageInfo : Insert(info) => DataTypeOK'
         /\ Storage => DataTypeOK'
         /\ StorageFails => DataTypeOK'
         /\ ForgetTable => DataTypeOK'
<1> USE DEF DataTypeOK
<1>1. ASSUME InitLoad PROVE DataTypeOK'
  <2>1. /\ table' = [n \in {i.name : i \in saved} |-> CHOOSE i \in saved : i.name = n]
        /\ dm' = "ready" /\ unsaved' = FALSE /\ saved' = saved
    BY <1>1 DEF InitLoad, TableOf
  <2>2. ASSUME NEW n \in {i.name : i \in saved}
        PROVE  (CHOOSE i \in saved : i.name = n) \in saved
               /\ (CHOOSE i \in saved : i.name = n).name = n
    OBVIOUS
  <2>3. {i.name : i \in saved} \subseteq Names
    BY DEF StorageInfo
  <2> QED
    BY <2>1, <2>2, <2>3
<1>2. ASSUME NEW info \in StorageInfo, Insert(info) PROVE DataTypeOK'
  BY <1>2 DEF Insert, StorageInfo
<1>3. Range(table) \subseteq StorageInfo
  BY DEF Range
<1>4. ASSUME Storage PROVE DataTypeOK'
  BY <1>3, <1>4 DEF Storage, OpenSaved, WriteSaved, GetAll
<1>5. ASSUME StorageFails PROVE DataTypeOK'
  BY <1>3, <1>5 DEF StorageFails, OpenSavedFails, WriteSavedFails, UnSerialized, GetAll
<1>6. ASSUME ForgetTable PROVE DataTypeOK'
  BY <1>6 DEF ForgetTable, EmptyTable
<1> QED
  BY <1>1, <1>2, <1>4, <1>5, <1>6

-----------------------------------------------------------------------------
(* What is sent and received                                                *)

LEMMA TagShape ==
  ASSUME NEW i \in StorageInfo
  PROVE  GetETag(i) \in Tag /\ GetETag(i).name = i.name
BY DEF GetETag, Tag, StorageInfo

Body(status, from, last, total, e) ==
  [status |-> status, known |-> TRUE,
   tag |-> GetETag(table[req.name]), path |-> LowPath(req.name),
   num |-> files[LowPath(req.name)].num, size |-> files[LowPath(req.name)].size,
   total |-> total, next |-> from, last |-> last, excused |-> e]

(* The reply is excused from the start.                                     *)
Doubted(total) ==
  \/ req.excused \/ <<table[req.name].dir, req.name>> \in suspect
  \/ total # FileSize(LowPath(req.name))

LEMMA BodyShape ==
  ASSUME DataTypeOK, FilesInv, req.name \in Names, Found,
         NEW status \in {200, 206}, NEW from \in Nat, NEW last \in Int, NEW total \in Nat,
         NEW e \in BOOLEAN
  PROVE  Body(status, from, last, total, e) \in Reply
<1>1. GetETag(table[req.name]) \in Tag \cup {NoTag}
  BY TagShape DEF Found, GetOneByURL, DataTypeOK
<1>2. /\ files[LowPath(req.name)].num \in Nat
      /\ files[LowPath(req.name)].size \in Nat
      /\ LowPath(req.name) \in Paths \cup {Gone}
  BY FileSizeNat DEF Found
<1> QED
  BY <1>1, <1>2 DEF Body, Reply

LEMMA NoBodyShape ==
  ASSUME NEW status \in {200, 404, 416, 500}
  PROVE  /\ NoBody(status) \in Reply
         /\ NoBody(status).status = status /\ NoBody(status).tag = NoTag
         /\ NoBody(status).num = 0 /\ NoBody(status).excused
<1>1. PICK e \in BOOLEAN : e = TRUE
  OBVIOUS
<1>2. PICK k \in BOOLEAN : k = GetOneByURL(req.name)
  <2>1. GetOneByURL(req.name) \in BOOLEAN
    BY DEF GetOneByURL
  <2> QED
    BY <2>1
<1> DEFINE b == [status |-> status, known |-> k, tag |-> NoTag, path |-> Gone, num |-> 0,
                 size |-> 0, total |-> 0, next |-> 0, last |-> -1, excused |-> e]
<1>3. b \in Reply
  BY DEF Reply
<1>4. b.status = status /\ b.tag = NoTag /\ b.num = 0 /\ b.excused = e
  OBVIOUS
<1>5. b = NoBody(status)
  BY <1>1, <1>2 DEF NoBody
<1> HIDE DEF b
<1>6. /\ NoBody(status) \in Reply
      /\ NoBody(status).status = status /\ NoBody(status).tag = NoTag
      /\ NoBody(status).num = 0 /\ NoBody(status).excused = e
  BY <1>3, <1>4, <1>5
<1> QED
  BY <1>1, <1>6

Detached(r) == [r EXCEPT !.path = Gone]

LEMMA DetachedReply ==
  ASSUME NEW r \in Reply
  PROVE  LET u == Detached(r)
         IN  /\ u \in Reply /\ u.status = r.status /\ u.tag = r.tag /\ u.num = r.num
             /\ u.size = r.size /\ u.last = r.last /\ u.next = r.next /\ u.excused = r.excused
BY DEF Detached, Reply

Advanced(r) == [r EXCEPT !.next = @ + 1]

LEMMA AdvancedReply ==
  ASSUME NEW r \in Reply
  PROVE  LET u == Advanced(r)
         IN  /\ u \in Reply /\ u.status = r.status /\ u.tag = r.tag /\ u.num = r.num
             /\ u.size = r.size /\ u.last = r.last /\ u.next = r.next + 1 /\ u.excused = r.excused
BY DEF Advanced, Reply

LEMMA NothingShape ==
  /\ Nothing \in Copy /\ Nothing.tag = NoTag /\ Nothing.total = 0
  /\ Nothing.got = 0 /\ Nothing.nums = {} /\ Nothing.excused = FALSE
BY DEF Nothing, Copy

(* The headers of a reply at the client.                                    *)
LEMMA HeaderShape ==
  ASSUME NEW had \in Copy, NEW r \in Reply
  PROVE  LET k == AfterHeader(had, r)
         IN  /\ k \in Copy
             /\ k.total = r.total
             /\ r.status = 200 => /\ k.tag = r.tag /\ k.got = 0 /\ k.nums = {}
                                  /\ k.excused = r.excused
             /\ r.status # 200 => /\ k.tag = had.tag /\ k.got = had.got /\ k.nums = had.nums
                                  /\ k.excused = (had.excused \/ r.excused)
<1>1. /\ r.total \in Nat /\ r.tag \in Tag \cup {NoTag} /\ r.excused \in BOOLEAN
      /\ had.excused \in BOOLEAN
  BY DEF Reply, Copy
<1>2. CASE r.status = 200
  <2> DEFINE a == [Nothing EXCEPT !.tag = r.tag]
             b == [a EXCEPT !.total = r.total]
             d == [b EXCEPT !.excused = r.excused]
  <2>1. a \in Copy /\ a.tag = r.tag /\ a.got = 0 /\ a.nums = {}
    BY <1>1, NothingShape DEF Copy
  <2> HIDE DEF a
  <2>2. b \in Copy /\ b.tag = a.tag /\ b.total = r.total /\ b.got = a.got /\ b.nums = a.nums
    BY <1>1, <2>1 DEF Copy
  <2> HIDE DEF b
  <2>3. d \in Copy /\ d.tag = b.tag /\ d.total = b.total /\ d.got = b.got /\ d.nums = b.nums
    BY <1>1, <2>2 DEF Copy
  <2>4. d.excused = r.excused
    BY <1>1, <2>2 DEF Copy
  <2> HIDE DEF d
  <2>5. d = AfterHeader(had, r)
    BY <1>2 DEF a, b, d, AfterHeader
  <2> QED
    BY <1>2, <2>1, <2>2, <2>3, <2>4, <2>5
<1>3. CASE r.status # 200
  <2>0. PICK e \in BOOLEAN : e = (had.excused \/ r.excused)
    OBVIOUS
  <2> DEFINE b == [had EXCEPT !.total = r.total]
             d == [b EXCEPT !.excused = e]
  <2>2. b \in Copy /\ b.tag = had.tag /\ b.total = r.total /\ b.got = had.got /\ b.nums = had.nums
    BY <1>1 DEF Copy
  <2> HIDE DEF b
  <2>3. d \in Copy /\ d.tag = b.tag /\ d.total = b.total /\ d.got = b.got /\ d.nums = b.nums
    BY <2>2 DEF Copy
  <2>4. d.excused = e
    BY <2>2 DEF Copy
  <2> HIDE DEF d
  <2>5. d = AfterHeader(had, r)
    BY <1>3, <2>0 DEF b, d, AfterHeader
  <2> QED
    BY <1>3, <2>0, <2>2, <2>3, <2>4, <2>5
<1> QED
  BY <1>2, <1>3

(* The statuses of the replies with a body. *)
BodyStatus == {200, 206}

(* A reply with a body at its client, and what another client may see: that *)
(* its file is gone.                                                        *)
Delivered(status, from, last, total) ==
  LET c == req.client
      p == LowPath(req.name)
      e == Doubted(total)
  IN  /\ c \in Clients
      /\ reply' \in [Clients -> Reply \cup {NoReply}]
      /\ reply'[c] # NoReply /\ reply'[c].status = status
      /\ reply'[c].num = files[p].num /\ reply'[c].size = files[p].size
      /\ reply'[c].tag = GetETag(table[req.name])
      /\ reply'[c].next = from /\ reply'[c].last = last
      /\ reply'[c].excused = e
      /\ \A d \in Clients : d # c =>
           \/ reply'[d] = reply[d]
           \/ /\ HasBody(d) /\ reply'[d] # NoReply
              /\ reply'[d].status = reply[d].status
              /\ reply'[d].num = reply[d].num /\ reply'[d].size = reply[d].size
              /\ reply'[d].tag = reply[d].tag
              /\ reply'[d].next = reply[d].next
              /\ reply'[d].last = reply[d].last
              /\ reply'[d].excused = reply[d].excused
      /\ client' \in [Clients -> Copy]
      /\ \A d \in Clients : d # c => client'[d] = client[d]
      /\ client'[c].total = total
      /\ status = 200 => /\ client'[c].tag = GetETag(table[req.name])
                         /\ client'[c].got = 0 /\ client'[c].nums = {}
                         /\ client'[c].excused = e
      /\ status = 206 => /\ client'[c].tag = client[c].tag
                         /\ client'[c].got = client[c].got
                         /\ client'[c].nums = client[c].nums
                         /\ client'[c].excused = (client[c].excused \/ e)
      /\ DOMAIN files' \subseteq DOMAIN files
      /\ \A q \in DOMAIN files' : files'[q] = files[q]
      /\ \A q \in DOMAIN files : q \in DOMAIN files' \/ (q = p /\ table[req.name].dir # "low")

LEMMA SendEffect ==
  ASSUME TypeInv, pc = "serve", Found,
         NEW status \in BodyStatus, NEW from \in Nat, NEW last \in Int,
         NEW total \in Nat, SendFile(status, from, last, total)
  PROVE  Delivered(status, from, last, total)
<1> USE DEF BodyStatus
<1> DEFINE c == req.client
           n == req.name
           p == LowPath(n)
<1>1. c \in Clients /\ n \in Names /\ req.excused \in BOOLEAN
  BY DEF TypeInv, RequestInv, DownloadRequest
<1>2. PICK e \in BOOLEAN : e = Doubted(total)
  <2>1. Doubted(total) \in BOOLEAN
    BY DEF Doubted
  <2> QED
    BY <2>1
<1> DEFINE r == Body(status, from, last, total, e)
<1>3. /\ r \in Reply /\ r.status = status /\ r.num = files[p].num /\ r.size = files[p].size
      /\ r.tag = GetETag(table[n]) /\ r.total = total
      /\ r.next = from /\ r.last = last /\ r.excused = e
  <2>1. r \in Reply
    BY <1>1, BodyShape DEF TypeInv
  <2> QED
    BY <2>1 DEF Body
<1>4. /\ client' = [client EXCEPT ![c] = AfterHeader(client[c], r)]
      /\ IF IsTemporary(n)
         THEN /\ files' = Restrict(files, DOMAIN files \ {p})
              /\ reply' = [Unlinked(p) EXCEPT ![c] = Detached(r)]
         ELSE /\ reply' = [reply EXCEPT ![c] = r]
              /\ UNCHANGED files
  BY <1>2 DEF SendFile, Body, Detached, Doubted
<1>t. /\ client \in [Clients -> Copy]
      /\ reply \in [Clients -> Reply \cup {NoReply}]
  BY DEF TypeInv, ClientsInv
<1> DEFINE k == AfterHeader(client[c], r)
<1> HIDE DEF r
<1>5. /\ k \in Copy
      /\ k.total = total
      /\ status = 200 => /\ k.tag = GetETag(table[n]) /\ k.got = 0 /\ k.nums = {}
                         /\ k.excused = e
      /\ status = 206 => /\ k.tag = client[c].tag /\ k.got = client[c].got
                         /\ k.nums = client[c].nums
                         /\ k.excused = (client[c].excused \/ e)
  <2>1. client[c] \in Copy
    BY <1>1, <1>t
  <2> QED
    BY <1>3, <2>1, HeaderShape
<1> HIDE DEF k
<1>6. /\ client' \in [Clients -> Copy]
      /\ \A d \in Clients : d # c => client'[d] = client[d]
      /\ client'[c] = k
  BY <1>1, <1>4, <1>5, <1>t DEF k
<1>7. LET u == Detached(r)
      IN  /\ u \in Reply /\ u.status = status /\ u.num = files[p].num /\ u.size = files[p].size
          /\ u.tag = GetETag(table[n]) /\ u.next = from /\ u.last = last /\ u.excused = e
  BY <1>3, DetachedReply
<1>8. /\ reply' \in [Clients -> Reply \cup {NoReply}]
      /\ reply'[c] \in {r, Detached(r)}
      /\ \A d \in Clients : d # c =>
           \/ reply'[d] = reply[d]
           \/ HasBody(d) /\ reply[d] \in Reply /\ reply'[d] = Detached(reply[d])
  <2>1. CASE IsTemporary(n)
    <3>1. \A d \in Clients :
            \/ Unlinked(p)[d] = reply[d]
            \/ HasBody(d) /\ reply[d] \in Reply /\ Unlinked(p)[d] = Detached(reply[d])
      BY <1>t, NotNoReply DEF Unlinked, Detached, HasBody
    <3>2. Unlinked(p) \in [Clients -> Reply \cup {NoReply}]
      <4>1. \A d \in Clients : Unlinked(p)[d] \in Reply \cup {NoReply}
        BY <3>1, <1>t, DetachedReply
      <4> QED
        BY <4>1 DEF Unlinked
    <3>3. reply' = [Unlinked(p) EXCEPT ![c] = Detached(r)] /\ Detached(r) \in Reply
      BY <2>1, <1>4, <1>7
    <3> QED
      BY <3>1, <3>2, <3>3, <1>1
  <2>2. CASE ~IsTemporary(n)
    BY <2>2, <1>1, <1>3, <1>4, <1>t
  <2> QED
    BY <2>1, <2>2
<1>9. /\ reply'[c] # NoReply /\ reply'[c].status = status
      /\ reply'[c].num = files[p].num /\ reply'[c].size = files[p].size
      /\ reply'[c].tag = GetETag(table[n])
      /\ reply'[c].next = from /\ reply'[c].last = last /\ reply'[c].excused = e
  BY <1>3, <1>7, <1>8, NotNoReply
<1>10. \A d \in Clients : d # c =>
         \/ reply'[d] = reply[d]
         \/ /\ HasBody(d) /\ reply'[d] # NoReply
            /\ reply'[d].status = reply[d].status
            /\ reply'[d].num = reply[d].num /\ reply'[d].size = reply[d].size
            /\ reply'[d].tag = reply[d].tag
            /\ reply'[d].next = reply[d].next
            /\ reply'[d].last = reply[d].last
            /\ reply'[d].excused = reply[d].excused
  BY <1>8, DetachedReply, NotNoReply
<1>11. /\ DOMAIN files' \subseteq DOMAIN files
       /\ \A q \in DOMAIN files' : files'[q] = files[q]
       /\ \A q \in DOMAIN files : q \in DOMAIN files' \/ (q = p /\ table[n].dir # "low")
  BY <1>4 DEF IsTemporary, Restrict
<1> QED
  BY <1>1, <1>2, <1>5, <1>6, <1>8, <1>9, <1>10, <1>11 DEF Delivered

LEMMA AnswerEffect ==
  ASSUME TypeInv, pc = "serve", NEW status \in {200, 404, 416, 500}, Answer(status)
  PROVE  LET c == req.client
         IN  /\ c \in Clients
             /\ reply' \in [Clients -> Reply \cup {NoReply}]
             /\ reply'[c].status = status /\ reply'[c].num = 0
             /\ reply'[c].tag = NoTag /\ reply'[c].excused
             /\ \A d \in Clients : d # c => reply'[d] = reply[d]
             /\ UNCHANGED files
<1>1. req.client \in Clients
  BY DEF TypeInv, RequestInv, DownloadRequest
<1>2. reply \in [Clients -> Reply \cup {NoReply}]
  BY DEF TypeInv, ClientsInv
<1>3. reply' = [reply EXCEPT ![req.client] = NoBody(status)] /\ UNCHANGED files
  BY DEF Answer
<1>4. /\ NoBody(status) \in Reply
      /\ NoBody(status).status = status /\ NoBody(status).tag = NoTag
      /\ NoBody(status).num = 0 /\ NoBody(status).excused
  BY NoBodyShape
<1>5. reply'[req.client] = NoBody(status)
  BY <1>1, <1>2, <1>3
<1> QED
  BY <1>1, <1>2, <1>3, <1>4, <1>5

Received(k, x, e) == [k EXCEPT !.got = @ + 1, !.nums = @ \cup {x}, !.excused = e]

LEMMA ReceivedCopy ==
  ASSUME NEW k \in Copy, NEW x \in Nat, NEW e \in BOOLEAN
  PROVE  LET u == Received(k, x, e)
         IN  /\ u \in Copy /\ u.tag = k.tag /\ u.total = k.total /\ u.got = k.got + 1
             /\ u.nums = k.nums \cup {x} /\ u.excused = e
<1> DEFINE a == [k EXCEPT !.got = @ + 1]
           b == [a EXCEPT !.nums = @ \cup {x}]
           d == [b EXCEPT !.excused = e]
<1>1. /\ a \in Copy /\ a.tag = k.tag /\ a.total = k.total /\ a.got = k.got + 1
      /\ a.nums = k.nums
  BY DEF Copy
<1> HIDE DEF a
<1>2. /\ b \in Copy /\ b.tag = a.tag /\ b.total = a.total /\ b.got = a.got
      /\ b.nums = a.nums \cup {x}
  BY <1>1 DEF Copy
<1> HIDE DEF b
<1>3. /\ d \in Copy /\ d.tag = b.tag /\ d.total = b.total /\ d.got = b.got
      /\ d.nums = b.nums /\ d.excused = e
  BY <1>2 DEF Copy
<1> HIDE DEF d
<1>4. d = Received(k, x, e)
  BY DEF a, b, d, Received
<1> QED
  BY <1>1, <1>2, <1>3, <1>4

(* A byte arrives: it is one of the body, or beyond it.                     *)
LEMMA ReceiveEffect ==
  ASSUME TypeInv, NEW c \in Clients, ReceiveByte(c)
  PROVE  LET x == IF reply[c].next < reply[c].size THEN reply[c].num ELSE 0
         IN  /\ reply[c] \in Reply /\ reply[c].next <= reply[c].last
             /\ x \in Nat
             /\ client' \in [Clients -> Copy]
             /\ \A d \in Clients : d # c => client'[d] = client[d]
             /\ client'[c].tag = client[c].tag /\ client'[c].total = client[c].total
             /\ client'[c].got = client[c].got + 1
             /\ client'[c].nums = client[c].nums \cup {x}
             /\ client'[c].excused = (client[c].excused \/ reply[c].excused)
             /\ reply' \in [Clients -> Reply \cup {NoReply}]
             /\ \A d \in Clients : d # c => reply'[d] = reply[d]
             /\ \/ reply'[c] = NoReply
                \/ /\ reply'[c].status = reply[c].status
                   /\ reply'[c].num = reply[c].num /\ reply'[c].size = reply[c].size
                   /\ reply'[c].tag = reply[c].tag
                   /\ reply'[c].next = reply[c].next + 1
                   /\ reply'[c].last = reply[c].last
                   /\ reply'[c].excused = reply[c].excused
<1> DEFINE r == reply[c]
           x == IF r.next < r.size THEN r.num ELSE 0
<1>t. /\ client \in [Clients -> Copy]
      /\ reply \in [Clients -> Reply \cup {NoReply}]
  BY DEF TypeInv, ClientsInv
<1>1. r \in Reply /\ r.next <= r.last
  BY <1>t DEF ReceiveByte, Sending
<1>2. x \in Nat
  BY <1>1 DEF Reply
<1>3. PICK e \in BOOLEAN : e = (client[c].excused \/ r.excused)
  OBVIOUS
<1> HIDE DEF x
<1>4. client'[c] = Received(client[c], x, e) /\ \A d \in Clients : d # c => client'[d] = client[d]
  <2> DEFINE A == [client EXCEPT ![c].got = @ + 1]
             B == [A EXCEPT ![c].nums = @ \cup {x}]
             D == [B EXCEPT ![c].excused = @ \/ r.excused]
             k == client[c]
             a == [k EXCEPT !.got = @ + 1]
             b == [a EXCEPT !.nums = @ \cup {x}]
  <2>0. client' = D
    BY DEF ReceiveByte, x
  <2>1. A[c] = a /\ DOMAIN A = Clients /\ \A d \in Clients : d # c => A[d] = client[d]
    BY <1>t
  <2>2. a.excused = k.excused
    BY <1>t DEF Copy
  <2> HIDE DEF A, a
  <2>3. B[c] = b /\ DOMAIN B = Clients /\ \A d \in Clients : d # c => B[d] = A[d]
    BY <2>1
  <2>4. b.excused = a.excused
    OBVIOUS
  <2> HIDE DEF B, b
  <2>5. /\ D[c] = [b EXCEPT !.excused = @ \/ r.excused]
        /\ \A d \in Clients : d # c => D[d] = B[d]
    BY <2>3
  <2>6. [b EXCEPT !.excused = @ \/ r.excused] = [b EXCEPT !.excused = e]
    BY <1>3, <2>2, <2>4
  <2> HIDE DEF D
  <2>7. [b EXCEPT !.excused = e] = Received(k, x, e)
    BY DEF Received, a, b
  <2> QED
    BY <2>0, <2>1, <2>3, <2>5, <2>6, <2>7
<1>5. /\ client'[c] \in Copy /\ client'[c].tag = client[c].tag
      /\ client'[c].total = client[c].total
      /\ client'[c].got = client[c].got + 1
      /\ client'[c].nums = client[c].nums \cup {x} /\ client'[c].excused = e
  BY <1>2, <1>4, <1>t, ReceivedCopy
<1>6. client' \in [Clients -> Copy]
  <2>1. \A d \in Clients : client'[d] \in Copy
    BY <1>4, <1>5, <1>t
  <2>2. client' = [d \in Clients |-> client'[d]]
    BY <1>t DEF ReceiveByte
  <2> QED
    BY <2>1, <2>2
<1>7. /\ reply' = [reply EXCEPT ![c] = IF r.next < r.last THEN Advanced(r) ELSE NoReply]
  BY DEF ReceiveByte, Advanced
<1>8. /\ Advanced(r) \in Reply /\ Advanced(r).status = r.status /\ Advanced(r).tag = r.tag
      /\ Advanced(r).num = r.num /\ Advanced(r).size = r.size /\ Advanced(r).last = r.last
      /\ Advanced(r).next = r.next + 1 /\ Advanced(r).excused = r.excused
  BY <1>1, AdvancedReply
<1>9. /\ reply' \in [Clients -> Reply \cup {NoReply}]
      /\ \A d \in Clients : d # c => reply'[d] = reply[d]
      /\ reply'[c] \in {Advanced(r), NoReply}
  BY <1>7, <1>8, <1>t
<1> QED
  BY <1>1, <1>2, <1>3, <1>4, <1>5, <1>6, <1>8, <1>9 DEF x

-----------------------------------------------------------------------------
(* Every step keeps the shapes                                              *)

Wanted(c, n, t, from, last) ==
  [kind |-> "download", client |-> c, name |-> n, ifRange |-> t, from |-> from,
   last |-> last, excused |-> FALSE]

LEMMA WantedShape ==
  ASSUME NEW c \in Clients, NEW n \in Names, NEW t \in Tag \cup {NoTag},
         NEW from \in Nat, NEW last \in Int
  PROVE  LET r == Wanted(c, n, t, from, last)
         IN  /\ r \in DownloadRequest /\ r.client = c /\ r.name = n /\ r.ifRange = t
             /\ r.from = from /\ r.last = last
<1>1. PICK e \in BOOLEAN : e = FALSE
  OBVIOUS
<1> DEFINE b == [kind |-> "download", client |-> c, name |-> n, ifRange |-> t,
                 from |-> from, last |-> last, excused |-> e]
<1>2. b \in DownloadRequest
  BY DEF DownloadRequest
<1>3. /\ b.client = c /\ b.name = n /\ b.ifRange = t
      /\ b.from = from /\ b.last = last
  OBVIOUS
<1>4. b = Wanted(c, n, t, from, last)
  BY <1>1 DEF Wanted
<1> HIDE DEF b
<1> QED
  BY <1>2, <1>3, <1>4

Excused(r) == [r EXCEPT !.excused = TRUE]

LEMMA ExcusedShape ==
  ASSUME NEW r \in DownloadRequest
  PROVE  LET u == Excused(r)
         IN  /\ u \in DownloadRequest /\ u.client = r.client /\ u.name = r.name
             /\ u.ifRange = r.ifRange /\ u.from = r.from /\ u.last = r.last
             /\ u.excused
<1>1. PICK e \in BOOLEAN : e = TRUE
  OBVIOUS
<1> DEFINE b == [r EXCEPT !.excused = e]
<1>2. /\ b \in DownloadRequest /\ b.client = r.client /\ b.name = r.name
      /\ b.ifRange = r.ifRange /\ b.from = r.from /\ b.last = r.last
      /\ b.excused = e
  BY DEF DownloadRequest
<1>3. b = Excused(r)
  BY <1>1 DEF Excused
<1> HIDE DEF b
<1> QED
  BY <1>1, <1>2, <1>3

(* A request begins.                                                        *)
LEMMA HandleEffect ==
  ASSUME TypeInv, UNCHANGED dataVars,
         NEW c \in Clients, NEW n \in Names, NEW t \in Tag \cup {NoTag},
         NEW from \in Nat, NEW last \in Int, Handle(Wanted(c, n, t, from, last))
  PROVE  /\ RequestInv'
         /\ pc = "idle" /\ pc' \in {"uncompress", "serve"}
         /\ pc' = "serve" /\ GetOneByURL(n) => table[n].dir # "deep"
         /\ reply[c] = NoReply
         /\ req'.client = c /\ req'.name = n /\ req'.ifRange = t
         /\ req'.from = from /\ req'.last = last
<1> DEFINE r == Wanted(c, n, t, from, last)
<1>1. /\ r \in DownloadRequest /\ r.client = c /\ r.name = n /\ r.ifRange = t
      /\ r.from = from /\ r.last = last
  BY WantedShape
<1> HIDE DEF r
<1>2. /\ pc = "idle" /\ reply[r.client] = NoReply /\ req' = r
      /\ pc' = IF GetOneByURL(r.name) /\ table[r.name].dir = "deep"
                 THEN "uncompress" ELSE "serve"
  BY DEF Handle, r
<1>3. dm = "ready" /\ dm' = "ready" /\ table' = table
  BY <1>2 DEF TypeInv, RequestInv, dataVars
<1>4. RequestInv'
  BY <1>1, <1>2, <1>3 DEF RequestInv, GetOneByURL
<1> QED
  BY <1>1, <1>2, <1>4

(* Steps that leave files, replies and copies as they are.                  *)
LEMMA StillTypes ==
  ASSUME FilesInv, ClientsInv, UNCHANGED <<files, reply, client>>, uploads' = uploads
  PROVE  /\ ClientsInv'
         /\ {now', faults', crashes'} \subseteq Nat /\ stored' \subseteq Version
              /\ suspect' \subseteq Paths => FilesInv'
<1>1. ClientsInv'
  BY DEF ClientsInv
<1>2. ASSUME {now', faults', crashes'} \subseteq Nat, stored' \subseteq Version,
             suspect' \subseteq Paths
      PROVE  FilesInv'
  BY <1>2 DEF FilesInv
<1> QED
  BY <1>1, <1>2

LEMMA UploadTypes ==
  ASSUME TypeInv,
         \/ \E n \in Names, d \in Dirs, s \in Sizes : Upload(n, d, s)
         \/ WriteFile \/ WriteFileFails
  PROVE  TypeInv'
<1> USE DEF TypeInv
<1>r. reply \in [Clients -> Reply \cup {NoReply}]
  BY DEF ClientsInv
<1>u. uploads \in Nat /\ faults \in Nat
  BY DEF FilesInv
<1>1. ASSUME NEW n \in Names, NEW d \in Dirs, NEW s \in Sizes, Upload(n, d, s)
      PROVE  TypeInv'
  <2>1. /\ pc = "idle" /\ pc' = "store" /\ UNCHANGED <<dataVars, client>>
        /\ uploads' = uploads + 1 /\ SetContent(<<d, n>>, Truncated)
        /\ req' = [kind |-> "upload", path |-> <<d, n>>, size |-> s]
        /\ suspect' = suspect \cup {<<d, n>>}
        /\ UNCHANGED <<now, faults, crashes, stored>>
    BY <1>1 DEF Upload
  <2>2. <<d, n>> \in Paths
    BY PathParts
  <2>3. /\ Truncated \in [num : 0 .. uploads', size : Sizes \cup {0}]
        /\ uploads' \in Nat /\ uploads <= uploads'
    BY <1>u, <2>1, ContentShape
  <2>4. ClientsInv'
    BY <2>1, <2>3, SetContentClients
  <2>5. /\ DOMAIN files' \subseteq Paths
        /\ \A q \in DOMAIN files' : files'[q] \in [num : 0 .. uploads', size : Sizes \cup {0}]
    BY <1>r, <2>1, <2>2, <2>3, SetContentFiles
  <2>6. FilesInv'
    BY <2>1, <2>2, <2>3, <2>5 DEF FilesInv
  <2>7. DataTypeOK'
    BY <2>1 DEF DataTypeOK, dataVars
  <2>8. <<d, n>> \in DOMAIN files'
    BY <2>1 DEF SetContent
  <2>9. req' \in UploadRequest /\ req'.path = <<d, n>>
    BY <2>1, <2>2 DEF UploadRequest
  <2>10. RequestInv'
    BY <2>1, <2>8, <2>9 DEF RequestInv, dataVars
  <2> QED
    BY <2>4, <2>6, <2>7, <2>10
<1>2. ASSUME pc = "store", NEW x \in [num : 0 .. uploads, size : Sizes \cup {0}],
             SetContent(req.path, x), pc' = "record",
             UNCHANGED <<dataVars, req, client, now, uploads, crashes, stored>>,
             faults' \in Nat, suspect' \subseteq suspect
      PROVE  TypeInv'
  <2>1. /\ x \in [num : 0 .. uploads', size : Sizes \cup {0}]
        /\ uploads' \in Nat /\ uploads <= uploads'
    BY <1>2, <1>u
  <2>2. req.path \in Paths /\ req.path \in DOMAIN files
    BY <1>2, UploadPath
  <2>3. ClientsInv'
    BY <1>2, <2>1, SetContentClients
  <2>4. /\ DOMAIN files' \subseteq Paths
        /\ \A q \in DOMAIN files' : files'[q] \in [num : 0 .. uploads', size : Sizes \cup {0}]
    BY <1>r, <1>2, <2>1, <2>2, SetContentFiles
  <2>5. FilesInv'
    BY <1>2, <2>4 DEF FilesInv
  <2>6. DataTypeOK'
    BY <1>2 DEF DataTypeOK, dataVars
  <2>7. req.path \in DOMAIN files'
    BY <1>2 DEF SetContent
  <2>8. RequestInv'
    BY <1>2, <2>7 DEF RequestInv, dataVars
  <2> QED
    BY <2>3, <2>5, <2>6, <2>8
<1>3. CASE WriteFile
  <2>1. [num |-> uploads, size |-> req.size] \in [num : 0 .. uploads, size : Sizes \cup {0}]
    BY <1>3, <1>u, UploadPath DEF WriteFile
  <2> QED
    BY <1>2, <1>3, <1>u, <2>1 DEF WriteFile
<1>4. CASE WriteFileFails
  <2>1. Truncated \in [num : 0 .. uploads, size : Sizes \cup {0}]
    BY <1>u, ContentShape
  <2> QED
    BY <1>2, <1>4, <1>u, <2>1 DEF WriteFileFails, Fault
<1> QED
  BY <1>1, <1>3, <1>4

LEMMA RecordTypes ==
  ASSUME TypeInv, RecordInfo \/ Persist \/ PersistFails \/ UploadReplies
  PROVE  TypeInv'
<1> USE DEF TypeInv
<1>u. uploads \in Nat /\ faults \in Nat
  BY DEF FilesInv
<1>1. CASE RecordInfo
  <2> DEFINE i == NewStorageInfo(req.path)
             v == [num |-> uploads, size |-> req.size, info |-> i]
  <2>1. /\ pc = "record" /\ pc' = "persist" /\ Insert(i)
        /\ stored' = stored \cup {v}
        /\ UNCHANGED <<req, files, reply, client, now, uploads, faults, crashes, suspect>>
    BY <1>1 DEF RecordInfo
  <2>2. i \in StorageInfo /\ req.size \in Sizes
    BY <2>1, NewInfo, UploadPath
  <2> HIDE DEF i
  <2>3. v \in Version
    BY <1>u, <2>2 DEF Version
  <2> HIDE DEF v
  <2>4. DataTypeOK'
    BY <2>1, <2>2, DataTypeStep
  <2>5. FilesInv' /\ ClientsInv'
    BY <2>1, <2>3, StillTypes DEF FilesInv
  <2>6. dm' = "open"
    BY <2>1 DEF Insert
  <2>7. RequestInv'
    BY <2>1, <2>6 DEF RequestInv
  <2> QED
    BY <2>4, <2>5, <2>7
<1>2. CASE Persist \/ PersistFails
  <2>1. /\ pc = "persist" /\ pc' = pc /\ (Storage \/ StorageFails) /\ faults' \in Nat
        /\ UNCHANGED <<req, files, reply, client, now, uploads, crashes, stored, suspect>>
    BY <1>2, <1>u DEF Persist, PersistFails, Fault, storageVars
  <2>2. DataTypeOK'
    BY <2>1, DataTypeStep
  <2>3. FilesInv' /\ ClientsInv'
    BY <2>1, StillTypes DEF FilesInv
  <2>4. dm' # "off" /\ dm # "off"
    BY <2>1 DEF Storage, StorageFails, OpenSaved, WriteSaved, OpenSavedFails, WriteSavedFails
  <2>5. RequestInv'
    BY <2>1, <2>4 DEF RequestInv
  <2> QED
    BY <2>2, <2>3, <2>5
<1>3. CASE UploadReplies
  <2>1. /\ dm = "ready" /\ pc' = "idle" /\ req' = NoRequest /\ UNCHANGED dataVars
        /\ UNCHANGED <<files, reply, client, now, uploads, faults, crashes, stored, suspect>>
    BY <1>3 DEF UploadReplies
  <2>2. DataTypeOK'
    BY <2>1 DEF DataTypeOK, dataVars
  <2>3. FilesInv' /\ ClientsInv'
    BY <2>1, StillTypes DEF FilesInv
  <2>4. RequestInv'
    BY <2>1 DEF RequestInv, dataVars
  <2> QED
    BY <2>2, <2>3, <2>4
<1> QED
  BY <1>1, <1>2, <1>3

LEMMA LifeTypes ==
  ASSUME TypeInv, Start \/ Die \/ Tick
  PROVE  TypeInv'
<1> USE DEF TypeInv
<1>1. CASE Start
  <2>1. /\ pc = "down" /\ pc' = "idle" /\ InitLoad
        /\ UNCHANGED <<req, files, reply, client, now, uploads, faults, crashes, stored, suspect>>
    BY <1>1 DEF Start, Run, storageVars
  <2>2. DataTypeOK'
    BY <2>1, DataTypeStep
  <2>3. FilesInv' /\ ClientsInv'
    BY <2>1, StillTypes DEF FilesInv
  <2>4. dm' = "ready"
    BY <2>1 DEF InitLoad
  <2>5. RequestInv'
    BY <2>1, <2>4 DEF RequestInv
  <2> QED
    BY <2>2, <2>3, <2>5
<1>2. CASE Die
  <2>1. /\ pc' = "down" /\ req' = NoRequest /\ ForgetTable /\ crashes' = crashes + 1
        /\ reply' = [c \in Clients |-> NoReply]
        /\ UNCHANGED <<files, client, now, uploads, faults, stored>>
        /\ suspect' = IF dm = "write" \/ unsaved THEN Paths
                      ELSE IF pc = "record" \/ dm = "open" THEN suspect \cup {req.path}
                      ELSE suspect
    BY <1>2 DEF Die
  <2>2. DataTypeOK'
    BY <2>1, DataTypeStep
  <2>3. suspect' \subseteq Paths
    <3>1. pc = "record" \/ dm = "open" => req.path \in Paths
      BY UploadPath DEF RequestInv
    <3> QED
      BY <2>1, <3>1 DEF FilesInv
  <2>4. FilesInv'
    BY <2>1, <2>3 DEF FilesInv
  <2>5. ClientsInv'
    BY <2>1 DEF ClientsInv
  <2>6. dm' = "off"
    BY <2>1 DEF ForgetTable
  <2>7. RequestInv'
    BY <2>1, <2>6 DEF RequestInv
  <2> QED
    BY <2>2, <2>4, <2>5, <2>7
<1>3. CASE Tick
  <2>1. now' = now + 1 /\ UNCHANGED <<dataVars, storageVars, pc, req, reply, client>>
    BY <1>3 DEF Tick
  <2>2. FilesInv' /\ ClientsInv'
    BY <2>1, StillTypes DEF FilesInv, storageVars
  <2>3. DataTypeOK' /\ RequestInv'
    BY <2>1 DEF DataTypeOK, RequestInv, dataVars, storageVars, GetOneByURL
  <2> QED
    BY <2>2, <2>3
<1> QED
  BY <1>1, <1>2, <1>3

LEMMA HandleTypes ==
  ASSUME TypeInv,
         \/ \E c \in Clients, n \in Names : Download(c, n)
         \/ \E c \in Clients : \E last \in {ToEnd} \cup 0 .. client[c].total - 1 : Resume(c, last)
  PROVE  TypeInv'
<1> USE DEF TypeInv
<1>t. client \in [Clients -> Copy]
  BY DEF ClientsInv
<1>1. ASSUME NEW c \in Clients, NEW n \in Names, Download(c, n) PROVE TypeInv'
  <2>1. /\ Handle(Wanted(c, n, NoTag, 0, ToEnd))
        /\ client' = [client EXCEPT ![c] = Nothing]
        /\ UNCHANGED <<dataVars, storageVars, reply, now>>
    BY <1>1 DEF Download, Wanted
  <2>2. RequestInv'
    <3>1. NoTag \in Tag \cup {NoTag} /\ 0 \in Nat /\ ToEnd \in Int
      BY DEF ToEnd
    <3> QED
      BY <2>1, <3>1, HandleEffect
  <2>3. FilesInv' /\ DataTypeOK'
    BY <2>1 DEF FilesInv, DataTypeOK, dataVars, storageVars
  <2>4. /\ client' \in [Clients -> Copy]
        /\ \A d \in Clients : client'[d].nums = client[d].nums \/ client'[d].nums = {}
    BY <1>t, <2>1, NothingShape
  <2>5. ClientsInv'
    BY <2>1, <2>4 DEF ClientsInv, storageVars
  <2> QED
    BY <2>2, <2>3, <2>5
<1>2. ASSUME NEW c \in Clients, NEW last \in {ToEnd} \cup 0 .. client[c].total - 1,
             Resume(c, last)
      PROVE  TypeInv'
  <2>1. /\ client[c].tag # NoTag
        /\ Handle(Wanted(c, client[c].tag.name, client[c].tag, client[c].got, last))
        /\ UNCHANGED <<dataVars, storageVars, reply, client, now>>
    BY <1>2 DEF Resume, Wanted
  <2>2. /\ client[c].tag \in Tag /\ client[c].got \in Nat /\ last \in Int
    BY <1>t, <2>1 DEF Copy, ToEnd
  <2>3. client[c].tag.name \in Names
    BY <2>2 DEF Tag
  <2>4. RequestInv'
    BY <2>1, <2>2, <2>3, HandleEffect
  <2>5. FilesInv' /\ DataTypeOK' /\ ClientsInv'
    BY <2>1 DEF FilesInv, DataTypeOK, ClientsInv, dataVars, storageVars
  <2> QED
    BY <2>4, <2>5
<1> QED
  BY <1>1, <1>2

LEMMA UnCompressTypes ==
  ASSUME TypeInv, UnCompress \/ UnCompressFails
  PROVE  TypeInv'
<1> USE DEF TypeInv
<1>r. reply \in [Clients -> Reply \cup {NoReply}]
  BY DEF ClientsInv
<1>u. uploads \in Nat /\ faults \in Nat
  BY DEF FilesInv
<1>1. /\ pc = "uncompress" /\ pc' = "serve" /\ UNCHANGED dataVars
      /\ UNCHANGED <<client, now, uploads, crashes, stored, suspect>>
      /\ faults' \in Nat
      /\ req' \in {req, Excused(req)}
      /\ \/ UNCHANGED <<files, reply>>
         \/ SetContent(LowPath(req.name), Truncated)
         \/ /\ <<"deep", req.name>> \in DOMAIN files
            /\ SetContent(LowPath(req.name), files[<<"deep", req.name>>])
  BY <1>u DEF UnCompress, UnCompressFails, Fault, Excused
<1>2. req \in DownloadRequest /\ req.name \in Names
  BY <1>1 DEF RequestInv, DownloadRequest
<1>3. req' \in DownloadRequest
  BY <1>1, <1>2, ExcusedShape
<1>4. DataTypeOK' /\ RequestInv'
  BY <1>1, <1>3 DEF DataTypeOK, RequestInv, dataVars
<1>5. ASSUME NEW x \in [num : 0 .. uploads, size : Sizes \cup {0}],
             SetContent(LowPath(req.name), x)
      PROVE  FilesInv' /\ ClientsInv'
  <2>1. x \in [num : 0 .. uploads', size : Sizes \cup {0}] /\ uploads' \in Nat /\ uploads <= uploads'
    BY <1>1, <1>u
  <2>2. LowPath(req.name) \in Paths
    BY <1>2, PathParts, ServiceConfig
  <2>3. ClientsInv'
    BY <1>1, <1>5, <2>1, SetContentClients
  <2>4. /\ DOMAIN files' \subseteq Paths
        /\ \A q \in DOMAIN files' : files'[q] \in [num : 0 .. uploads', size : Sizes \cup {0}]
    BY <1>r, <1>5, <2>1, <2>2, SetContentFiles
  <2> QED
    BY <1>1, <2>3, <2>4 DEF FilesInv
<1>6. CASE UNCHANGED <<files, reply>>
  <2>1. FilesInv' /\ ClientsInv'
    BY <1>1, <1>6, StillTypes DEF FilesInv
  <2> QED
    BY <1>4, <2>1
<1>7. CASE SetContent(LowPath(req.name), Truncated)
  <2>1. Truncated \in [num : 0 .. uploads, size : Sizes \cup {0}]
    BY <1>u, ContentShape
  <2> QED
    BY <1>4, <1>5, <1>7, <2>1
<1>8. CASE /\ <<"deep", req.name>> \in DOMAIN files
           /\ SetContent(LowPath(req.name), files[<<"deep", req.name>>])
  <2>1. files[<<"deep", req.name>>] \in [num : 0 .. uploads, size : Sizes \cup {0}]
    BY <1>8 DEF FilesInv
  <2> QED
    BY <1>4, <1>5, <1>8, <2>1
<1> QED
  BY <1>1, <1>6, <1>7, <1>8

(* A reply with a body: a 200 has all of it or, if it is excused, nothing;  *)
(* a 206 begins where the client's copy ends.                               *)
Sent(status, from, last, total) ==
  LET size == FileSize(LowPath(req.name)) IN
  /\ Found
  /\ SendFile(status, from, last, total)
  /\ Delivered(status, from, last, total)
  /\ \/ status = 200 /\ from = 0 /\ total \in {0, size} /\ last = total - 1
     \/ /\ status = 206 /\ Retrans /\ from = req.from /\ from < size
        /\ total = size /\ last \in {from - 1, size - 1, req.last}

SomethingSent ==
  \E status \in BodyStatus, from \in Nat, last \in Int, total \in Nat :
    Sent(status, from, last, total)

(* How a request is served.                                                 *)
LEMMA ServeEffect ==
  ASSUME TypeInv, DownloadStep, pc = "serve"
  PROVE  /\ pc' = "idle" /\ req' = NoRequest /\ UNCHANGED dataVars
         /\ UNCHANGED <<now, uploads, crashes, stored, acked, lost, suspect>>
         /\ faults' \in Nat
         /\ \/ \E status \in {200, 404, 416, 500} :
                 /\ Answer(status)
                 /\ \/ status # 200 /\ UNCHANGED client
                    \/ status = 200 /\ client' = [client EXCEPT ![req.client] = Nothing]
            \/ SomethingSent
<1>u. uploads \in Nat /\ faults \in Nat
  BY DEF TypeInv, FilesInv
<1>1. CASE ServeUnknown \/ ServeMissing \/ ServeOpenFails \/ RangeRefused
  BY <1>1, <1>u DEF ServeUnknown, ServeMissing, ServeOpenFails, RangeRefused, Serving, Fault
<1> DEFINE size == FileSize(LowPath(req.name))
<1>s. Found => size \in Nat
  BY FileSizeNat DEF Found, TypeInv
<1>r. req.from \in Nat /\ req.last \in Int
  BY DEF TypeInv, RequestInv, DownloadRequest
<1>2. CASE ServeWhole \/ ServeRange \/ ServeEmpty
  <2>1. /\ Serving /\ Found /\ faults' \in Nat
    BY <1>2, <1>u DEF ServeWhole, ServeRange, ServeEmpty, Fault
  <2>n. PICK sz \in Nat, top \in Int : sz = size /\ top = size - 1
    <3>1. size \in Nat /\ size - 1 \in Int
      BY <1>s, <2>1
    <3> QED
      BY <3>1
  <2> HIDE DEF size
  <2>d. ASSUME NEW status \in BodyStatus, NEW from \in Nat, NEW last \in Int,
               NEW total \in Nat, SendFile(status, from, last, total),
               \/ status = 200 /\ from = 0 /\ total \in {0, sz} /\ last = total - 1
               \/ /\ status = 206 /\ Retrans /\ from = req.from /\ from < sz
                  /\ total = sz /\ last \in {from - 1, sz - 1, req.last}
        PROVE  SomethingSent
    <3>1. Delivered(status, from, last, total)
      BY <2>1, <2>d, SendEffect
    <3>2. Sent(status, from, last, total)
      BY <2>1, <2>d, <2>n, <3>1 DEF Sent, size
    <3> QED
      BY <3>2, Zenon DEF SomethingSent
  <2>2. ASSUME SendFile(200, 0, top, sz) PROVE SomethingSent
    <3>1. PICK st \in BodyStatus, zero \in Nat : st = 200 /\ zero = 0
      BY DEF BodyStatus
    <3>2. SendFile(st, zero, top, sz)
      BY <2>2, <3>1
    <3>3. st = 200 /\ zero = 0 /\ sz \in {0, sz} /\ top = sz - 1
      BY <2>n, <3>1
    <3> QED
      BY <2>d, <3>2, <3>3
  <2>3. ASSUME SendFile(200, 0, -1, 0) PROVE SomethingSent
    <3>1. PICK st \in BodyStatus, zero \in Nat, minus \in Int :
            st = 200 /\ zero = 0 /\ minus = -1
      BY DEF BodyStatus
    <3>2. SendFile(st, zero, minus, zero)
      BY <2>3, <3>1
    <3>3. st = 200 /\ zero = 0 /\ zero \in {0, sz} /\ minus = zero - 1
      BY <3>1
    <3> QED
      BY <2>d, <3>2, <3>3
  <2>4. ASSUME NEW last \in {req.from - 1, sz - 1, req.last}, Retrans, req.from < sz,
               SendFile(206, req.from, last, sz)
        PROVE  SomethingSent
    <3>1. PICK st \in BodyStatus, from \in Nat, end \in Int :
            st = 206 /\ from = req.from /\ end = last
      BY <1>r, <2>n DEF BodyStatus
    <3>2. SendFile(st, from, end, sz)
      BY <2>4, <3>1
    <3> QED
      BY <2>4, <2>d, <3>1, <3>2
  <2>5. \/ SendFile(200, 0, top, sz)
        \/ SendFile(200, 0, -1, 0)
        \/ /\ Retrans /\ req.from < sz
           /\ \E last \in {req.from - 1, sz - 1, req.last} :
                SendFile(206, req.from, last, sz)
    BY <1>2, <2>n DEF ServeWhole, ServeRange, ServeEmpty, size
  <2> QED
    BY <2>1, <2>2, <2>3, <2>4, <2>5 DEF Serving
<1>3. ~UnCompress /\ ~UnCompressFails
  BY DEF UnCompress, UnCompressFails
<1> QED
  BY <1>1, <1>2, <1>3 DEF DownloadStep

LEMMA ServeTypes ==
  ASSUME TypeInv, DownloadStep, pc = "serve"
  PROVE  TypeInv'
<1> USE DEF TypeInv
<1>t. /\ client \in [Clients -> Copy] /\ req \in DownloadRequest /\ req.client \in Clients
      /\ req.from \in Nat /\ req.last \in Int /\ req.name \in Names
  BY DEF ClientsInv, RequestInv, DownloadRequest
<1>1. /\ pc' = "idle" /\ req' = NoRequest /\ UNCHANGED dataVars
      /\ UNCHANGED <<now, uploads, crashes, stored, acked, lost, suspect>>
      /\ faults' \in Nat
  BY ServeEffect
<1>2. DataTypeOK' /\ RequestInv'
  BY <1>1 DEF DataTypeOK, RequestInv, dataVars
<1>3. ASSUME NEW status \in {200, 404, 416, 500}, Answer(status),
             UNCHANGED client \/ client' = [client EXCEPT ![req.client] = Nothing]
      PROVE  FilesInv' /\ ClientsInv'
  <2>1. /\ reply' \in [Clients -> Reply \cup {NoReply}]
        /\ reply'[req.client].num = 0
        /\ \A d \in Clients : d # req.client => reply'[d] = reply[d]
        /\ UNCHANGED files
    BY <1>3, AnswerEffect
  <2>2. /\ client' \in [Clients -> Copy]
        /\ \A d \in Clients : client'[d].nums = client[d].nums \/ client'[d].nums = {}
    BY <1>t, <1>3, NothingShape
  <2>3. uploads \in Nat /\ FilesInv'
    BY <1>1, <2>1 DEF FilesInv
  <2> QED
    BY <1>1, <2>1, <2>2, <2>3 DEF ClientsInv
<1>4. ASSUME NEW status \in BodyStatus, NEW from \in Nat, NEW last \in Int,
             NEW total \in Nat, Sent(status, from, last, total)
      PROVE  FilesInv' /\ ClientsInv'
  <2> DEFINE c == req.client
             p == LowPath(req.name)
  <2>f. Found /\ Delivered(status, from, last, total)
    BY <1>4 DEF Sent
  <2>1. /\ reply' \in [Clients -> Reply \cup {NoReply}]
        /\ reply'[c].num = files[p].num
        /\ \A d \in Clients : d # c =>
             reply'[d] = reply[d] \/ (HasBody(d) /\ reply'[d].num = reply[d].num)
        /\ client' \in [Clients -> Copy]
        /\ \A d \in Clients : d # c => client'[d] = client[d]
        /\ client'[c].nums = {} \/ client'[c].nums = client[c].nums
        /\ DOMAIN files' \subseteq DOMAIN files
        /\ \A q \in DOMAIN files' : files'[q] = files[q]
    BY <2>f DEF Delivered, BodyStatus
  <2>2. p \in DOMAIN files /\ files[p].num <= uploads
    BY <2>f DEF Found, FilesInv
  <2>3. FilesInv'
    BY <1>1, <2>1 DEF FilesInv
  <2>4. \A d \in Clients : reply'[d] # NoReply => reply'[d].num <= uploads'
    BY <1>1, <2>1, <2>2, NotNoReply DEF ClientsInv, HasBody
  <2>5. \A d \in Clients : client'[d].nums \subseteq 0 .. uploads'
    BY <1>1, <1>t, <2>1 DEF ClientsInv
  <2> QED
    BY <2>1, <2>3, <2>4, <2>5 DEF ClientsInv
<1>6. FilesInv' /\ ClientsInv'
  <2>1. CASE SomethingSent
    <3>1. PICK status \in BodyStatus, from \in Nat, last \in Int, total \in Nat :
            Sent(status, from, last, total)
      BY <2>1, Zenon DEF SomethingSent
    <3> QED
      BY <1>4, <3>1, Zenon
  <2> QED
    BY <1>3, <2>1, ServeEffect
<1> QED
  BY <1>2, <1>6

LEMMA ClientTypes ==
  ASSUME TypeInv, ClientStep
  PROVE  TypeInv'
<1> USE DEF TypeInv
<1>1. UNCHANGED <<dataVars, storageVars, pc, req, now>>
  BY DEF ClientStep, ReceiveByte, Disconnect, Sending
<1>2. DataTypeOK' /\ RequestInv' /\ FilesInv'
  BY <1>1 DEF DataTypeOK, RequestInv, FilesInv, GetOneByURL, dataVars, storageVars
<1>3. PICK c \in Clients : ReceiveByte(c) \/ Disconnect(c)
  BY DEF ClientStep
<1>4. CASE ReceiveByte(c)
  <2> DEFINE x == IF reply[c].next < reply[c].size THEN reply[c].num ELSE 0
  <2>1. /\ reply[c] \in Reply /\ x \in Nat
        /\ client' \in [Clients -> Copy]
        /\ \A d \in Clients : d # c => client'[d] = client[d]
        /\ client'[c].nums = client[c].nums \cup {x}
        /\ reply' \in [Clients -> Reply \cup {NoReply}]
        /\ \A d \in Clients : d # c => reply'[d] = reply[d]
        /\ reply'[c] = NoReply \/ reply'[c].num = reply[c].num
    BY <1>4, ReceiveEffect
  <2>2. x \in 0 .. uploads /\ reply[c].num <= uploads
    BY <2>1, NotNoReply DEF ClientsInv, FilesInv
  <2> HIDE DEF x
  <2>3. uploads' = uploads
    BY <1>1 DEF storageVars
  <2>4. \A d \in Clients : reply'[d] # NoReply => reply'[d].num <= uploads'
    BY <2>1, <2>2, <2>3 DEF ClientsInv
  <2>5. \A d \in Clients : client'[d].nums \subseteq 0 .. uploads'
    BY <2>1, <2>2, <2>3 DEF ClientsInv
  <2> QED
    BY <1>2, <2>1, <2>4, <2>5 DEF ClientsInv
<1>5. CASE Disconnect(c)
  <2>1. reply' = [reply EXCEPT ![c] = NoReply] /\ UNCHANGED client
    BY <1>5 DEF Disconnect
  <2>2. ClientsInv'
    BY <1>1, <2>1 DEF ClientsInv, storageVars
  <2> QED
    BY <1>2, <2>2
<1> QED
  BY <1>3, <1>4, <1>5

LEMMA TypeStep ==
  ASSUME TypeInv, [Next]_vars
  PROVE  TypeInv'
<1>1. CASE UNCHANGED vars
  BY <1>1 DEF vars, dataVars, storageVars, TypeInv, DataTypeOK, RequestInv, FilesInv,
              ClientsInv, GetOneByURL
<1>2. CASE Start \/ Crash \/ Tick \/ MalformedLink
  BY <1>2, LifeTypes DEF Crash, MalformedLink
<1>3. CASE UploadStep
  BY <1>3, UploadTypes, RecordTypes DEF UploadStep
<1>4. CASE DownloadStep
  <2>1. pc \in {"uncompress", "serve"}
    BY <1>4 DEF DownloadStep, UnCompress, UnCompressFails, ServeUnknown, ServeMissing,
                ServeOpenFails, ServeWhole, ServeRange, ServeEmpty, RangeRefused, Serving
  <2>2. CASE pc = "uncompress"
    BY <1>4, <2>2, UnCompressTypes
       DEF DownloadStep, ServeUnknown, ServeMissing, ServeOpenFails, ServeWhole,
           ServeRange, ServeEmpty, RangeRefused, Serving
  <2> QED
    BY <1>4, <2>1, <2>2, ServeTypes
<1>5. CASE ClientStep
  BY <1>5, ClientTypes
<1>6. CASE GenHandler /\ ~MalformedLink /\ ~UNCHANGED vars
  BY <1>6, HandleTypes, UploadTypes DEF GenHandler, UploadRefused
<1> QED
  BY <1>1, <1>2, <1>3, <1>4, <1>5, <1>6 DEF Next

-----------------------------------------------------------------------------
(* The steps, by what they touch                                            *)

(* A file is written for an upload.                                         *)
Written ==
  \/ \E n \in Names, d \in Dirs, s \in Sizes : Upload(n, d, s)
  \/ WriteFile \/ WriteFileFails

Quiet ==
  \/ /\ pc = "idle" /\ now' \in Nat
     /\ UNCHANGED <<dataVars, storageVars, pc, req, reply, client>>
  \/ UNCHANGED vars

Handled ==
  \/ \E c \in Clients, n \in Names : Download(c, n)
  \/ \E c \in Clients : \E last \in {ToEnd} \cup 0 .. client[c].total - 1 : Resume(c, last)

Served == pc = "serve" /\ DownloadStep

Aside == Quiet \/ Handled \/ UnCompress \/ UnCompressFails \/ Served \/ ClientStep

LEMMA StepCases ==
  ASSUME TypeInv, [Next]_vars
  PROVE  \/ Start \/ Die \/ Written \/ RecordInfo
         \/ Persist \/ PersistFails \/ UploadReplies \/ Aside
<1> USE DEF Aside
<1>1. CASE UNCHANGED vars
  BY <1>1 DEF Quiet
<1>2. CASE Start \/ Crash \/ Tick \/ MalformedLink
  <2>1. CASE Tick
    <3>1. now' \in Nat
      BY <2>1 DEF Tick, TypeInv, FilesInv
    <3> QED
      BY <2>1, <3>1 DEF Tick, Quiet
  <2> QED
    BY <1>2, <2>1 DEF Crash, MalformedLink
<1>3. CASE UploadStep
  BY <1>3 DEF UploadStep, Written
<1>4. CASE DownloadStep
  BY <1>4 DEF DownloadStep, Served, ServeUnknown, ServeMissing,
              ServeOpenFails, ServeWhole, ServeRange, ServeEmpty, RangeRefused, Serving
<1>6. CASE GenHandler
  BY <1>6 DEF GenHandler, UploadRefused, MalformedLink, Handled, Written, Quiet
<1> QED
  BY <1>1, <1>2, <1>3, <1>4, <1>6 DEF Next

(* Downloads and clients leave alone what uploads have recorded.            *)
LEMMA AsideKeeps ==
  ASSUME TypeInv, Aside
  PROVE  /\ UNCHANGED <<table, saved, dm, unsaved, stored, acked, lost, uploads, suspect>>
         /\ pc' \notin {"store", "record", "persist"} \/ UNCHANGED <<pc, req>>
<1>1. CASE Quiet
  BY <1>1 DEF Quiet, dataVars, storageVars, vars
<1>3. CASE Handled
  BY <1>3 DEF Handled, Handle, Download, Resume, dataVars, storageVars
<1>4. CASE UnCompress \/ UnCompressFails
  BY <1>4 DEF UnCompress, UnCompressFails, dataVars
<1>5. CASE Served
  BY <1>5, ServeEffect DEF Served, dataVars
<1>6. CASE ClientStep
  BY <1>6 DEF ClientStep, ReceiveByte, Disconnect, Sending, dataVars, storageVars
<1> QED
  BY <1>1, <1>3, <1>4, <1>5, <1>6 DEF Aside

LEMMA AsidePhase ==
  ASSUME Aside
  PROVE  pc \in {"store", "record", "persist"} => pc' = pc
<1>1. CASE Quiet
  BY <1>1 DEF Quiet, vars
<1>2. CASE Handled
  BY <1>2 DEF Handled, Download, Resume, Handle
<1>3. CASE UnCompress \/ UnCompressFails
  BY <1>3 DEF UnCompress, UnCompressFails
<1>4. CASE Served
  BY <1>4 DEF Served
<1>5. CASE ClientStep
  BY <1>5 DEF ClientStep, ReceiveByte, Disconnect, Sending
<1> QED
  BY <1>1, <1>2, <1>3, <1>4, <1>5 DEF Aside

-----------------------------------------------------------------------------
(* What was answered is kept                                                *)

LEMMA StoredKept ==
  ASSUME StoredInv, UNCHANGED <<stored, acked, uploads>>,
         \/ pc' \notin {"store", "record", "persist"}
         \/ pc = "store" /\ pc' = "record"
         \/ UNCHANGED <<pc, req, table>>
  PROVE  StoredInv'
BY DEF StoredInv

LEMMA StoredStep ==
  ASSUME TypeInv, StoredInv, [Next]_vars
  PROVE  StoredInv'
<1>u. uploads \in Nat /\ \A s \in stored : s.num \in Nat
  BY DEF TypeInv, FilesInv, Version
<1>1. CASE Start \/ Die
  BY <1>1, StoredKept DEF Start, Run, Die, storageVars
<1>2. CASE Written
  <2>1. ASSUME NEW n \in Names, NEW d \in Dirs, NEW s \in Sizes, Upload(n, d, s)
        PROVE  StoredInv'
    <3>1. pc' = "store" /\ uploads' = uploads + 1 /\ UNCHANGED <<stored, acked>>
      BY <2>1 DEF Upload
    <3> QED
      BY <1>u, <3>1 DEF StoredInv
  <2>2. CASE WriteFile \/ WriteFileFails
    BY <2>2, StoredKept DEF WriteFile, WriteFileFails
  <2> QED
    BY <1>2, <2>1, <2>2 DEF Written
<1>3. CASE RecordInfo
  <2> DEFINE i == NewStorageInfo(req.path)
             v == [num |-> uploads, size |-> req.size, info |-> i]
  <2>1. /\ pc = "record" /\ pc' = "persist" /\ Insert(i)
        /\ stored' = stored \cup {v}
        /\ UNCHANGED <<req, uploads, acked>>
    BY <1>3 DEF RecordInfo
  <2>2. i.name = req.path[2]
    BY <2>1, NewInfo DEF TypeInv
  <2> HIDE DEF i
  <2>3. v.num = uploads /\ v.info = i
    OBVIOUS
  <2> HIDE DEF v
  <2>4. /\ \A s \in stored : s.num < uploads /\ s.num <= uploads
        /\ \A s, t \in stored : s.num = t.num => s = t
        /\ acked \subseteq {s.num : s \in stored}
    BY <2>1, <1>u DEF StoredInv
  <2>5. req.path[2] \in DOMAIN table' /\ table'[req.path[2]] = i
    BY <2>1, <2>2 DEF Insert
  <2>6. /\ \A s \in stored' : s.num <= uploads
        /\ \A s, t \in stored' : s.num = t.num => s = t
        /\ acked' \subseteq {s.num : s \in stored'}
    BY <1>u, <2>1, <2>3, <2>4
  <2> QED
    BY <2>1, <2>3, <2>5, <2>6 DEF StoredInv
<1>4. CASE Persist \/ PersistFails
  <2>1. /\ UNCHANGED <<pc, req, stored, acked, uploads, table>>
    BY <1>4 DEF Persist, PersistFails, Storage, StorageFails, OpenSaved, WriteSaved,
                OpenSavedFails, WriteSavedFails, storageVars
  <2> QED
    BY <2>1, StoredKept
<1>5. CASE UploadReplies
  <2>1. /\ pc = "persist" /\ pc' = "idle" /\ acked' = acked \cup {uploads}
        /\ UNCHANGED <<stored, uploads>>
    BY <1>5 DEF UploadReplies
  <2> QED
    BY <2>1 DEF StoredInv
<1>6. CASE Aside
  BY <1>6, AsideKeeps, StoredKept
<1> QED
  BY <1>1, <1>2, <1>3, <1>4, <1>5, <1>6, StepCases

LEMMA EntryRange ==
  ASSUME DataTypeOK
  PROVE  /\ \A i \in Range(table) : i.name \in DOMAIN table /\ i = table[i.name]
         /\ \A i, j \in Range(table) : i.name = j.name => i = j
         /\ \A n \in DOMAIN table : table[n] \in Range(table) /\ table[n].name = n
BY DEF DataTypeOK, Range

(* Loading takes the entries over.                                          *)
LEMMA LoadRange ==
  ASSUME InitLoad, \A i, j \in saved : i.name = j.name => i = j
  PROVE  /\ Range(table') = saved
         /\ \A n \in DOMAIN table' : table'[n] \in saved
<1>1. table' = [n \in {i.name : i \in saved} |-> CHOOSE i \in saved : i.name = n]
  BY DEF InitLoad, TableOf
<1>2. \A i \in saved : i = CHOOSE j \in saved : j.name = i.name
  OBVIOUS
<1>3. \A i \in saved : i.name \in DOMAIN table' /\ table'[i.name] = i
  BY <1>1, <1>2
<1>4. \A n \in DOMAIN table' : table'[n] \in saved
  BY <1>1, <1>2
<1> QED
  BY <1>3, <1>4 DEF Range

LEMMA SavedStep ==
  ASSUME TypeInv, StoredInv, SavedInv, [Next]_vars
  PROVE  SavedInv'
<1>u. uploads \in Nat /\ \A s \in stored : s.num \in Nat
  BY DEF TypeInv, FilesInv, Version
<1>d. DataTypeOK
  BY DEF TypeInv
<1>1. CASE Start
  <2>1. /\ dm = "off" /\ dm' = "ready" /\ saved' = saved /\ InitLoad
        /\ UNCHANGED <<stored, acked, lost>>
    BY <1>1 DEF Start, InitLoad, storageVars
  <2>2. Range(table') = saved
    BY <2>1, LoadRange DEF SavedInv
  <2>3. SavedIsTable'
    BY <2>1, <2>2 DEF SavedIsTable, Range
  <2>4. \A s \in stored : s.num \in acked \ lost => Covers(saved, stored, s)
    BY <2>1 DEF SavedInv, Intact
  <2>5. \A s \in stored : s.num \in acked \ lost => Covers(saved, stored', s)
    BY <2>1, <2>4 DEF Covers
  <2>6. Range(table)' = saved'
    BY <2>1, <2>2 DEF Range
  <2> QED
    BY <2>1, <2>3, <2>5, <2>6 DEF SavedInv
<1>2. CASE Die
  <2>1. /\ dm' = "off" /\ UNCHANGED <<saved, stored, acked>>
        /\ lost' = IF dm = "write" \/ unsaved THEN {s.num : s \in stored} ELSE lost
    BY <1>2 DEF Die, ForgetTable
  <2>2. SavedIsTable'
    BY <2>1 DEF SavedIsTable
  <2>3. ASSUME NEW s \in stored', s.num \in acked' \ lost'
        PROVE  Covers(saved', stored', s)
    <3>1. ~(dm = "write" \/ unsaved) /\ s.num \in acked \ lost /\ s \in stored
      BY <2>1, <2>3
    <3>2. Intact
      BY <1>d, <3>1 DEF Intact, DataTypeOK
    <3>3. Covers(saved, stored, s)
      BY <3>1, <3>2 DEF SavedInv
    <3> QED
      BY <2>1, <3>3 DEF Covers
  <2> QED
    BY <2>1, <2>2, <2>3 DEF SavedInv
<1>3. CASE Written \/ Aside
  <2>1. UNCHANGED <<table, saved, dm, unsaved, stored, acked, lost>>
    <3>1. CASE Written
      BY <3>1 DEF Written, Upload, WriteFile, WriteFileFails, dataVars
    <3> QED
      BY <1>3, <3>1, AsideKeeps
  <2> QED
    BY <2>1 DEF SavedInv, SavedIsTable, Covers, Intact, Range
<1>4. CASE RecordInfo
  <2> DEFINE i == NewStorageInfo(req.path)
             v == [num |-> uploads, size |-> req.size, info |-> i]
  <2>1. /\ pc = "record" /\ dm = "ready" /\ dm' = "open"
        /\ table' = [n \in DOMAIN table \cup {i.name} |-> IF n = i.name THEN i ELSE table[n]]
        /\ stored' = stored \cup {v}
        /\ UNCHANGED <<saved, unsaved, acked, lost, uploads>>
    BY <1>4 DEF RecordInfo, Insert
  <2> HIDE DEF i
  <2>2. v.num = uploads /\ v.info = i
    OBVIOUS
  <2> HIDE DEF v
  <2>3. uploads \notin acked /\ \A s \in stored : s.num <= uploads
    BY <1>u, <2>1 DEF StoredInv
  <2>4. ASSUME NEW s \in stored', s.num \in acked' \ lost'
        PROVE  s \in stored /\ s.num \in acked \ lost
    BY <2>1, <2>2, <2>3, <2>4
  <2>5. ASSUME NEW s \in stored', s.num \in acked' \ lost'
        PROVE  Covers(Range(table'), stored', s)
    <3>1. s \in stored /\ Covers(Range(table), stored, s)
      BY <2>1, <2>4, <2>5 DEF SavedInv
    <3>2. PICK e \in Range(table), t \in stored :
            e.name = s.info.name /\ t.num >= s.num /\ t.info = e
      BY <3>1 DEF Covers
    <3>3. e.name \in DOMAIN table /\ e = table[e.name]
      BY <1>d, EntryRange
    <3>4. CASE e.name = i.name
      <4>1. i \in Range(table')
        BY <2>1 DEF Range
      <4>2. v \in stored' /\ v.num >= s.num
        BY <1>u, <2>1, <2>2, <2>3, <3>1
      <4> QED
        BY <2>2, <3>2, <3>4, <4>1, <4>2 DEF Covers
    <3>5. CASE e.name # i.name
      <4>1. e \in Range(table')
        BY <2>1, <3>3, <3>5 DEF Range
      <4> QED
        BY <2>1, <3>2, <4>1 DEF Covers
    <3> QED
      BY <3>4, <3>5
  <2>6. ASSUME NEW s \in stored', s.num \in acked' \ lost', Intact'
        PROVE  Covers(saved', stored', s)
    <3>1. Intact
      BY <2>1, <2>6 DEF Intact
    <3>2. Covers(saved, stored, s)
      BY <2>4, <2>6, <3>1 DEF SavedInv
    <3> QED
      BY <2>1, <3>2 DEF Covers
  <2>7. SavedIsTable'
    BY <2>1 DEF SavedIsTable
  <2>8. Range(table)' = Range(table')
    BY DEF Range
  <2> QED
    BY <2>1, <2>5, <2>6, <2>7, <2>8 DEF SavedInv
<1>5. CASE Persist \/ PersistFails
  <2>1. UNCHANGED <<table, stored, acked, lost>> /\ dm # "off" /\ dm' # "off"
    BY <1>5 DEF Persist, PersistFails, Storage, StorageFails, OpenSaved, WriteSaved,
                OpenSavedFails, WriteSavedFails, storageVars
  <2>2. \/ ~Intact' /\ ~(dm' = "ready" /\ ~unsaved') /\ saved' \subseteq Range(table) \cup saved
             /\ (saved' \subseteq Range(table) \/ saved' = saved)
        \/ saved' = Range(table)
    BY <1>5 DEF Persist, PersistFails, Storage, StorageFails, OpenSaved, WriteSaved, Intact,
                OpenSavedFails, WriteSavedFails, storageVars, UnSerialized, GetAll
  <2>3. \A e, f \in saved' : e.name = f.name => e = f
    BY <1>d, <2>2, EntryRange DEF SavedInv
  <2>4. Range(table)' = Range(table)
    BY <2>1 DEF Range
  <2>5. SavedIsTable'
    BY <2>2, <2>4 DEF SavedIsTable
  <2>6. \A s \in stored : s.num \in acked \ lost => Covers(Range(table), stored, s)
    BY <2>1 DEF SavedInv
  <2>7. \A s \in stored : s.num \in acked \ lost => Covers(Range(table), stored', s)
    BY <2>1, <2>4, <2>6 DEF Covers
  <2> QED
    BY <2>1, <2>2, <2>3, <2>4, <2>5, <2>7 DEF SavedInv
<1>6. CASE UploadReplies
  <2>1. /\ pc = "persist" /\ dm = "ready" /\ acked' = acked \cup {uploads}
        /\ UNCHANGED <<table, saved, dm, unsaved, stored, lost>>
    BY <1>6 DEF UploadReplies, dataVars
  <2>2. PICK v \in stored : /\ v.num = uploads /\ req.path[2] \in DOMAIN table
                            /\ v.info = table[req.path[2]]
    BY <2>1 DEF StoredInv
  <2>3. Covers(Range(table), stored, v)
    <3>1. v.info \in Range(table)
      BY <1>d, <2>2, EntryRange
    <3> QED
      BY <1>u, <2>2, <3>1 DEF Covers
  <2>4. \A s \in stored : s.num \in acked' \ lost => Covers(Range(table), stored, s)
    BY <2>1, <2>2, <2>3 DEF StoredInv, SavedInv
  <2>5. \A s \in stored : s.num \in acked' \ lost => Covers(Range(table), stored', s)
    BY <2>1, <2>4 DEF Covers, Range
  <2>6. Intact' => saved' = Range(table')
    BY <2>1 DEF Intact, SavedInv, SavedIsTable
  <2>7. SavedIsTable' /\ \A e, f \in saved' : e.name = f.name => e = f
    BY <2>1 DEF SavedInv, SavedIsTable, Range
  <2>8. Range(table') = Range(table)
    BY <2>1
  <2> QED
    BY <2>1, <2>5, <2>6, <2>7, <2>8 DEF SavedInv, Covers, Range
<1> QED
  BY <1>1, <1>2, <1>3, <1>4, <1>5, <1>6, StepCases

-----------------------------------------------------------------------------
(* The file of an entry                                                     *)

LEMMA BackedKept ==
  ASSUME NEW i, NEW fs, NEW versions, Backed(i, fs, versions),
         NEW gs, NEW more, versions \subseteq more,
         PathOf(i) \in DOMAIN fs => PathOf(i) \in DOMAIN gs /\ gs[PathOf(i)] = fs[PathOf(i)]
  PROVE  Backed(i, gs, more)
BY DEF Backed

(* Downloads write and remove only files that no entry names.               *)
LEMMA AsideFiles ==
  ASSUME TypeInv, SavedInv, Aside
  PROVE  \/ UNCHANGED files
         \/ /\ pc \in {"uncompress", "serve"} /\ pc' \in {"serve", "idle"} /\ dm = "ready"
            /\ \A n \in DOMAIN table :
                 LET q == PathOf(table[n])
                 IN  q \in DOMAIN files => q \in DOMAIN files' /\ files'[q] = files[q]
<1>1. CASE Quiet \/ Handled \/ ClientStep
  BY <1>1 DEF Quiet, Handled, ClientStep, Download, Resume, ReceiveByte, Disconnect,
              Sending, storageVars, vars
<1>2. ASSUME pc \in {"uncompress", "serve"}, GetOneByURL(req.name),
             table[req.name].dir # "low"
      PROVE  \A n \in DOMAIN table : PathOf(table[n]) # LowPath(req.name)
  <2>1. \A n \in DOMAIN table : table[n].name = n
    BY DEF TypeInv, DataTypeOK
  <2> QED
    BY <1>2, <2>1 DEF PathOf, LowPath
<1>3. CASE UnCompress \/ UnCompressFails
  <2>1. /\ pc = "uncompress" /\ pc' = "serve" /\ dm = "ready"
        /\ GetOneByURL(req.name) /\ table[req.name].dir # "low"
    BY <1>3 DEF UnCompress, UnCompressFails, TypeInv, RequestInv
  <2>2. \/ UNCHANGED files
        \/ \E x : SetContent(LowPath(req.name), x)
    BY <1>3 DEF UnCompress, UnCompressFails
  <2>3. \A q \in DOMAIN files :
          q # LowPath(req.name) => q \in DOMAIN files' /\ files'[q] = files[q]
    BY <2>2 DEF SetContent
  <2> QED
    BY <1>2, <2>1, <2>3
<1>4. CASE Served
  <2>1. pc = "serve" /\ pc' = "idle" /\ dm = "ready" /\ req \in DownloadRequest
    BY <1>4, ServeEffect DEF Served, TypeInv, RequestInv
  <2>2. CASE \E status \in {200, 404, 416, 500} : Answer(status)
    BY <2>2 DEF Answer
  <2>3. ASSUME NEW status \in BodyStatus, NEW from \in Nat, NEW last \in Int,
               NEW total \in Nat, Sent(status, from, last, total)
        PROVE  UNCHANGED files \/ \A n \in DOMAIN table :
                 LET q == PathOf(table[n])
                 IN  q \in DOMAIN files => q \in DOMAIN files' /\ files'[q] = files[q]
    <3>1. CASE table[req.name].dir = "low"
      BY <2>3, <3>1 DEF Sent, SendFile, IsTemporary
    <3>2. CASE table[req.name].dir # "low"
      <4>f. Found /\ Delivered(status, from, last, total)
        BY <2>3 DEF Sent
      <4>1. /\ \A q \in DOMAIN files' : files'[q] = files[q]
            /\ \A q \in DOMAIN files : q \in DOMAIN files' \/ q = LowPath(req.name)
        BY <4>f DEF Delivered
      <4>2. \A n \in DOMAIN table : PathOf(table[n]) # LowPath(req.name)
        BY <1>2, <2>1, <3>2, <4>f DEF Found
      <4> QED
        BY <4>1, <4>2
    <3> QED
      BY <3>1, <3>2
  <2>4. CASE SomethingSent
    <3>1. PICK status \in BodyStatus, from \in Nat, last \in Int, total \in Nat :
            Sent(status, from, last, total)
      BY <2>4, Zenon DEF SomethingSent
    <3>2. UNCHANGED files \/ \A n \in DOMAIN table :
                 LET q == PathOf(table[n])
                 IN  q \in DOMAIN files => q \in DOMAIN files' /\ files'[q] = files[q]
      BY <2>3, <3>1, Zenon
    <3> QED
      BY <2>1, <3>2
  <2>5. (\E status \in {200, 404, 416, 500} : Answer(status)) \/ SomethingSent
    BY <1>4, ServeEffect DEF Served
  <2> QED
    BY <2>2, <2>4, <2>5
<1> QED
  BY <1>1, <1>3, <1>4 DEF Aside

LEMMA BackedAside ==
  ASSUME TypeInv, SavedInv, BackedInv, Aside
  PROVE  BackedInv'
<1>1. /\ UNCHANGED <<table, saved, dm, unsaved, stored, uploads, suspect>>
      /\ pc' \notin {"store", "record", "persist"} \/ UNCHANGED <<pc, req>>
  BY AsideKeeps
<1>2. pc \in {"store", "record", "persist"} => pc' = pc
  BY AsidePhase
<1>3. dm = "open" => pc = "persist"
  BY DEF TypeInv, RequestInv
<1>4. CASE UNCHANGED files
  BY <1>1, <1>2, <1>3, <1>4 DEF BackedInv, Intact
<1>5. CASE /\ pc \in {"uncompress", "serve"} /\ pc' \in {"serve", "idle"} /\ dm = "ready"
           /\ \A n \in DOMAIN table :
                LET q == PathOf(table[n])
                IN  q \in DOMAIN files => q \in DOMAIN files' /\ files'[q] = files[q]
  <2>1. \A n \in DOMAIN table :
          PathOf(table[n]) \in suspect \/ Backed(table[n], files', stored)
    <3>1. ASSUME NEW n \in DOMAIN table, PathOf(table[n]) \notin suspect
          PROVE  Backed(table[n], files', stored)
      <4>1. Backed(table[n], files, stored)
        BY <1>5, <3>1 DEF BackedInv
      <4> QED
        BY <1>5, <4>1, BackedKept
    <3> QED
      BY <3>1
  <2>2. Intact => \A i \in saved : PathOf(i) \in suspect \/ Backed(i, files', stored)
    <3>1. Intact => saved = Range(table)
      BY <1>5 DEF Intact, SavedInv, SavedIsTable
    <3> QED
      BY <2>1, <3>1 DEF Range
  <2> QED
    BY <1>1, <1>5, <2>1, <2>2 DEF BackedInv, Intact
<1> QED
  BY <1>4, <1>5, AsideFiles

LEMMA BackedWritten ==
  ASSUME TypeInv, SavedInv, BackedInv, Written
  PROVE  BackedInv'
<1>1. UNCHANGED <<table, saved, dm, unsaved, stored>> /\ dm = "ready"
  BY DEF Written, Upload, WriteFile, WriteFileFails, dataVars, TypeInv, RequestInv
<1>2. ASSUME NEW p, NEW x, SetContent(p, x), p \in suspect' \/ (pc' = "record" /\ p = req'.path),
             suspect \subseteq suspect' \cup {p},
             pc = "idle" \/ pc = "store",
             pc' = "store" => req'.path \in suspect',
             pc' = "record" /\ req'.path \notin suspect' =>
               files'[req'.path] = [num |-> uploads', size |-> req'.size]
      PROVE  BackedInv'
  <2>1. ASSUME NEW i, PathOf(i) \in suspect \/ Backed(i, files, stored)
        PROVE  \/ PathOf(i) \in suspect'
               \/ pc' = "record" /\ PathOf(i) = req'.path
               \/ Backed(i, files', stored)
    <3>1. CASE PathOf(i) = p \/ PathOf(i) \in suspect
      BY <1>2, <3>1
    <3>2. CASE PathOf(i) # p /\ Backed(i, files, stored)
      <4>1. PathOf(i) \in DOMAIN files =>
              PathOf(i) \in DOMAIN files' /\ files'[PathOf(i)] = files[PathOf(i)]
        BY <1>2, <3>2 DEF SetContent
      <4> QED
        BY <3>2, <4>1, BackedKept
    <3> QED
      BY <2>1, <3>1, <3>2
  <2>2. \A n \in DOMAIN table : \/ PathOf(table[n]) \in suspect'
                                \/ pc' = "record" /\ PathOf(table[n]) = req'.path
                                \/ Backed(table[n], files', stored)
    BY <1>2, <2>1 DEF BackedInv
  <2>3. Intact => \A i \in saved : \/ PathOf(i) \in suspect'
                                   \/ pc' = "record" /\ PathOf(i) = req'.path
                                   \/ Backed(i, files', stored)
    <3>1. Intact => \A i \in saved : PathOf(i) \in suspect \/ Backed(i, files, stored)
      BY <1>1, <1>2 DEF BackedInv
    <3> QED
      BY <2>1, <3>1
  <2> QED
    BY <1>1, <1>2, <2>2, <2>3 DEF BackedInv, Intact
<1>3. ASSUME NEW n \in Names, NEW d \in Dirs, NEW s \in Sizes, Upload(n, d, s)
      PROVE  BackedInv'
  <2>1. /\ SetContent(<<d, n>>, Truncated) /\ suspect' = suspect \cup {<<d, n>>}
        /\ pc = "idle" /\ pc' = "store" /\ req'.path = <<d, n>>
    BY <1>3 DEF Upload
  <2> QED
    BY <1>2, <2>1
<1>4. CASE WriteFile
  <2> DEFINE x == [num |-> uploads, size |-> req.size]
  <2>1. /\ SetContent(req.path, x) /\ suspect' = suspect \ {req.path}
        /\ pc = "store" /\ pc' = "record" /\ UNCHANGED <<req, uploads>>
    BY <1>4 DEF WriteFile
  <2>2. files'[req'.path] = [num |-> uploads', size |-> req'.size]
    BY <2>1 DEF SetContent
  <2> QED
    BY <1>2, <2>1, <2>2
<1>5. CASE WriteFileFails
  <2>1. /\ SetContent(req.path, Truncated) /\ UNCHANGED <<req, suspect>>
        /\ pc = "store" /\ pc' = "record"
    BY <1>5 DEF WriteFileFails
  <2>2. req'.path \in suspect'
    BY <2>1 DEF BackedInv
  <2> QED
    BY <1>2, <2>1, <2>2
<1> QED
  BY <1>3, <1>4, <1>5 DEF Written

LEMMA BackedRecord ==
  ASSUME TypeInv, SavedInv, BackedInv, RecordInfo
  PROVE  BackedInv'
<1> DEFINE i == NewStorageInfo(req.path)
           v == [num |-> uploads, size |-> req.size, info |-> i]
<1>1. /\ pc = "record" /\ pc' = "persist" /\ dm = "ready" /\ dm' = "open"
      /\ table' = [n \in DOMAIN table \cup {i.name} |-> IF n = i.name THEN i ELSE table[n]]
      /\ stored' = stored \cup {v}
      /\ UNCHANGED <<saved, unsaved, req, files, suspect>>
  BY DEF RecordInfo, Insert
<1>2. /\ i.name = req.path[2] /\ i.dir = req.path[1] /\ PathOf(i) = req.path
      /\ i.fsize = FileSize(req.path)
  BY <1>1, NewInfo DEF TypeInv
<1>3. req.path \in DOMAIN files /\ req.path = <<req.path[1], req.path[2]>>
  BY <1>1, UploadPath DEF TypeInv
<1> HIDE DEF i
<1>4. v.num = uploads /\ v.size = req.size /\ v.info = i
  OBVIOUS
<1> HIDE DEF v
<1>5. req.path \in suspect \/ Backed(i, files, stored')
  <2>1. ASSUME req.path \notin suspect PROVE Backed(i, files, stored')
    <3>1. files[req.path] = [num |-> v.num, size |-> v.size]
      BY <1>1, <1>4, <2>1 DEF BackedInv
    <3>2. i.fsize = IF i.dir = "deep" THEN Compress(v.size) ELSE v.size
      BY <1>2, <3>1 DEF FileSize
    <3> QED
      BY <1>1, <1>2, <1>3, <1>4, <3>1, <3>2 DEF Backed
  <2> QED
    BY <2>1
<1>6. ASSUME NEW n \in DOMAIN table'
      PROVE  PathOf(table'[n]) \in suspect' \/ Backed(table'[n], files', stored')
  <2>1. CASE n = i.name
    BY <1>1, <1>2, <1>5, <2>1
  <2>2. CASE n # i.name
    <3>1. n \in DOMAIN table /\ table'[n] = table[n] /\ table[n].name = n
      BY <1>1, <2>2 DEF TypeInv, DataTypeOK
    <3>2. PathOf(table[n]) # req.path
      BY <1>2, <1>3, <2>2, <3>1 DEF PathOf
    <3>3. PathOf(table[n]) \in suspect \/ Backed(table[n], files, stored)
      BY <3>1, <3>2 DEF BackedInv
    <3> QED
      BY <1>1, <3>1, <3>3, BackedKept
  <2> QED
    BY <2>1, <2>2
<1>7. ASSUME Intact', NEW j \in saved'
      PROVE  \/ PathOf(j) \in suspect'
             \/ dm' = "open" /\ PathOf(j) = req'.path
             \/ Backed(j, files', stored')
  <2>1. Intact /\ j \in saved
    BY <1>1, <1>7 DEF Intact
  <2>2. PathOf(j) \in suspect \/ PathOf(j) = req.path \/ Backed(j, files, stored)
    BY <1>1, <2>1 DEF BackedInv
  <2>3. Backed(j, files, stored) => Backed(j, files', stored')
    BY <1>1, BackedKept
  <2> QED
    BY <1>1, <2>2, <2>3
<1> QED
  BY <1>1, <1>6, <1>7 DEF BackedInv

LEMMA BackedStep ==
  ASSUME TypeInv, SavedInv, BackedInv, [Next]_vars
  PROVE  BackedInv'
<1>1. CASE Start
  <2>1. /\ dm = "off" /\ pc = "down" /\ pc' = "idle" /\ InitLoad
        /\ UNCHANGED <<saved, files, stored, suspect>>
    BY <1>1 DEF Start, Run, InitLoad, storageVars
  <2>2. \A i \in saved : PathOf(i) \in suspect \/ Backed(i, files, stored)
    BY <2>1 DEF BackedInv, Intact
  <2>3. \A n \in DOMAIN table' : table'[n] \in saved
    BY <2>1, LoadRange DEF SavedInv
  <2> QED
    BY <2>1, <2>2, <2>3 DEF BackedInv
<1>2. CASE Die
  <2>1. /\ table' = EmptyTable /\ dm' = "off" /\ pc' = "down" /\ UNCHANGED <<saved, files, stored>>
        /\ suspect' = IF dm = "write" \/ unsaved THEN Paths
                      ELSE IF pc = "record" \/ dm = "open" THEN suspect \cup {req.path}
                      ELSE suspect
    BY <1>2 DEF Die, ForgetTable
  <2>2. CASE dm = "write" \/ unsaved
    <3>1. \A i \in saved : PathOf(i) \in Paths
      BY PathParts DEF TypeInv, DataTypeOK, StorageInfo, PathOf
    <3> QED
      BY <2>1, <2>2, <3>1 DEF BackedInv, EmptyTable
  <2>3. CASE ~(dm = "write" \/ unsaved)
    <3>1. Intact
      BY <2>3 DEF Intact, TypeInv, DataTypeOK
    <3> QED
      BY <2>1, <2>3, <3>1 DEF BackedInv, EmptyTable
  <2> QED
    BY <2>2, <2>3
<1>3. CASE Persist \/ PersistFails
  <2>1. /\ pc = "persist" /\ pc' = pc /\ UNCHANGED <<table, files, stored, suspect, req>>
    BY <1>3 DEF Persist, PersistFails, Storage, StorageFails, OpenSaved, WriteSaved,
                OpenSavedFails, WriteSavedFails, storageVars
  <2>2. ~Intact' \/ saved' = Range(table)
    BY <1>3 DEF Persist, PersistFails, Storage, StorageFails, OpenSaved, WriteSaved, Intact,
                OpenSavedFails, WriteSavedFails, GetAll
  <2>3. \A n \in DOMAIN table : PathOf(table[n]) \in suspect \/ Backed(table[n], files, stored)
    BY <2>1 DEF BackedInv
  <2>4. \A i \in Range(table) : PathOf(i) \in suspect \/ Backed(i, files, stored)
    BY <2>3 DEF Range
  <2> QED
    BY <2>1, <2>2, <2>3, <2>4 DEF BackedInv
<1>4. CASE UploadReplies
  <2>1. /\ pc = "persist" /\ pc' = "idle" /\ dm = "ready"
        /\ UNCHANGED <<table, saved, dm, unsaved, files, stored, suspect>>
    BY <1>4 DEF UploadReplies, dataVars
  <2> QED
    BY <2>1 DEF BackedInv, Intact
<1> QED
  BY <1>1, <1>2, <1>3, <1>4, StepCases, BackedWritten, BackedRecord, BackedAside

-----------------------------------------------------------------------------
(* The copy that a deep file is served from                                 *)

LEMMA CopyStep ==
  ASSUME TypeInv, CopyInv, [Next]_vars
  PROVE  CopyInv'
<1>1. CASE Start \/ Die \/ Written \/ RecordInfo \/ Persist \/ PersistFails \/ UploadReplies
           \/ Served \/ ClientStep
  <2>1. pc' # "serve"
    BY <1>1, ServeEffect
       DEF Start, Run, Die, Written, Upload, WriteFile, WriteFileFails, RecordInfo, Persist,
           PersistFails, UploadReplies, Served, ClientStep, ReceiveByte, Disconnect, Sending,
           storageVars
  <2> QED
    BY <2>1 DEF CopyInv
<1>2. CASE Quiet
  BY <1>2 DEF Quiet, CopyInv, vars, dataVars, storageVars, GetOneByURL, LowPath
<1>3. CASE Handled
  <2>1. pc' = "serve" /\ GetOneByURL(req'.name) => table[req'.name].dir # "deep"
    BY <1>3 DEF Handled, Download, Resume, Handle
  <2>2. table' = table
    BY <1>3, AsideKeeps DEF Aside
  <2> QED
    BY <2>1, <2>2 DEF CopyInv, GetOneByURL
<1>4. CASE UnCompress
  <2>1. /\ <<"deep", req.name>> \in DOMAIN files /\ req' = req
        /\ SetContent(LowPath(req.name), files[<<"deep", req.name>>])
    BY <1>4 DEF UnCompress
  <2>2. <<"deep", req.name>> # LowPath(req.name)
    BY DEF LowPath
  <2>3. /\ <<"deep", req.name>> \in DOMAIN files' /\ LowPath(req.name) \in DOMAIN files'
        /\ files'[LowPath(req.name)] = files'[<<"deep", req.name>>]
    BY <2>1, <2>2 DEF SetContent
  <2> QED
    BY <2>1, <2>3 DEF CopyInv, LowPath
<1>5. CASE UnCompressFails
  <2>1. req \in DownloadRequest /\ req' = Excused(req)
    BY <1>5 DEF UnCompressFails, Excused, TypeInv, RequestInv
  <2>2. req'.excused
    BY <2>1, ExcusedShape
  <2> QED
    BY <2>2 DEF CopyInv
<1> QED
  BY <1>1, <1>2, <1>3, <1>4, <1>5, StepCases DEF Aside

-----------------------------------------------------------------------------
(* Replies                                                                  *)

(* What a request is served with, unless it is excused, is the upload that  *)
(* the table has.                                                           *)
LEMMA ServedVersion ==
  ASSUME TypeInv, BackedInv, CopyInv, pc = "serve", Found,
         ~(req.excused \/ <<table[req.name].dir, req.name>> \in suspect)
  PROVE  LET p == LowPath(req.name)
         IN  \E s \in stored :
               /\ files[p].num = s.num /\ files[p].size = s.size
               /\ FileSize(p) = s.size
               /\ GetETag(table[req.name]) = GetETag(s.info)
<1> DEFINE n == req.name
           p == LowPath(n)
<1>1. n \in DOMAIN table /\ table[n].name = n /\ table[n].dir \in {"low", "deep"}
  BY ServiceConfig DEF Found, GetOneByURL, TypeInv, DataTypeOK, StorageInfo
<1>2. PathOf(table[n]) = <<table[n].dir, n>>
  BY <1>1 DEF PathOf
<1>3. Backed(table[n], files, stored)
  BY <1>1, <1>2 DEF BackedInv
<1>4. PICK s \in stored : /\ s.info = table[n]
                          /\ files[PathOf(table[n])] = [num |-> s.num, size |-> s.size]
  BY <1>3 DEF Backed
<1>5. files[p] = [num |-> s.num, size |-> s.size]
  <2>1. CASE table[n].dir = "low"
    BY <1>2, <1>4, <2>1 DEF LowPath
  <2>2. CASE table[n].dir = "deep"
    <3>1. files[p] = files[<<"deep", n>>]
      BY <1>1, <2>2 DEF CopyInv, Found
    <3> QED
      BY <1>2, <1>4, <2>2, <3>1
  <2> QED
    BY <1>1, <2>1, <2>2
<1>6. FileSize(p) = s.size
  BY <1>5 DEF FileSize, LowPath
<1> QED
  BY <1>4, <1>5, <1>6

(* A rewritten file excuses the replies that are sent from it.              *)
LEMMA ReplyRewritten ==
  ASSUME TypeInv, ReplyInv, stored \subseteq stored',
         NEW p, NEW x \in [num : Nat, size : Sizes \cup {0}], SetContent(p, x)
  PROVE  ReplyInv'
<1>1. \A c \in Clients : reply'[c] = reply[c] \/ reply'[c].excused = TRUE
  BY SetContentEffect DEF TypeInv, ClientsInv
<1> QED
  BY <1>1 DEF ReplyInv, HasBody

LEMMA ReplyKept ==
  ASSUME ReplyInv, stored \subseteq stored', UNCHANGED reply
  PROVE  ReplyInv'
BY DEF ReplyInv, HasBody

(* What Written and UnCompress do to files and replies.                     *)
LEMMA Rewrites ==
  ASSUME TypeInv, Written \/ UnCompress \/ UnCompressFails
  PROVE  \/ UNCHANGED <<files, reply>>
         \/ \E p \in Paths : \E x \in [num : Nat, size : Sizes \cup {0}] : SetContent(p, x)
<1>1. ASSUME NEW p \in Paths, SetContent(p, Truncated)
      PROVE  \E q \in Paths : \E x \in [num : Nat, size : Sizes \cup {0}] : SetContent(q, x)
  <2>1. Truncated \in [num : Nat, size : Sizes \cup {0}]
    BY DEF Truncated
  <2> QED
    BY <1>1, <2>1
<1>2. CASE \E n \in Names, d \in Dirs, s \in Sizes : Upload(n, d, s)
  BY <1>1, <1>2, PathParts DEF Upload
<1>3. CASE WriteFile \/ WriteFileFails
  <2>1. pc = "store" /\ (\/ SetContent(req.path, Truncated)
                         \/ SetContent(req.path, [num |-> uploads, size |-> req.size]))
    BY <1>3 DEF WriteFile, WriteFileFails
  <2>2. req.path \in Paths /\ [num |-> uploads, size |-> req.size] \in [num : Nat, size : Sizes \cup {0}]
    BY <2>1, UploadPath DEF TypeInv, FilesInv
  <2> QED
    BY <1>1, <2>1, <2>2
<1>4. CASE UnCompress \/ UnCompressFails
  <2>1. pc = "uncompress" /\ (\/ UNCHANGED <<files, reply>>
                              \/ SetContent(LowPath(req.name), Truncated)
                              \/ /\ <<"deep", req.name>> \in DOMAIN files
                                 /\ SetContent(LowPath(req.name), files[<<"deep", req.name>>]))
    BY <1>4 DEF UnCompress, UnCompressFails
  <2>2. LowPath(req.name) \in Paths
    BY <2>1, PathParts, ServiceConfig DEF TypeInv, RequestInv, DownloadRequest
  <2>3. \A q \in DOMAIN files : files[q] \in [num : Nat, size : Sizes \cup {0}]
    BY FileSizeNat DEF TypeInv
  <2> QED
    BY <1>1, <2>1, <2>2, <2>3
<1> QED
  BY <1>2, <1>3, <1>4 DEF Written

LEMMA ReplyStep ==
  ASSUME TypeInv, BackedInv, CopyInv, ReplyInv, [Next]_vars
  PROVE  ReplyInv'
<1>0. stored \subseteq stored'
  <2>1. CASE Start \/ Die \/ Written \/ RecordInfo \/ Persist \/ PersistFails \/ UploadReplies
    BY <2>1 DEF Start, Die, Written, Upload, WriteFile, WriteFileFails, RecordInfo, Persist,
                PersistFails, UploadReplies, storageVars
  <2> QED
    BY <2>1, AsideKeeps, StepCases
<1>1. CASE Start \/ RecordInfo \/ Persist \/ PersistFails \/ UploadReplies \/ Handled \/ Quiet
  <2>1. UNCHANGED reply
    BY <1>1 DEF Start, RecordInfo, Persist, PersistFails, UploadReplies, Handled, Download,
                Resume, Quiet, vars
  <2> QED
    BY <1>0, <2>1, ReplyKept
<1>2. CASE Die
  BY <1>2 DEF Die, ReplyInv
<1>3. CASE Written \/ UnCompress \/ UnCompressFails
  BY <1>0, <1>3, Rewrites, ReplyRewritten, ReplyKept
<1>4. CASE Served
  <2>1. pc = "serve" /\ req \in DownloadRequest
    BY <1>4 DEF Served, TypeInv, RequestInv
  <2>2. ASSUME NEW status \in {200, 404, 416, 500}, Answer(status) PROVE ReplyInv'
    <3>1. /\ reply'[req.client].excused
          /\ \A d \in Clients : d # req.client => reply'[d] = reply[d]
      BY <2>1, <2>2, AnswerEffect
    <3> QED
      BY <1>0, <3>1 DEF ReplyInv, HasBody
  <2>3. ASSUME NEW status \in BodyStatus, NEW from \in Nat, NEW last \in Int,
               NEW total \in Nat, Sent(status, from, last, total)
        PROVE  ReplyInv'
    <3> DEFINE c == req.client
               p == LowPath(req.name)
               e == Doubted(total)
    <3>f. Found /\ Delivered(status, from, last, total)
      BY <2>3 DEF Sent
    <3>1. /\ reply'[c] # NoReply /\ reply'[c].status = status
          /\ reply'[c].num = files[p].num /\ reply'[c].size = files[p].size
          /\ reply'[c].tag = GetETag(table[req.name])
          /\ reply'[c].excused = e
          /\ \A d \in Clients : d # c =>
               \/ reply'[d] = reply[d]
               \/ /\ HasBody(d) /\ reply'[d] # NoReply
                  /\ reply'[d].status = reply[d].status
                  /\ reply'[d].num = reply[d].num /\ reply'[d].size = reply[d].size
                  /\ reply'[d].tag = reply[d].tag
                  /\ reply'[d].excused = reply[d].excused
      BY <3>f DEF Delivered
    <3>2. ~e => \E s \in stored :
               /\ files[p].num = s.num /\ files[p].size = s.size
               /\ GetETag(table[req.name]) = GetETag(s.info)
      BY <2>1, <3>f, ServedVersion DEF Doubted
    <3> HIDE DEF e, p
    <3>3. reply'[c].excused \/ (reply'[c].status \in {200, 206} /\ \E s \in stored' : IsBodyOf(reply'[c], s))
      BY <1>0, <3>1, <3>2 DEF HasBody, IsBodyOf, BodyStatus
    <3>4. \A d \in Clients : d # c /\ reply'[d] # NoReply =>
             reply'[d].excused \/ (HasBody(d)' /\ \E s \in stored' : IsBodyOf(reply'[d], s))
      <4>1. ASSUME NEW d \in Clients, d # c, reply'[d] # NoReply, ~reply'[d].excused
            PROVE  HasBody(d)' /\ \E s \in stored' : IsBodyOf(reply'[d], s)
        <5>1. reply[d] # NoReply /\ ~reply[d].excused
          BY <3>1, <4>1 DEF HasBody, NoReply
        <5>2. HasBody(d) /\ \E s \in stored : IsBodyOf(reply[d], s)
          BY <5>1 DEF ReplyInv
        <5> QED
          BY <1>0, <3>1, <4>1, <5>2 DEF HasBody, IsBodyOf
      <4> QED
        BY <4>1
    <3> QED
      BY <3>3, <3>4 DEF ReplyInv, HasBody
  <2>4. CASE SomethingSent
    <3>1. PICK status \in BodyStatus, from \in Nat, last \in Int, total \in Nat :
            Sent(status, from, last, total)
      BY <2>4, Zenon DEF SomethingSent
    <3> QED
      BY <2>3, <3>1, Zenon
  <2> QED
    BY <1>4, <2>2, <2>4, ServeEffect DEF Served
<1>5. CASE ClientStep
  <2>1. PICK c \in Clients : ReceiveByte(c) \/ Disconnect(c)
    BY <1>5 DEF ClientStep
  <2>2. CASE ReceiveByte(c)
    <3>1. /\ reply[c] \in Reply
          /\ \A d \in Clients : d # c => reply'[d] = reply[d]
          /\ \/ reply'[c] = NoReply
             \/ /\ reply'[c].status = reply[c].status
                /\ reply'[c].num = reply[c].num /\ reply'[c].size = reply[c].size
                /\ reply'[c].tag = reply[c].tag
                /\ reply'[c].excused = reply[c].excused
      BY <2>2, ReceiveEffect
    <3> QED
      BY <1>0, <3>1, NotNoReply DEF ReplyInv, HasBody, IsBodyOf
  <2>3. CASE Disconnect(c)
    <3>1. reply' = [reply EXCEPT ![c] = NoReply] /\ reply \in [Clients -> Reply \cup {NoReply}]
      BY <2>3 DEF Disconnect, TypeInv, ClientsInv
    <3> QED
      BY <1>0, <3>1 DEF ReplyInv, HasBody
  <2> QED
    BY <2>1, <2>2, <2>3
<1> QED
  BY <1>1, <1>2, <1>3, <1>4, <1>5, StepCases DEF Aside

-----------------------------------------------------------------------------
(* What a client has                                                        *)

LEMMA StoredGrows ==
  ASSUME TypeInv, [Next]_vars
  PROVE  stored \subseteq stored'
<1>1. CASE Start \/ Die \/ Written \/ RecordInfo \/ Persist \/ PersistFails \/ UploadReplies
  BY <1>1 DEF Start, Die, Written, Upload, WriteFile, WriteFileFails, RecordInfo, Persist,
              PersistFails, UploadReplies, storageVars
<1> QED
  BY <1>1, AsideKeeps, StepCases

LEMMA ResumeStep ==
  ASSUME TypeInv, ResumeInv, [Next]_vars
  PROVE  ResumeInv'
<1>t. client \in [Clients -> Copy] /\ reply \in [Clients -> Reply \cup {NoReply}]
  BY DEF TypeInv, ClientsInv
<1>1. CASE Start \/ Die \/ Written \/ RecordInfo \/ Persist \/ PersistFails \/ UploadReplies
           \/ Served \/ ClientStep
  <2>1. pc' \notin {"uncompress", "serve"}
    BY <1>1, ServeEffect
       DEF Start, Run, Die, Written, Upload, WriteFile, WriteFileFails, RecordInfo, Persist,
           PersistFails, UploadReplies, Served, ClientStep, ReceiveByte, Disconnect, Sending,
           storageVars
  <2> QED
    BY <2>1 DEF ResumeInv
<1>2. CASE Quiet
  BY <1>2 DEF Quiet, ResumeInv, vars
<1>3. ASSUME NEW c \in Clients, NEW n \in Names, Download(c, n) PROVE ResumeInv'
  <2>1. /\ Handle(Wanted(c, n, NoTag, 0, ToEnd)) /\ UNCHANGED <<dataVars, reply>>
        /\ client' = [client EXCEPT ![c] = Nothing]
    BY <1>3 DEF Download, Wanted
  <2>2. NoTag \in Tag \cup {NoTag} /\ 0 \in Nat /\ ToEnd \in Int
    BY DEF ToEnd
  <2>3. /\ reply[c] = NoReply /\ req'.client = c /\ req'.ifRange = NoTag
        /\ req'.from = 0 /\ req'.last = ToEnd
    BY <2>1, <2>2, HandleEffect
  <2>4. client'[c] = Nothing
    BY <1>t, <2>1
  <2> QED
    BY <2>1, <2>3, <2>4, NothingShape DEF ResumeInv, ToEnd
<1>4. ASSUME NEW c \in Clients, NEW last \in {ToEnd} \cup 0 .. client[c].total - 1,
             Resume(c, last)
      PROVE  ResumeInv'
  <2>1. /\ client[c].tag # NoTag
        /\ Handle(Wanted(c, client[c].tag.name, client[c].tag, client[c].got, last))
        /\ UNCHANGED <<dataVars, reply, client>>
    BY <1>4 DEF Resume, Wanted
  <2>2. /\ client[c].tag \in Tag /\ client[c].got \in Nat /\ last \in Int
        /\ client[c].total \in Nat
    BY <1>t, <2>1 DEF Copy, ToEnd
  <2>3. client[c].tag.name \in Names
    BY <2>2 DEF Tag
  <2>4. /\ reply[c] = NoReply /\ req'.client = c /\ req'.ifRange = client[c].tag
        /\ req'.from = client[c].got /\ req'.last = last
    BY <2>1, <2>2, <2>3, HandleEffect
  <2>5. last < client[c].total
    BY <2>2 DEF ToEnd
  <2> QED
    BY <2>1, <2>4, <2>5 DEF ResumeInv
<1>5. CASE UnCompress \/ UnCompressFails
  <2>1. /\ pc = "uncompress" /\ UNCHANGED client /\ req' \in {req, Excused(req)}
        /\ req \in DownloadRequest /\ req.client \in Clients
    BY <1>5 DEF UnCompress, UnCompressFails, Excused, TypeInv, RequestInv, DownloadRequest
  <2>2. /\ req'.client = req.client /\ req'.ifRange = req.ifRange
        /\ req'.from = req.from /\ req'.last = req.last
    BY <2>1, ExcusedShape
  <2>3. reply[req.client] = NoReply
    BY <2>1 DEF ResumeInv
  <2>4. \A c \in Clients : reply'[c] = reply[c] \/ HasBody(c)
    BY <1>5, <1>t, Rewrites, SetContentEffect
  <2>5. reply'[req.client] = NoReply
    BY <2>1, <2>3, <2>4, NotNoReply DEF HasBody
  <2> QED
    BY <2>1, <2>2, <2>5 DEF ResumeInv
<1> QED
  BY <1>1, <1>2, <1>3, <1>4, <1>5, StepCases DEF Aside, Handled

(* More uploads leave less to say.                                          *)
LEMMA SoundBefore ==
  ASSUME stored \subseteq stored', NEW c \in Clients, Sound(c)',
         client'[c].tag = client[c].tag,
         client[c].excused => client'[c].excused
  PROVE  Sound(c)
BY DEF Sound, Ambiguous

(* A tag that is not that of two uploads is that of one.                    *)
LEMMA OneUpload ==
  ASSUME TypeInv, StoredInv, NEW s \in stored, NEW t \in stored,
         GetETag(s.info) = GetETag(t.info), ~Ambiguous(s.info.name)
  PROVE  s = t
<1>1. s.info \in StorageInfo /\ t.info \in StorageInfo
  BY DEF TypeInv, FilesInv, Version
<1>2. /\ s.info.name = t.info.name /\ s.info.fsize = t.info.fsize
      /\ s.info.mtime = t.info.mtime
  BY DEF GetETag
<1>3. [s.info EXCEPT !.dir = t.info.dir] = t.info
  BY <1>1, <1>2 DEF StorageInfo
<1>4. s.num = t.num
  BY <1>3 DEF Ambiguous, SameTag
<1> QED
  BY <1>4 DEF StoredInv

(* Nothing has happened to c that matters: at most its reply was excused,   *)
(* cut short or ended.                                                      *)
Undisturbed(c) ==
  /\ client'[c] = client[c]
  /\ \/ reply'[c].status \notin {200, 206}
     \/ /\ HasBody(c) /\ reply'[c].tag = reply[c].tag
        /\ reply'[c].excused
     \/ /\ HasBody(c) /\ reply'[c].tag = reply[c].tag
        /\ reply'[c].excused = reply[c].excused
        /\ reply'[c].next = reply[c].next /\ reply'[c].last = reply[c].last
        /\ reply'[c].size = reply[c].size

LEMMA CopyUndisturbed ==
  ASSUME stored \subseteq stored', NEW c \in Clients, CopyOK(c), Undisturbed(c)
  PROVE  CopyOK(c)'
<1>1. Sound(c)' => Sound(c)
  BY SoundBefore DEF Undisturbed
<1>2. Sound(c)' => \E s \in stored' : IsPartOf(client'[c], s)
  BY <1>1 DEF CopyOK, Undisturbed
<1> QED
  BY <1>1, <1>2 DEF CopyOK, Undisturbed, HasBody

(* Sending to c: with 200 its file starts anew, with 206 it goes on with    *)
(* bytes of the upload it has.                                              *)
LEMMA CopySent ==
  ASSUME TypeInv, StoredInv, BackedInv, CopyInv, CopiesInv, ResumeInv,
         stored' = stored, pc = "serve",
         NEW status \in BodyStatus, NEW from \in Nat, NEW last \in Int, NEW total \in Nat,
         Sent(status, from, last, total)
  PROVE  CopiesInv'
<1> DEFINE c == req.client
           p == LowPath(req.name)
           g == GetETag(table[req.name])
           e == Doubted(total)
<1>f. Found /\ Delivered(status, from, last, total)
  BY DEF Sent
<1>t. /\ req \in DownloadRequest /\ c \in Clients /\ req.from \in Nat /\ req.last \in Int
      /\ FileSize(p) \in Nat
  BY <1>f, FileSizeNat DEF TypeInv, RequestInv, DownloadRequest, Found
<1>g. g \in Tag /\ g # NoTag
  <2>1. g \in Tag
    BY <1>f, TagShape DEF Found, GetOneByURL, TypeInv, DataTypeOK
  <2>2. table[req.name] \in StorageInfo /\ g.name = table[req.name].name
        /\ table[req.name].name = req.name
    BY <1>f, TagShape DEF Found, GetOneByURL, TypeInv, DataTypeOK
  <2>3. DOMAIN g = {"name", "fsize", "mtime"} /\ DOMAIN NoTag = {"name"}
    BY DEF NoTag, GetETag
  <2> QED
    BY <2>1, <2>3
<1>1. /\ status = 200 => from = 0 /\ last = total - 1
      /\ status = 206 => /\ Retrans /\ from = req.from /\ from < FileSize(p)
                         /\ last \in {from - 1, FileSize(p) - 1, req.last}
  BY DEF Sent
<1>2. /\ reply'[c].status = status /\ reply'[c].size = files[p].size
      /\ reply'[c].tag = g /\ reply'[c].next = from /\ reply'[c].last = last
      /\ reply'[c].excused = e
      /\ \A d \in Clients : d # c => Undisturbed(d)
      /\ client'[c].total = total
      /\ status = 200 => /\ client'[c].tag = g /\ client'[c].got = 0
                         /\ client'[c].nums = {} /\ client'[c].excused = e
      /\ status = 206 => /\ client'[c].tag = client[c].tag
                         /\ client'[c].got = client[c].got /\ client'[c].nums = client[c].nums
                         /\ client'[c].excused = (client[c].excused \/ e)
  <2>1. \A d \in Clients : d # c => Undisturbed(d)
    <3>1. ASSUME NEW d \in Clients, d # c PROVE Undisturbed(d)
      <4>1. /\ client'[d] = client[d]
            /\ \/ reply'[d] = reply[d]
               \/ /\ HasBody(d) /\ reply'[d].size = reply[d].size
                  /\ reply'[d].tag = reply[d].tag
                  /\ reply'[d].next = reply[d].next
                  /\ reply'[d].last = reply[d].last
                  /\ reply'[d].excused = reply[d].excused
        BY <1>f, <3>1 DEF Delivered
      <4> QED
        BY <4>1 DEF Undisturbed, HasBody
    <3> QED
      BY <3>1
  <2> QED
    BY <1>f, <2>1 DEF Delivered
<1>3. ~e => \E s \in stored : /\ files[p].size = s.size /\ FileSize(p) = s.size
                              /\ g = GetETag(s.info) /\ total = s.size
  BY <1>f, ServedVersion DEF Doubted
<1>r. status = 206 => /\ client[c].tag = g /\ req.last < client[c].total
                      /\ client[c].got = from
  BY <1>1 DEF Retrans, ResumeInv
<1> HIDE DEF e, g, p, c
<1>4. \A d \in Clients : d # c => CopyOK(d)'
  BY <1>2, CopyUndisturbed DEF CopiesInv
<1>5. ASSUME NEW d \in Clients, d = c
      PROVE  CopyOK(d)'
  <2>1. client'[d].tag = g
    BY <1>2, <1>5, <1>r DEF BodyStatus
  <2>2. HasBody(d)' /\ reply'[d].tag = client'[d].tag
    BY <1>2, <1>5, <2>1 DEF HasBody, BodyStatus
  <2>3. ASSUME ~e, Sound(d)'
        PROVE  /\ \E s \in stored' : IsPartOf(client'[d], s)
               /\ reply'[d].last < reply'[d].size /\ reply'[d].next = client'[d].got
    <3>1. PICK s \in stored : /\ files[p].size = s.size /\ FileSize(p) = s.size
                              /\ g = GetETag(s.info) /\ total = s.size
      BY <1>3, <2>3
    <3>2. s.size \in Nat
      BY SizesNat DEF TypeInv, FilesInv, Version
    <3>3. CASE status = 200
      <4>1. IsPartOf(client'[d], s)
        BY <1>2, <1>5, <3>1, <3>2, <3>3 DEF IsPartOf
      <4>2. reply'[d].last < reply'[d].size /\ reply'[d].next = client'[d].got
        BY <1>1, <1>2, <1>5, <3>1, <3>2, <3>3
      <4> QED
        BY <4>1, <4>2
    <3>4. CASE status = 206
      <4>1. Sound(d)
        BY <1>2, <1>5, <2>3, <3>4, SoundBefore
      <4>2. PICK u \in stored : IsPartOf(client[d], u)
        BY <4>1 DEF CopiesInv, CopyOK
      <4>3. GetETag(u.info) = GetETag(s.info) /\ client[d].tag = GetETag(u.info)
        BY <1>5, <1>r, <3>1, <3>4, <4>2 DEF IsPartOf
      <4>4. ~Ambiguous(u.info.name)
        BY <4>1, <4>3 DEF Sound, GetETag
      <4>5. u = s
        BY <4>3, <4>4, OneUpload
      <4>6. IsPartOf(client'[d], s)
        BY <1>2, <1>5, <3>1, <3>4, <4>2, <4>5 DEF IsPartOf
      <4>7. last < s.size
        BY <1>1, <1>5, <1>r, <1>t, <3>1, <3>2, <3>4, <4>2, <4>5 DEF IsPartOf
      <4>8. reply'[d].next = client'[d].got
        BY <1>2, <1>5, <1>r, <3>4
      <4> QED
        BY <1>2, <1>5, <3>1, <4>6, <4>7, <4>8
    <3> QED
      BY <3>3, <3>4 DEF BodyStatus
  <2>4. Sound(d)' => ~e
    BY <1>2, <1>5 DEF Sound, BodyStatus
  <2> QED
    BY <2>2, <2>3, <2>4 DEF CopyOK
<1> QED
  BY <1>4, <1>5 DEF CopiesInv

(* A byte of the body is a byte of the upload the client has.               *)
LEMMA CopyReceived ==
  ASSUME TypeInv, StoredInv, ReplyInv, CopiesInv, stored' = stored,
         NEW c \in Clients, ReceiveByte(c)
  PROVE  CopiesInv'
<1> DEFINE x == IF reply[c].next < reply[c].size THEN reply[c].num ELSE 0
<1>1. /\ reply[c] \in Reply /\ reply[c].next <= reply[c].last
      /\ \A d \in Clients : d # c => client'[d] = client[d] /\ reply'[d] = reply[d]
      /\ client'[c].tag = client[c].tag /\ client'[c].total = client[c].total
      /\ client'[c].got = client[c].got + 1
      /\ client'[c].nums = client[c].nums \cup {x}
      /\ client'[c].excused = (client[c].excused \/ reply[c].excused)
      /\ \/ reply'[c] = NoReply
         \/ /\ reply'[c].status = reply[c].status
            /\ reply'[c].size = reply[c].size
            /\ reply'[c].tag = reply[c].tag
            /\ reply'[c].next = reply[c].next + 1
            /\ reply'[c].last = reply[c].last
            /\ reply'[c].excused = reply[c].excused
  BY ReceiveEffect
<1>2. ASSUME NEW d \in Clients, d # c PROVE CopyOK(d)'
  <2>1. Undisturbed(d)
    BY <1>1, <1>2 DEF Undisturbed, HasBody
  <2> QED
    BY <2>1, CopyUndisturbed DEF CopiesInv
<1>3. CopyOK(c)
  BY DEF CopiesInv
<1>4. HasBody(c)' => HasBody(c) /\ reply'[c].tag = client'[c].tag
  BY <1>1, <1>3, NotNoReply DEF HasBody, CopyOK
<1>5. Sound(c)' => Sound(c) /\ ~reply[c].excused
  <2>1. Sound(c)' => Sound(c)
    BY <1>1, SoundBefore
  <2>2. Sound(c)' => ~reply[c].excused
    BY <1>1 DEF Sound
  <2> QED
    BY <2>1, <2>2
<1>6. ASSUME Sound(c)' PROVE \E s \in stored' : IsPartOf(client'[c], s)
  <2>1. PICK s \in stored : IsPartOf(client[c], s)
    BY <1>3, <1>5, <1>6 DEF CopyOK
  <2>2. HasBody(c) /\ \E u \in stored : IsBodyOf(reply[c], u)
    BY <1>1, <1>5, <1>6, NotNoReply DEF ReplyInv
  <2>3. PICK u \in stored : IsBodyOf(reply[c], u)
    BY <2>2
  <2>4. /\ reply[c].tag = client[c].tag
        /\ reply[c].last < reply[c].size /\ reply[c].next = client[c].got
    BY <1>3, <1>5, <1>6, <2>2 DEF CopyOK
  <2>5. GetETag(u.info) = GetETag(s.info) /\ client[c].tag = GetETag(s.info)
    BY <2>1, <2>3, <2>4 DEF IsPartOf, IsBodyOf
  <2>6. ~Ambiguous(u.info.name)
    <3>1. client[c].tag.name = u.info.name
      BY <2>5 DEF GetETag
    <3> QED
      BY <1>5, <1>6, <3>1 DEF Sound
  <2>7. u = s
    BY <2>5, <2>6, OneUpload
  <2>8. x = s.num /\ client[c].got < s.size
    <3>1. reply[c].next < reply[c].size
      <4>1. reply[c].next \in Nat /\ reply[c].last \in Int /\ reply[c].size \in Nat
        BY <1>1 DEF Reply
      <4> QED
        BY <1>1, <2>4, <4>1
    <3> QED
      BY <2>3, <2>4, <2>7, <3>1 DEF IsBodyOf
  <2> HIDE DEF x
  <2>9. client[c].got \in Nat /\ s.size \in Nat
    BY SizesNat DEF TypeInv, ClientsInv, Copy, FilesInv, Version
  <2>10. client'[c].nums = {s.num} /\ client'[c].got # 0
    BY <1>1, <2>1, <2>8, <2>9 DEF IsPartOf
  <2> QED
    BY <1>1, <2>1, <2>8, <2>9, <2>10 DEF IsPartOf
<1>7. ASSUME HasBody(c)', ~reply'[c].excused, Sound(c)'
      PROVE  reply'[c].last < reply'[c].size /\ reply'[c].next = client'[c].got
  BY <1>1, <1>3, <1>4, <1>5, <1>7, NotNoReply DEF CopyOK, HasBody
<1>8. CopyOK(c)'
  BY <1>4, <1>6, <1>7 DEF CopyOK
<1> QED
  BY <1>2, <1>8 DEF CopiesInv

LEMMA CopiesStep ==
  ASSUME TypeInv, StoredInv, BackedInv, CopyInv, ReplyInv, CopiesInv, ResumeInv, [Next]_vars
  PROVE  CopiesInv'
<1>t. /\ client \in [Clients -> Copy] /\ reply \in [Clients -> Reply \cup {NoReply}]
      /\ \A c \in Clients : reply'[c] = NoReply => reply'[c].status \notin {200, 206}
  BY DEF TypeInv, ClientsInv, NoReply
<1>u. ASSUME \A c \in Clients : Undisturbed(c) PROVE CopiesInv'
  BY <1>u, StoredGrows, CopyUndisturbed DEF CopiesInv
<1>1. ASSUME UNCHANGED <<client, reply>> PROVE CopiesInv'
  <2>1. \A c \in Clients : Undisturbed(c)
    BY <1>1 DEF Undisturbed, HasBody
  <2> QED
    BY <1>u, <2>1
<1>2. CASE Start \/ RecordInfo \/ Persist \/ PersistFails \/ UploadReplies \/ Quiet
  BY <1>1, <1>2 DEF Start, RecordInfo, Persist, PersistFails, UploadReplies, Quiet, vars
<1>3. CASE Die
  <2>1. \A c \in Clients : client'[c] = client[c] /\ reply'[c] = NoReply
    BY <1>3 DEF Die
  <2> QED
    BY <1>t, <1>u, <2>1 DEF Undisturbed
<1>4. CASE Written \/ UnCompress \/ UnCompressFails
  <2>1. UNCHANGED client
    BY <1>4 DEF Written, Upload, WriteFile, WriteFileFails, UnCompress, UnCompressFails
  <2>2. CASE UNCHANGED reply
    BY <1>1, <2>1, <2>2
  <2>3. ASSUME NEW p \in Paths, NEW x \in [num : Nat, size : Sizes \cup {0}], SetContent(p, x)
        PROVE  CopiesInv'
    <3>1. \A c \in Clients :
            \/ reply'[c] = reply[c]
            \/ HasBody(c) /\ reply'[c].tag = reply[c].tag /\ reply'[c].excused = TRUE
      BY <1>t, <2>3, SetContentEffect
    <3>2. \A c \in Clients : Undisturbed(c)
      BY <2>1, <3>1 DEF Undisturbed, HasBody
    <3> QED
      BY <1>u, <3>2
  <2> QED
    BY <1>4, <2>2, <2>3, Rewrites
<1>5. ASSUME NEW c \in Clients, NEW n \in Names, Download(c, n) PROVE CopiesInv'
  <2>1. /\ reply[c] = NoReply /\ UNCHANGED reply
        /\ client' = [client EXCEPT ![c] = Nothing]
    BY <1>5 DEF Download, Handle
  <2>2. \A d \in Clients : d # c => Undisturbed(d)
    BY <1>t, <2>1 DEF Undisturbed, HasBody
  <2>3. client'[c].tag = NoTag /\ reply'[c] = NoReply
    BY <1>t, <2>1, NothingShape
  <2>4. CopyOK(c)'
    BY <1>t, <2>3 DEF CopyOK, Sound, HasBody
  <2> QED
    BY <2>2, <2>4, StoredGrows, CopyUndisturbed DEF CopiesInv
<1>6. ASSUME NEW c \in Clients, NEW last \in {ToEnd} \cup 0 .. client[c].total - 1,
             Resume(c, last)
      PROVE  CopiesInv'
  BY <1>1, <1>6 DEF Resume
<1>7. CASE Served
  <2>1. pc = "serve" /\ stored' = stored
    BY <1>7, AsideKeeps DEF Served, Aside
  <2>2. ASSUME NEW status \in {200, 404, 416, 500}, Answer(status),
               \/ status # 200 /\ UNCHANGED client
               \/ status = 200 /\ client' = [client EXCEPT ![req.client] = Nothing]
        PROVE  CopiesInv'
    <3> DEFINE c == req.client
    <3>1. /\ c \in Clients /\ reply'[c].status = status /\ reply'[c].tag = NoTag
          /\ reply'[c].excused
          /\ \A d \in Clients : d # c => reply'[d] = reply[d]
      BY <2>1, <2>2, AnswerEffect
    <3>2. \A d \in Clients : d # c => client'[d] = client[d]
      BY <1>t, <2>2
    <3>3. CASE status # 200
      <4>1. client'[c] = client[c] /\ reply'[c].status \notin {200, 206}
        BY <2>2, <3>1, <3>3
      <4> HIDE DEF c
      <4>2. \A d \in Clients : Undisturbed(d)
        BY <3>1, <3>2, <4>1 DEF Undisturbed, HasBody
      <4> QED
        BY <1>u, <4>2
    <3>4. CASE status = 200
      <4>1. client'[c].tag = NoTag
        BY <1>t, <2>2, <3>1, <3>4, NothingShape
      <4> HIDE DEF c
      <4>2. \A d \in Clients : d # c => CopyOK(d)'
        <5>1. \A d \in Clients : d # c => Undisturbed(d)
          BY <3>1, <3>2 DEF Undisturbed, HasBody
        <5> QED
          BY <5>1, StoredGrows, CopyUndisturbed DEF CopiesInv
      <4>3. \A d \in Clients : d = c => CopyOK(d)'
        BY <3>1, <4>1 DEF CopyOK, Sound, HasBody
      <4> QED
        BY <4>2, <4>3 DEF CopiesInv
    <3> QED
      BY <3>3, <3>4
  <2>3. ASSUME NEW status \in BodyStatus, NEW from \in Nat, NEW last \in Int, NEW total \in Nat,
               Sent(status, from, last, total)
        PROVE  CopiesInv'
    BY <2>1, <2>3, CopySent
  <2>4. CASE SomethingSent
    <3>1. PICK status \in BodyStatus, from \in Nat, last \in Int, total \in Nat :
            Sent(status, from, last, total)
      BY <2>4, Zenon DEF SomethingSent
    <3> QED
      BY <2>3, <3>1, Zenon
  <2> QED
    BY <1>7, <2>2, <2>4, ServeEffect DEF Served
<1>8. CASE ClientStep
  <2>1. PICK c \in Clients : ReceiveByte(c) \/ Disconnect(c)
    BY <1>8 DEF ClientStep
  <2>2. CASE ReceiveByte(c)
    <3>1. stored' = stored
      BY <2>2 DEF ReceiveByte, Sending, storageVars
    <3> QED
      BY <2>2, <3>1, CopyReceived
  <2>3. CASE Disconnect(c)
    <3>1. reply' = [reply EXCEPT ![c] = NoReply] /\ UNCHANGED client
      BY <2>3 DEF Disconnect
    <3>2. \A d \in Clients : Undisturbed(d)
      BY <1>t, <3>1 DEF Undisturbed, HasBody
    <3> QED
      BY <1>u, <3>2
  <2> QED
    BY <2>1, <2>2, <2>3
<1> QED
  BY <1>2, <1>3, <1>4, <1>5, <1>6, <1>7, <1>8, StepCases DEF Aside, Handled

-----------------------------------------------------------------------------
(* The invariant                                                            *)

LEMMA StorageInit ==
  ASSUME Init
  PROVE  IInv
<1> USE DEF Init, DataInit, EmptyTable
<1>1. TypeInv
  <2>1. DataTypeOK /\ RequestInv
    BY DEF DataTypeOK, RequestInv
  <2>2. FilesInv
    BY DEF FilesInv
  <2>3. ClientsInv
    BY NothingShape DEF ClientsInv
  <2> QED
    BY <2>1, <2>2, <2>3 DEF TypeInv
<1>2. StoredInv /\ SavedInv
  BY DEF StoredInv, SavedInv, SavedIsTable
<1>3. BackedInv /\ CopyInv /\ ResumeInv
  BY DEF BackedInv, CopyInv, ResumeInv
<1>4. ReplyInv
  BY DEF ReplyInv
<1>5. \A c \in Clients : client[c].tag = NoTag /\ ~HasBody(c)
  BY NothingShape DEF HasBody, NoReply
<1>6. CopiesInv
  BY <1>5 DEF CopiesInv, CopyOK, Sound
<1> QED
  BY <1>1, <1>2, <1>3, <1>4, <1>6 DEF IInv

LEMMA StorageInductive ==
  ASSUME IInv, [Next]_vars
  PROVE  IInv'
<1> USE DEF IInv
<1>1. TypeInv' /\ StoredInv' /\ SavedInv'
  BY TypeStep, StoredStep, SavedStep
<1>2. BackedInv' /\ CopyInv' /\ ReplyInv'
  BY BackedStep, CopyStep, ReplyStep
<1>3. CopiesInv' /\ ResumeInv'
  BY CopiesStep, ResumeStep
<1> QED
  BY <1>1, <1>2, <1>3

THEOREM StorageInvariant == Spec => []IInv
<1>1. Init => IInv
  BY StorageInit
<1>2. IInv /\ [Next]_vars => IInv'
  BY StorageInductive
<1> QED
  BY <1>1, <1>2, PTL DEF Spec

(* The variables keep their types: every file is one of the directories'    *)
(* and holds what an upload wrote to it, every reply has a status that the  *)
(* handlers set, and a handler has a request.                               *)
THEOREM StorageTypeCorrect == Spec => []StorageTypeOK
<1>1. ASSUME IInv PROVE StorageTypeOK
  <2>1. TypeInv
    BY <1>1 DEF IInv
  <2>2. pc \in {"down", "idle"} <=> req = NoRequest
    <3>1. \A r \in UploadRequest \cup DownloadRequest : r # NoRequest
      BY DEF UploadRequest, DownloadRequest, NoRequest
    <3> QED
      BY <2>1, <3>1 DEF TypeInv, RequestInv
  <2>3. ASSUME NEW c \in Clients
        PROVE  /\ reply[c].status \in {0, 200, 206, 404, 416, 500}
               /\ client[c].got \in Nat /\ client[c].nums \subseteq 0 .. uploads
    <3>1. reply[c] \in Reply \cup {NoReply} /\ client[c] \in Copy
      BY <2>1 DEF TypeInv, ClientsInv
    <3>2. reply[c].status \in {0, 200, 206, 404, 416, 500}
      BY <3>1 DEF Reply, NoReply
    <3> QED
      BY <2>1, <3>1, <3>2 DEF Copy, TypeInv, ClientsInv
  <2> QED
    BY <2>1, <2>2, <2>3 DEF TypeInv, RequestInv, FilesInv, StorageTypeOK
<1> QED
  BY <1>1, StorageInvariant, PTL

(* What was answered 200 is in the table between requests, replaced at most *)
(* by a later upload of its name, whatever fails and whenever the process   *)
(* dies, unless it died with storage.data truncated or out of date.         *)
THEOREM AcknowledgedKept == Spec => []AckedSurvives
<1>1. ASSUME IInv PROVE AckedSurvives
  <2>1. ASSUME pc = "idle", NEW s \in stored, s.num \in acked \ lost
        PROVE  /\ s.info.name \in DOMAIN table
               /\ \E t \in stored : t.num >= s.num /\ t.info = table[s.info.name]
    <3>1. DataTypeOK /\ dm # "off"
      BY <1>1, <2>1 DEF IInv, TypeInv, RequestInv
    <3>2. Covers(Range(table), stored, s)
      BY <1>1, <2>1, <3>1 DEF IInv, SavedInv
    <3>3. PICK i \in Range(table), t \in stored :
            i.name = s.info.name /\ t.num >= s.num /\ t.info = i
      BY <3>2 DEF Covers
    <3> QED
      BY <3>1, <3>3, EntryRange
  <2> QED
    BY <2>1 DEF AckedSurvives
<1> QED
  BY <1>1, StorageInvariant, PTL

(* Between requests the file of an entry is there, with the content and the *)
(* size it was recorded with, unless its path is suspect: no download of a  *)
(* deep file, failed or not, writes or removes a file that an entry names.  *)
THEOREM EntriesBacked == Spec => []TableBacked
<1>1. ASSUME IInv PROVE TableBacked
  <2>1. ASSUME pc = "idle", NEW n \in DOMAIN table, <<table[n].dir, n>> \notin suspect
        PROVE  LET p == <<table[n].dir, n>>
               IN  /\ p \in DOMAIN files
                   /\ FileSize(p) = table[n].fsize
                   /\ \E s \in stored : s.info = table[n] /\ s.num = files[p].num
    <3> DEFINE p == <<table[n].dir, n>>
    <3>1. PathOf(table[n]) = p
      BY <1>1 DEF IInv, TypeInv, DataTypeOK, PathOf
    <3>2. Backed(table[n], files, stored)
      BY <1>1, <2>1, <3>1 DEF IInv, BackedInv
    <3>3. PICK s \in stored :
            /\ s.info = table[n] /\ p \in DOMAIN files
            /\ files[p] = [num |-> s.num, size |-> s.size]
            /\ table[n].fsize = IF table[n].dir = "deep" THEN Compress(s.size) ELSE s.size
      BY <3>1, <3>2 DEF Backed
    <3>4. FileSize(p) = table[n].fsize
      BY <3>3 DEF FileSize
    <3> QED
      BY <3>3, <3>4
  <2> QED
    BY <2>1 DEF TableBacked
<1> QED
  BY <1>1, StorageInvariant, PTL

(* The ETag of a reply is that of the upload whose content is its body,     *)
(* although the one comes from the table and the other from a file under    *)
(* the low path.  Of replies that are not excused: an excused one comes     *)
(* from a suspect file, after a failed decompression or evbuffer_add_file,  *)
(* or from a file that was written again while it was being sent.           *)
THEOREM BodyHasTag == Spec => []TagMatchesBody
<1>1. ASSUME IInv PROVE TagMatchesBody
  <2>1. ASSUME NEW c \in Clients, reply[c].status \in {200, 206}, ~reply[c].excused
        PROVE  \E s \in stored : s.num = reply[c].num /\ GetETag(s.info) = reply[c].tag
    <3>1. reply[c] # NoReply
      BY <2>1 DEF NoReply
    <3> QED
      BY <1>1, <2>1, <3>1 DEF IInv, ReplyInv, IsBodyOf
  <2> QED
    BY <2>1 DEF TagMatchesBody
<1> QED
  BY <1>1, StorageInvariant, PTL

(* A client that has as many bytes as it was told has all the bytes of one  *)
(* upload and no others, however often it was cut off and resumed.  Unless  *)
(* two uploads have the tag, or the copy is excused because one of the      *)
(* replies it was made from was.                                            *)
THEOREM CopiesAreVersions == Spec => []CompleteIsVersion
<1>1. ASSUME IInv PROVE CompleteIsVersion
  <2>1. ASSUME NEW c \in Clients, client[c].tag # NoTag, client[c].got = client[c].total,
               ~client[c].excused, ~Ambiguous(client[c].tag.name)
        PROVE  \E s \in stored : HasVersion(c, s)
    <3>1. PICK s \in stored : IsPartOf(client[c], s)
      BY <1>1, <2>1 DEF IInv, CopiesInv, CopyOK, Sound
    <3>2. s.size > 0
      BY <1>1, SizesNat DEF IInv, TypeInv, FilesInv, Version
    <3>3. client[c].tag.name = s.info.name
      BY <3>1 DEF IsPartOf, GetETag
    <3>4. client[c].got = s.size /\ client[c].nums = {s.num}
      BY <2>1, <3>1, <3>2 DEF IsPartOf
    <3> QED
      BY <3>3, <3>4 DEF HasVersion
  <2> QED
    BY <2>1 DEF CompleteIsVersion
<1> QED
  BY <1>1, StorageInvariant, PTL

-----------------------------------------------------------------------------
(* What a download sees                                                     *)

Answered == {s \in stored : s.num \in acked \ lost}

(* The file of an entry is no older than any of these uploads of its name.  *)
Current(i, fs, doubtful, versions) ==
  PathOf(i) \notin doubtful =>
    /\ PathOf(i) \in DOMAIN fs
    /\ \A s \in versions : s.info.name = i.name => fs[PathOf(i)].num >= s.num

(* It is so of those that were answered, and in storage.data too, from      *)
(* which the next process takes its table; and what is being uploaded is    *)
(* the newest of all.                                                       *)
CurrentInv ==
  /\ \A n \in DOMAIN table : Current(table[n], files, suspect, Answered)
  /\ Intact => \A i \in saved : Current(i, files, suspect, Answered)
  /\ pc \in {"record", "persist"} /\ req.path \notin suspect =>
       req.path \in DOMAIN files /\ files[req.path].num = uploads
  /\ pc = "persist" => PathOf(table[req.path[2]]) = req.path

LEMMA CurrentKept ==
  ASSUME NEW i, NEW fs, NEW doubtful, NEW versions, Current(i, fs, doubtful, versions),
         NEW gs, NEW more, doubtful \subseteq more, NEW fewer, fewer \subseteq versions,
         PathOf(i) \in DOMAIN fs => PathOf(i) \in DOMAIN gs /\ gs[PathOf(i)] = fs[PathOf(i)]
  PROVE  Current(i, gs, more, fewer)
BY DEF Current

LEMMA FileWritten ==
  ASSUME NEW p, NEW x, SetContent(p, x)
  PROVE  /\ p \in DOMAIN files' /\ files'[p] = x
         /\ \A q \in DOMAIN files : q # p => q \in DOMAIN files' /\ files'[q] = files[q]
<1> DEFINE fs == [q \in DOMAIN files \cup {p} |-> IF q = p THEN x ELSE files[q]]
<1>1. files' = fs
  BY Zenon DEF SetContent
<1>2. /\ p \in DOMAIN fs /\ fs[p] = x
      /\ \A q \in DOMAIN files : q # p => q \in DOMAIN fs /\ fs[q] = files[q]
  OBVIOUS
<1> HIDE DEF fs
<1> QED
  BY <1>1, <1>2

LEMMA CurrentAside ==
  ASSUME TypeInv, SavedInv, CurrentInv, Aside
  PROVE  CurrentInv'
<1>1. /\ UNCHANGED <<table, saved, dm, unsaved, stored, acked, lost, uploads, suspect>>
      /\ pc' \notin {"store", "record", "persist"} \/ UNCHANGED <<pc, req>>
  BY AsideKeeps
<1>2. pc \in {"store", "record", "persist"} => pc' = pc
  BY AsidePhase
<1>3. Answered' = Answered /\ (Intact' <=> Intact)
  BY <1>1 DEF Answered, Intact
<1>4. CASE UNCHANGED files
  BY <1>1, <1>2, <1>3, <1>4 DEF CurrentInv
<1>5. CASE /\ pc \in {"uncompress", "serve"} /\ pc' \in {"serve", "idle"} /\ dm = "ready"
           /\ \A n \in DOMAIN table :
                LET q == PathOf(table[n])
                IN  q \in DOMAIN files => q \in DOMAIN files' /\ files'[q] = files[q]
  <2>1. ASSUME NEW n \in DOMAIN table PROVE Current(table[n], files', suspect, Answered)
    <3>1. Current(table[n], files, suspect, Answered)
      BY DEF CurrentInv
    <3> QED
      BY <1>5, <3>1, CurrentKept
  <2>2. Intact => \A i \in saved : Current(i, files', suspect, Answered)
    <3>1. Intact => saved = Range(table)
      BY <1>5 DEF Intact, SavedInv, SavedIsTable
    <3> QED
      BY <2>1, <3>1 DEF Range
  <2> QED
    BY <1>1, <1>3, <1>5, <2>1, <2>2 DEF CurrentInv
<1> QED
  BY <1>4, <1>5, AsideFiles

(* A file that is written for an upload is suspect, or the newest.          *)
LEMMA CurrentWritten ==
  ASSUME TypeInv, StoredInv, SavedInv, BackedInv, CurrentInv, Written
  PROVE  CurrentInv'
<1>1. UNCHANGED <<table, saved, dm, unsaved, stored, acked, lost>> /\ dm = "ready"
  BY DEF Written, Upload, WriteFile, WriteFileFails, dataVars, TypeInv, RequestInv
<1>2. Answered' = Answered /\ (Intact' <=> Intact)
  BY <1>1 DEF Answered, Intact
<1>3. \A s \in Answered : s.num <= uploads /\ s.num \in Nat
  BY DEF Answered, StoredInv, TypeInv, FilesInv, Version
<1>4. ASSUME NEW p, NEW x, SetContent(p, x), p \in suspect' \/ x.num = uploads,
             suspect \subseteq suspect' \cup {p}, pc' = "store" \/ pc' = "record",
             pc' = "record" /\ req'.path \notin suspect' =>
               req'.path \in DOMAIN files' /\ files'[req'.path].num = uploads'
      PROVE  CurrentInv'
  <2>1. ASSUME NEW i, Current(i, files, suspect, Answered)
        PROVE  Current(i, files', suspect', Answered)
    <3>1. CASE PathOf(i) = p
      <4>1. p \in DOMAIN files' /\ files'[p] = x
        BY <1>4, FileWritten
      <4>2. uploads \in Nat
        BY DEF TypeInv, FilesInv
      <4> QED
        BY <1>3, <1>4, <3>1, <4>1, <4>2 DEF Current
    <3>2. CASE PathOf(i) # p
      <4>1. PathOf(i) \in DOMAIN files =>
              PathOf(i) \in DOMAIN files' /\ files'[PathOf(i)] = files[PathOf(i)]
        BY <1>4, <3>2, FileWritten
      <4> QED
        BY <1>4, <2>1, <3>2, <4>1 DEF Current
    <3> QED
      BY <3>1, <3>2
  <2>2. \A n \in DOMAIN table : Current(table[n], files', suspect', Answered)
    BY <2>1 DEF CurrentInv
  <2>3. Intact => \A i \in saved : Current(i, files', suspect', Answered)
    BY <2>1 DEF CurrentInv
  <2> QED
    BY <1>1, <1>2, <1>4, <2>2, <2>3 DEF CurrentInv
<1>5. ASSUME NEW n \in Names, NEW d \in Dirs, NEW s \in Sizes, Upload(n, d, s)
      PROVE  CurrentInv'
  <2>1. /\ SetContent(<<d, n>>, Truncated) /\ suspect' = suspect \cup {<<d, n>>}
        /\ pc' = "store"
    BY <1>5 DEF Upload
  <2> QED
    BY <1>4, <2>1
<1>6. CASE WriteFile
  <2> DEFINE x == [num |-> uploads, size |-> req.size]
  <2>1. /\ SetContent(req.path, x) /\ suspect' = suspect \ {req.path} /\ x.num = uploads
        /\ pc' = "record" /\ UNCHANGED <<req, uploads>>
    BY <1>6 DEF WriteFile
  <2>2. req'.path \in DOMAIN files' /\ files'[req'.path].num = uploads'
    BY <2>1, FileWritten
  <2> QED
    BY <1>4, <2>1, <2>2
<1>7. CASE WriteFileFails
  <2>1. /\ SetContent(req.path, Truncated) /\ UNCHANGED <<req, suspect>>
        /\ pc = "store" /\ pc' = "record"
    BY <1>7 DEF WriteFileFails
  <2>2. req.path \in suspect' /\ req'.path \in suspect'
    BY <2>1 DEF BackedInv
  <2> QED
    BY <1>4, <2>1, <2>2
<1> QED
  BY <1>5, <1>6, <1>7 DEF Written

(* The new entry is for the newest file.                                    *)
LEMMA CurrentRecord ==
  ASSUME TypeInv, StoredInv, CurrentInv, RecordInfo
  PROVE  CurrentInv'
<1> DEFINE i == NewStorageInfo(req.path)
           v == [num |-> uploads, size |-> req.size, info |-> i]
<1>1. /\ pc = "record" /\ pc' = "persist" /\ dm = "ready" /\ dm' = "open"
      /\ table' = [n \in DOMAIN table \cup {i.name} |-> IF n = i.name THEN i ELSE table[n]]
      /\ stored' = stored \cup {v}
      /\ UNCHANGED <<saved, unsaved, req, files, suspect, acked, lost, uploads>>
  BY DEF RecordInfo, Insert
<1>2. i.name = req.path[2] /\ PathOf(i) = req.path
  BY <1>1, NewInfo DEF TypeInv
<1> HIDE DEF i
<1>3. v.num = uploads
  OBVIOUS
<1> HIDE DEF v
<1>4. uploads \in Nat /\ \A s \in stored : s.num \in Nat /\ s.num < uploads
  BY <1>1 DEF StoredInv, TypeInv, FilesInv, Version
<1>5. uploads \notin acked
  BY <1>4 DEF StoredInv
<1>6. Answered' = Answered
  BY <1>1, <1>3, <1>5 DEF Answered
<1>7. Current(i, files, suspect, Answered)
  BY <1>1, <1>2, <1>4 DEF CurrentInv, Current, Answered
<1>8. \A n \in DOMAIN table' : Current(table'[n], files, suspect, Answered)
  BY <1>1, <1>7 DEF CurrentInv
<1>9. Intact' => \A j \in saved : Current(j, files, suspect, Answered)
  BY <1>1 DEF CurrentInv, Intact
<1>10. PathOf(table'[req.path[2]]) = req.path
  BY <1>1, <1>2
<1> QED
  BY <1>1, <1>6, <1>8, <1>9, <1>10 DEF CurrentInv

(* Answering makes the newest upload one that downloads have to see.        *)
LEMMA CurrentReplied ==
  ASSUME TypeInv, StoredInv, SavedInv, CurrentInv, UploadReplies
  PROVE  CurrentInv'
<1>1. /\ pc = "persist" /\ pc' = "idle" /\ dm = "ready" /\ acked' = acked \cup {uploads}
      /\ UNCHANGED <<table, saved, dm, unsaved, files, stored, lost, suspect>>
  BY DEF UploadReplies, dataVars
<1>2. PICK v \in stored : /\ v.num = uploads /\ req.path[2] \in DOMAIN table
                          /\ v.info = table[req.path[2]]
  BY <1>1 DEF StoredInv
<1>3. \A s \in Answered' : s \in Answered \/ s = v
  BY <1>1, <1>2 DEF Answered, StoredInv
<1>4. \A n \in DOMAIN table : table[n].name = n
  BY DEF TypeInv, DataTypeOK
<1>5. ASSUME NEW n \in DOMAIN table PROVE Current(table[n], files, suspect, Answered')
  <2>1. Current(table[n], files, suspect, Answered)
    BY DEF CurrentInv
  <2>2. ASSUME v.info.name = table[n].name, PathOf(table[n]) \notin suspect
        PROVE  files[PathOf(table[n])].num >= v.num
    <3>1. PathOf(table[n]) = req.path
      BY <1>1, <1>2, <1>4, <2>2 DEF CurrentInv
    <3>2. files[req.path].num = uploads /\ uploads \in Nat
      BY <1>1, <2>2, <3>1 DEF CurrentInv, TypeInv, FilesInv
    <3> QED
      BY <1>2, <3>1, <3>2
  <2> QED
    BY <1>3, <2>1, <2>2 DEF Current
<1>6. Intact' => \A i \in saved : Current(i, files, suspect, Answered')
  <2>1. Intact' => saved = Range(table)
    BY <1>1 DEF Intact, SavedInv, SavedIsTable
  <2> QED
    BY <1>5, <2>1 DEF Range
<1> QED
  BY <1>1, <1>5, <1>6 DEF CurrentInv

LEMMA CurrentStep ==
  ASSUME TypeInv, StoredInv, SavedInv, BackedInv, CurrentInv, [Next]_vars
  PROVE  CurrentInv'
<1>1. CASE Start
  <2>1. /\ dm = "off" /\ pc' = "idle" /\ InitLoad
        /\ UNCHANGED <<saved, files, stored, acked, lost, suspect>>
    BY <1>1 DEF Start, Run, InitLoad, storageVars
  <2>2. \A i \in saved : Current(i, files, suspect, Answered)
    BY <2>1 DEF CurrentInv, Intact
  <2>3. \A n \in DOMAIN table' : table'[n] \in saved
    BY <2>1, LoadRange DEF SavedInv
  <2>4. Answered' = Answered
    BY <2>1 DEF Answered
  <2> QED
    BY <2>1, <2>2, <2>3, <2>4 DEF CurrentInv
<1>2. CASE Die
  <2>1. /\ table' = EmptyTable /\ pc' = "down" /\ UNCHANGED <<saved, files, stored, acked>>
        /\ lost' = IF dm = "write" \/ unsaved THEN {s.num : s \in stored} ELSE lost
        /\ suspect' = IF dm = "write" \/ unsaved THEN Paths
                      ELSE IF pc = "record" \/ dm = "open" THEN suspect \cup {req.path}
                      ELSE suspect
    BY <1>2 DEF Die, ForgetTable
  <2>2. \A i \in saved : Current(i, files', suspect', Answered')
    <3>1. CASE dm = "write" \/ unsaved
      <4>1. \A i \in saved : PathOf(i) \in Paths
        BY PathParts DEF TypeInv, DataTypeOK, StorageInfo, PathOf
      <4> QED
        BY <2>1, <3>1, <4>1 DEF Current
    <3>2. CASE ~(dm = "write" \/ unsaved)
      <4>1. Intact
        BY <3>2 DEF Intact, TypeInv, DataTypeOK
      <4>2. Answered' = Answered
        BY <2>1, <3>2 DEF Answered
      <4>3. suspect \subseteq suspect'
        BY <2>1, <3>2
      <4>4. \A i \in saved : Current(i, files, suspect, Answered)
        BY <4>1 DEF CurrentInv
      <4> QED
        BY <2>1, <4>2, <4>3, <4>4 DEF Current
    <3> QED
      BY <3>1, <3>2
  <2> QED
    BY <2>1, <2>2 DEF CurrentInv, EmptyTable
<1>3. CASE Persist \/ PersistFails
  <2>1. /\ pc = "persist" /\ pc' = pc
        /\ UNCHANGED <<table, files, stored, acked, lost, suspect, req, uploads>>
    BY <1>3 DEF Persist, PersistFails, Storage, StorageFails, OpenSaved, WriteSaved,
                OpenSavedFails, WriteSavedFails, storageVars
  <2>2. ~Intact' \/ saved' = Range(table)
    BY <1>3 DEF Persist, PersistFails, Storage, StorageFails, OpenSaved, WriteSaved, Intact,
                OpenSavedFails, WriteSavedFails, GetAll
  <2>3. Answered' = Answered
    BY <2>1 DEF Answered
  <2>4. \A i \in Range(table) : Current(i, files, suspect, Answered)
    BY DEF CurrentInv, Range
  <2> QED
    BY <2>1, <2>2, <2>3, <2>4 DEF CurrentInv
<1> QED
  BY <1>1, <1>2, <1>3, StepCases, CurrentWritten, CurrentRecord, CurrentReplied, CurrentAside

LEMMA CurrentInit ==
  ASSUME Init
  PROVE  CurrentInv
BY DEF Init, DataInit, EmptyTable, CurrentInv

LEMMA CurrentInvariant == Spec => []CurrentInv
<1>1. Init => CurrentInv
  BY CurrentInit
<1>2. IInv /\ CurrentInv /\ [Next]_vars => CurrentInv'
  BY CurrentStep DEF IInv
<1> QED
  BY <1>1, <1>2, StorageInvariant, PTL DEF Spec

(* Answering a request that is not excused, without a failure.              *)
LEMMA SeenWhenServed ==
  ASSUME TypeInv, StoredInv, SavedInv, BackedInv, CopyInv, CopiesInv, ResumeInv, CurrentInv,
         [Next]_vars,
         pc = "serve", pc' = "idle", faults' = faults,
         NEW s \in stored, s.num \in acked \ lost, s.info.name = req.name,
         ~req.excused, <<table[req.name].dir, req.name>> \notin suspect
  PROVE  LET c == req.client
             r == reply'[c]
         IN  \/ r.status \in {200, 206} /\ r.num >= s.num
             \/ /\ r.status = 416
                /\ \/ client[c].excused \/ Ambiguous(req.name)
                   \/ \E t \in stored : t.num >= s.num /\ HasVersion(c, t)
<1> DEFINE n == req.name
           p == LowPath(n)
           q == <<table[n].dir, n>>
<1>1. dm = "ready" /\ req \in DownloadRequest /\ DataTypeOK /\ FilesInv /\ faults \in Nat
  BY DEF TypeInv, RequestInv, FilesInv
<1>2. n \in DOMAIN table
  <2>1. Covers(Range(table), stored, s)
    BY <1>1 DEF SavedInv
  <2> QED
    BY <1>1, <2>1, EntryRange DEF Covers
<1>3. table[n] \in StorageInfo /\ table[n].name = n /\ PathOf(table[n]) = q
  BY <1>1, <1>2 DEF DataTypeOK, PathOf
<1>4. q \in DOMAIN files /\ files[q].num >= s.num
  BY <1>2, <1>3 DEF CurrentInv, Current, Answered
<1>5. p \in DOMAIN files /\ files[p] = files[q]
  <2>1. table[n].dir = "low" \/ table[n].dir = "deep"
    BY <1>3, ServiceConfig DEF StorageInfo
  <2>2. CASE table[n].dir = "low"
    BY <1>4, <2>2 DEF LowPath
  <2>3. CASE table[n].dir = "deep"
    BY <1>2, <2>3 DEF CopyInv, GetOneByURL
  <2> QED
    BY <2>1, <2>2, <2>3
<1>6. Found
  BY <1>2, <1>5 DEF Found, GetOneByURL
<1>7. Serving /\ DownloadStep
  BY DEF Next, Start, Run, Crash, Die, Tick, GenHandler, Download, Resume, Handle, Upload,
         UploadRefused, MalformedLink, UploadStep, WriteFile, WriteFileFails, RecordInfo,
         Persist, PersistFails, UploadReplies, DownloadStep, UnCompress, UnCompressFails,
         ServeUnknown, ServeMissing, ServeOpenFails, ServeWhole, ServeRange, ServeEmpty, RangeRefused,
         ClientStep, ReceiveByte, Disconnect, Sending, vars
<1>8. ServeWhole \/ ServeRange \/ RangeRefused
  <2>1. ~ServeUnknown /\ ~ServeMissing
    BY <1>6 DEF ServeUnknown, ServeMissing, Found
  <2>2. ~ServeOpenFails /\ ~ServeEmpty
    BY <1>1 DEF ServeOpenFails, ServeEmpty, Fault
  <2>3. ~UnCompress /\ ~UnCompressFails
    BY DEF UnCompress, UnCompressFails
  <2> QED
    BY <1>7, <2>1, <2>2, <2>3 DEF DownloadStep
<1>9. ASSUME RangeRefused, ~client[req.client].excused, ~Ambiguous(n)
      PROVE  \E t \in stored : t.num >= s.num /\ HasVersion(req.client, t)
  <2> DEFINE c == req.client
  <2>1. /\ Retrans /\ req.from >= FileSize(p) /\ c \in Clients
    BY <1>1, <1>9 DEF RangeRefused, DownloadRequest
  <2>2. /\ client[c].tag = GetETag(table[n]) /\ client[c].got = req.from
    BY <2>1 DEF Retrans, ResumeInv
  <2>3. GetETag(table[n]).name = n /\ GetETag(table[n]) # NoTag
    <3>1. GetETag(table[n]).name = n
      BY <1>3, TagShape
    <3>2. DOMAIN GetETag(table[n]) = {"name", "fsize", "mtime"} /\ DOMAIN NoTag = {"name"}
      BY DEF NoTag, GetETag
    <3> QED
      BY <3>1, <3>2
  <2>4. PICK u \in stored : /\ files[p].num = u.num /\ FileSize(p) = u.size
                            /\ GetETag(table[n]) = GetETag(u.info)
    BY <1>6, ServedVersion
  <2> HIDE DEF c, n, p, q
  <2>5. Sound(c)
    BY <1>9, <2>2, <2>3 DEF Sound, c
  <2>6. PICK t \in stored : IsPartOf(client[c], t)
    BY <2>1, <2>5 DEF CopiesInv, CopyOK
  <2>7. GetETag(t.info) = GetETag(u.info) /\ t.info.name = n
    BY <2>2, <2>3, <2>4, <2>6 DEF IsPartOf, GetETag
  <2>8. t = u
    BY <1>9, <2>7, OneUpload
  <2>9. u.size \in Nat /\ u.size > 0 /\ client[c].got \in Nat
    BY <2>1, SizesNat DEF TypeInv, FilesInv, Version, ClientsInv, Copy
  <2>10. client[c].got = u.size /\ client[c].nums = {u.num}
    BY <2>1, <2>2, <2>4, <2>6, <2>8, <2>9 DEF IsPartOf
  <2>11. client[c].tag.name = u.info.name
    BY <2>2, <2>3, <2>7, <2>8
  <2>12. HasVersion(c, u) /\ u.num >= s.num
    BY <1>4, <1>5, <2>4, <2>10, <2>11 DEF HasVersion
  <2> QED
    BY <2>12 DEF c
<1>a. RangeRefused => reply'[req.client].status = 416
  BY AnswerEffect DEF RangeRefused
<1>10. ASSUME NEW status \in BodyStatus, NEW from \in Nat, NEW last \in Int,
              NEW total \in Nat, SendFile(status, from, last, total)
       PROVE  reply'[req.client].status \in {200, 206} /\ reply'[req.client].num >= s.num
  <2>0. Delivered(status, from, last, total)
    BY <1>5, <1>6, <1>10, SendEffect
  <2>1. /\ reply'[req.client].status = status
        /\ reply'[req.client].num = files[p].num
    BY <1>6, <1>10, <2>0 DEF Delivered
  <2> QED
    BY <1>4, <1>5, <1>10, <2>1 DEF BodyStatus
<1>11. FileSize(p) \in Nat /\ FileSize(p) - 1 \in Int /\ req.from \in Nat /\ req.last \in Int
  BY <1>1, <1>5, FileSizeNat DEF DownloadRequest
<1>12. CASE ServeWhole
  <2>1. PICK status \in BodyStatus, from \in Nat, last \in Int, total \in Nat :
          status = 200 /\ from = 0 /\ last = FileSize(p) - 1 /\ total = FileSize(p)
    BY <1>11 DEF BodyStatus
  <2>2. SendFile(status, from, last, total)
    BY <1>12, <2>1 DEF ServeWhole
  <2> QED
    BY <1>10, <2>2
<1>13. CASE ServeRange
  <2>1. PICK last \in Int : SendFile(206, req.from, last, FileSize(p))
    BY <1>11, <1>13 DEF ServeRange
  <2>2. PICK status \in BodyStatus, from \in Nat, total \in Nat :
          status = 206 /\ from = req.from /\ total = FileSize(p)
    BY <1>11 DEF BodyStatus
  <2>3. SendFile(status, from, last, total)
    BY <2>1, <2>2
  <2> QED
    BY <1>10, <2>3
<1> QED
  BY <1>8, <1>9, <1>a, <1>12, <1>13

(* Whoever asks for a name after an upload of it was answered gets that     *)
(* upload or a later one, or is told 416 because he has one whole (unless   *)
(* his copy is excused or two uploads have its tag), through changes of the *)
(* kind of storage, failures and restarts: the table, storage.data and the  *)
(* files never go back to an older upload of a name, one by one or          *)
(* together.                                                                *)
THEOREM UploadsAreSeen == Spec => ServesLatest
<1>1. IInv /\ CurrentInv /\ [Next]_vars =>
        [\A s \in stored :
           /\ pc = "serve" /\ pc' = "idle" /\ faults' = faults
           /\ s.num \in acked \ lost /\ s.info.name = req.name
           /\ ~req.excused /\ <<table[req.name].dir, req.name>> \notin suspect
           => LET c == req.client
                  r == reply'[c]
              IN  \/ r.status \in {200, 206} /\ r.num >= s.num
                  \/ /\ r.status = 416
                     /\ \/ client[c].excused \/ Ambiguous(req.name)
                        \/ \E t \in stored : t.num >= s.num /\ HasVersion(c, t)]_vars
  BY SeenWhenServed DEF IInv
<1> QED
  BY <1>1, StorageInvariant, CurrentInvariant, PTL DEF Spec, ServesLatest
=============================================================================
