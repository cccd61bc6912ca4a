---------------------------- MODULE StorageService ----------------------------
(***************************************************************************)
(* storage::Service (Service.hpp) over DataManager and the file system:     *)
(* uploads, downloads and resumed downloads of the HTTP storage server, its *)
(* crashes and restarts, and the clients on the other side.                 *)
(*                                                                          *)
(* One event loop runs every handler to its end, so requests do not         *)
(* interleave; a handler is split where the process may die or a call may   *)
(* fail.  Replies are sent by the loop after the handler has returned: the  *)
(* body is a mapping of the file, whose pages are read as they are sent.    *)
(*                                                                          *)
(* A file's content is the number of the upload it comes from and a size;   *)
(* number 0 is a file that was opened and not, or not all, written.         *)
(***************************************************************************)
EXTENDS DataManager

CONSTANTS
  Clients,
  Sizes,         \* sizes of uploaded contents
  PackedSize,    \* their sizes after Compress
  MaxUploads, MaxTime, MaxFaults, MaxCrashes    \* bounds

ASSUME ServiceConfig ==
  /\ Dirs = {"low", "deep"}
  /\ Sizes \subseteq Nat \ {0}
  /\ \A s \in Sizes \cup {0} : PackedSize[s] \in Nat
  /\ {MaxUploads, MaxTime, MaxFaults, MaxCrashes} \subseteq Nat

VARIABLES
  pc,          \* "down", "idle", or the next step of the handler
  req,         \* the request being handled
  files,       \* path -> content, for the paths that exist
  reply,       \* client -> the reply on its way
  client,      \* client -> what it has downloaded
  now,         \* seconds
  uploads, faults, crashes,    \* how many so far
  \* History: the uploads recorded; the numbers of those answered 200 and of
  \* those whose entry was not on disk when the process died; the paths whose
  \* file does not go with the entry, after a failed write or a crash.
  stored, acked, lost, suspect

storageVars == <<files, stored, acked, lost, suspect, uploads, faults, crashes>>
vars == <<dataVars, storageVars, pc, req, reply, client, now>>

Paths == Dirs \X Names

ToEnd == -1
Gone == << >>
NoRequest == [kind |-> "none"]
NoReply == [status |-> 0]
NoTag == [name |-> {}]
Nothing == [tag |-> NoTag, total |-> 0, got |-> 0, nums |-> {}, excused |-> FALSE]

Truncated == [num |-> 0, size |-> 0]

(***************************************************************************)
(* Deep files are kept packed.  (One whose name contains low_storage is     *)
(* not, as Upload looks for that in the whole path: PackedSize[s] = s.)     *)
(***************************************************************************)
Compress(size) == PackedSize[size]

FileSize(p) ==
  IF p[1] = "deep" THEN Compress(files[p].size) ELSE files[p].size

(* Faulty variant: the tag is the name and the size. *)
GetSizeTag(info) == [name |-> info.name, fsize |-> info.fsize, mtime |-> 0]

GetETag(info) == [name |-> info.name, fsize |-> info.fsize, mtime |-> info.mtime]

(***************************************************************************)
(* FileUtil::SetContent keeps the inode of a file that exists: a reply that *)
(* is being sent from it goes on with the new content.                      *)
(***************************************************************************)
SetContent(p, content) ==
  /\ files' = [q \in DOMAIN files \cup {p} |-> IF q = p THEN content ELSE files[q]]
  /\ reply' = [c \in Clients |->
       IF reply[c].status \in {200, 206} /\ reply[c].path = p
         THEN [reply[c] EXCEPT !.num = content.num, !.size = content.size,
                               !.excused = TRUE]
         ELSE reply[c]]

Fault == faults < MaxFaults /\ faults' = faults + 1

Init ==
  /\ DataInit
  /\ pc = "down" /\ req = NoRequest
  /\ files = EmptyTable
  /\ reply = [c \in Clients |-> NoReply]
  /\ client = [c \in Clients |-> Nothing]
  /\ now = 0 /\ uploads = 0 /\ faults = 0 /\ crashes = 0
  /\ stored = {} /\ acked = {} /\ lost = {} /\ suspect = {}

(***************************************************************************)
(* main: the data manager is constructed, then the service runs, in a       *)
(* thread that nobody else shares the table with.  If the socket cannot be  *)
(* bound, Run returns and the process ends.                                 *)
(***************************************************************************)
Run == pc' = "idle"

Start ==
  /\ pc = "down"
  /\ InitLoad
  /\ Run
  /\ UNCHANGED <<storageVars, req, reply, client, now>>

-----------------------------------------------------------------------------
(***************************************************************************)
(* Upload.  Requests answered 400 (no body, unknown type) change nothing.   *)
(***************************************************************************)
Upload(n, d, s) ==
  /\ pc = "idle"
  /\ uploads < MaxUploads
  /\ uploads' = uploads + 1
  /\ req' = [kind |-> "upload", path |-> <<d, n>>, size |-> s]
  /\ SetContent(<<d, n>>, Truncated)
  /\ suspect' = suspect \cup {<<d, n>>}
  /\ pc' = "store"
  /\ UNCHANGED <<dataVars, client, now, faults, crashes, stored, acked, lost>>

(***************************************************************************)
(* The file cannot be opened, or Compress yields nothing: 500.              *)
(***************************************************************************)
UploadRefused ==
  /\ pc = "idle"
  /\ UNCHANGED vars

WriteFile ==
  /\ pc = "store"
  /\ SetContent(req.path, [num |-> uploads, size |-> req.size])
  /\ suspect' = suspect \ {req.path}
  /\ pc' = "record"
  /\ UNCHANGED <<dataVars, req, client, now, uploads, faults, crashes, stored,
                 acked, lost>>

(***************************************************************************)
(* SetContent returns true after a failed write.                            *)
(***************************************************************************)
WriteFileFails ==
  /\ pc = "store"
  /\ Fault
  /\ SetContent(req.path, Truncated)
  /\ pc' = "record"
  /\ UNCHANGED <<dataVars, req, client, now, uploads, crashes, stored, acked,
                 lost, suspect>>

(* Faulty variant: stat fails, and its -1 is taken for the size. *)
UnknownStorageInfo(p) ==
  [name |-> p[2], dir |-> p[1], fsize |-> -1, mtime |-> now]

NewStorageInfo(p) ==
  [name |-> p[2], dir |-> p[1], fsize |-> FileSize(p), mtime |-> now]

RecordInfo ==
  /\ pc = "record"
  /\ Insert(NewStorageInfo(req.path))
  /\ stored' = stored \cup
       {[num |-> uploads, size |-> req.size, info |-> NewStorageInfo(req.path)]}
  /\ pc' = "persist"
  /\ UNCHANGED <<req, reply, client, now, files, uploads, faults, crashes, acked,
                 lost, suspect>>

Persist ==
  /\ pc = "persist"
  /\ Storage
  /\ UNCHANGED <<storageVars, pc, req, reply, client, now>>

PersistFails ==
  /\ pc = "persist"
  /\ StorageFails
  /\ Fault
  /\ UNCHANGED <<pc, req, reply, client, now, files, uploads, crashes, stored,
                 acked, lost, suspect>>

UploadReplies ==
  /\ pc = "persist"
  /\ dm = "ready"
  /\ acked' = acked \cup {uploads}
  /\ pc' = "idle"
  /\ req' = NoRequest
  /\ UNCHANGED <<dataVars, reply, client, now, files, uploads, faults, crashes,
                 stored, lost, suspect>>

-----------------------------------------------------------------------------
(***************************************************************************)
(* Download.  info is the table's entry, or empty: GetOneByURL's result is  *)
(* not looked at.  What is not under the low directory is decompressed      *)
(* into it first.                                                           *)
(***************************************************************************)
LowPath(n) == <<"low", n>>

Handle(r) ==
  /\ pc = "idle"
  /\ reply[r.client] = NoReply
  /\ req' = r
  /\ pc' = IF GetOneByURL(r.name) /\ table[r.name].dir = "deep"
             THEN "uncompress" ELSE "serve"

Download(c, n) ==
  /\ Handle([kind |-> "download", client |-> c, name |-> n, ifRange |-> NoTag,
             from |-> 0, last |-> ToEnd, excused |-> FALSE])
  /\ client' = [client EXCEPT ![c] = Nothing]
  /\ UNCHANGED <<dataVars, storageVars, reply, now>>

(***************************************************************************)
(* If-Range with the tag the client has, Range from the first byte it does  *)
(* not have, to a byte of the file or open.                                 *)
(***************************************************************************)
Resume(c, last) ==
  /\ client[c].tag # NoTag
  /\ last \in {ToEnd} \cup (client[c].got .. client[c].total - 1)
  /\ Handle([kind |-> "download", client |-> c, name |-> client[c].tag.name,
             ifRange |-> client[c].tag, from |-> client[c].got,
             last |-> last, excused |-> FALSE])
  /\ UNCHANGED <<dataVars, storageVars, reply, client, now>>

(* Faulty variant: a low file that is already there is taken for it. *)
UnCompressOnce ==
  /\ pc = "uncompress"
  /\ <<"deep", req.name>> \in DOMAIN files
  /\ IF LowPath(req.name) \in DOMAIN files
       THEN UNCHANGED <<files, reply>>
       ELSE SetContent(LowPath(req.name), files[<<"deep", req.name>>])
  /\ pc' = "serve"
  /\ UNCHANGED <<dataVars, req, client, now, uploads, faults, crashes, stored,
                 acked, lost, suspect>>

(***************************************************************************)
(* The deep file is read and unpacked, the low file opened and written.     *)
(***************************************************************************)
UnCompress ==
  /\ pc = "uncompress"
  /\ <<"deep", req.name>> \in DOMAIN files
  /\ SetContent(LowPath(req.name), files[<<"deep", req.name>>])
  /\ pc' = "serve"
  /\ UNCHANGED <<dataVars, req, client, now, uploads, faults, crashes, stored,
                 acked, lost, suspect>>

(***************************************************************************)
(* Reading, opening or writing fails.  Download does not look at the        *)
(* result, and serves what it finds under the low path.                     *)
(***************************************************************************)
UnCompressFails ==
  /\ pc = "uncompress"
  /\ Fault
  /\ \/ UNCHANGED <<files, reply>>
     \/ SetContent(LowPath(req.name), Truncated)
  /\ req' = [req EXCEPT !.excused = TRUE]
  /\ pc' = "serve"
  /\ UNCHANGED <<dataVars, client, now, uploads, crashes, stored, acked, lost,
                 suspect>>

(***************************************************************************)
(* What the reply says and where its body comes from.  total is the size    *)
(* of the file, next and last the bytes still to come.                      *)
(***************************************************************************)
Retrans == req.ifRange = GetETag(table[req.name])

(* Faulty variant: the file is removed in any case. *)
AlwaysTemporary(n) == TRUE

IsTemporary(n) == table[n].dir # "low"

NoBody(status) ==
  [status |-> status, known |-> GetOneByURL(req.name),
   tag |-> NoTag, path |-> Gone, num |-> 0, size |-> 0, total |-> 0,
   next |-> 0, last |-> -1, excused |-> TRUE]

Answer(status) ==
  /\ reply' = [reply EXCEPT ![req.client] = NoBody(status)]
  /\ UNCHANGED files

Unlinked(p) ==
  [c \in Clients |-> IF reply[c].status \in {200, 206} /\ reply[c].path = p
                       THEN [reply[c] EXCEPT !.path = Gone] ELSE reply[c]]

(***************************************************************************)
(* The headers reach the client at once: 200 starts its file anew, 206 goes *)
(* on with it.                                                              *)
(***************************************************************************)
AfterHeader(had, r) ==
  IF r.status = 200
    THEN [Nothing EXCEPT !.tag = r.tag, !.total = r.total, !.excused = r.excused]
    ELSE [had EXCEPT !.total = r.total, !.excused = @ \/ r.excused]

(***************************************************************************)
(* evbuffer_add_file, the headers, and the removal of a decompressed file,  *)
(* whose inode lives on until the reply is sent.  total is the size the     *)
(* headers give: the length of a 200, the file's in a 206.                  *)
(***************************************************************************)
SendFile(status, from, last, total) ==
  LET n == req.name
      p == LowPath(n)
      r == [status |-> status, known |-> TRUE,
            tag |-> GetETag(table[n]), path |-> p, num |-> files[p].num,
            size |-> files[p].size, total |-> total, next |-> from,
            last |-> last,
            excused |-> \/ req.excused \/ <<table[n].dir, n>> \in suspect
                        \/ total # FileSize(p)]
  IN /\ client' = [client EXCEPT ![req.client] = AfterHeader(@, r)]
     /\ IF IsTemporary(n)
       THEN /\ files' = Restrict(files, DOMAIN files \ {p})
            /\ reply' = [Unlinked(p) EXCEPT ![req.client] = [r EXCEPT !.path = Gone]]
       ELSE /\ reply' = [reply EXCEPT ![req.client] = r]
            /\ UNCHANGED files

Serving ==
  /\ pc = "serve"
  /\ pc' = "idle"
  /\ req' = NoRequest
  /\ UNCHANGED <<dataVars, now, uploads, crashes, stored, acked, lost, suspect>>

Found == GetOneByURL(req.name) /\ LowPath(req.name) \in DOMAIN files

(***************************************************************************)
(* No entry: the path is empty, the low directory itself is opened, and a   *)
(* directory has no bytes to add.                                           *)
(***************************************************************************)
ServeUnknown ==
  /\ Serving
  /\ ~GetOneByURL(req.name)
  /\ Answer(200)
  /\ client' = [client EXCEPT ![req.client] = Nothing]
  /\ UNCHANGED faults

(***************************************************************************)
(* Nothing under the low path: 404, after 500 for a deep file, on the same  *)
(* request.  The client sees the first.                                     *)
(***************************************************************************)
ServeMissing ==
  /\ Serving
  /\ GetOneByURL(req.name) /\ ~Found
  /\ Answer(IF table[req.name].dir = "deep" THEN 500 ELSE 404)
  /\ UNCHANGED <<client, faults>>

ServeOpenFails ==
  /\ Serving
  /\ Found
  /\ Fault
  /\ Answer(500)
  /\ UNCHANGED client

ServeWhole ==
  /\ Serving
  /\ Found
  /\ ~Retrans
  /\ LET size == FileSize(LowPath(req.name)) IN SendFile(200, 0, size - 1, size)
  /\ UNCHANGED faults

ServeRange ==
  /\ Serving
  /\ Found
  /\ Retrans
  /\ LET size == FileSize(LowPath(req.name)) IN
       /\ req.from < size
       /\ SendFile(206, req.from, IF req.last = ToEnd THEN size - 1 ELSE req.last,
                   size)
  /\ UNCHANGED faults

(***************************************************************************)
(* evbuffer_add_file fails, which is only logged: the same reply, ETag      *)
(* included, with no bytes.                                                 *)
(***************************************************************************)
ServeEmpty ==
  /\ Serving
  /\ Found
  /\ Fault
  /\ \/ ~Retrans /\ SendFile(200, 0, -1, 0)
     \/ LET size == FileSize(LowPath(req.name)) IN
          /\ Retrans
          /\ req.from < size
          /\ SendFile(206, req.from, req.from - 1, size)

(* Faulty variant: the range is compared with the size in the table. *)
RangeRefusedPacked ==
  /\ Serving
  /\ Found
  /\ Retrans
  /\ req.from >= table[req.name].fsize
  /\ Answer(416)
  /\ UNCHANGED <<client, faults>>

(***************************************************************************)
(* The decompressed file stays where it is.                                 *)
(***************************************************************************)
RangeRefused ==
  /\ Serving
  /\ Found
  /\ Retrans
  /\ req.from >= FileSize(LowPath(req.name))
  /\ Answer(416)
  /\ UNCHANGED <<client, faults>>

-----------------------------------------------------------------------------
(***************************************************************************)
(* The clients, while the loop is free to send: bytes arrive in order, and  *)
(* a connection ends when the reply is complete, or before.                 *)
(***************************************************************************)
Sending(c) ==
  /\ pc = "idle"
  /\ reply[c] # NoReply
  /\ UNCHANGED <<dataVars, storageVars, pc, req, now>>

ReceiveByte(c) ==
  LET r == reply[c] IN
  /\ Sending(c)
  /\ r.next <= r.last
  /\ client' = [client EXCEPT ![c].got = @ + 1,
                              ![c].nums = @ \cup {IF r.next < r.size THEN r.num ELSE 0},
                              ![c].excused = @ \/ r.excused]
  /\ reply' = [reply EXCEPT ![c] =
       IF r.next < r.last THEN [r EXCEPT !.next = @ + 1] ELSE NoReply]

Disconnect(c) ==
  /\ Sending(c)
  /\ reply' = [reply EXCEPT ![c] = NoReply]
  /\ UNCHANGED client

-----------------------------------------------------------------------------
(***************************************************************************)
(* The process dies.  The history remembers what it was about to save, and  *)
(* everything if the metadata file was truncated or its last writing had    *)
(* failed.                                                                  *)
(***************************************************************************)
Die ==
  LET exposed == dm = "write" \/ unsaved IN
  /\ crashes < MaxCrashes
  /\ crashes' = crashes + 1
  /\ ForgetTable
  /\ lost' = IF exposed THEN {s.num : s \in stored} ELSE lost
  /\ suspect' = IF exposed THEN Paths
                ELSE IF pc = "record" \/ dm = "open" THEN suspect \cup {req.path}
                ELSE suspect
  /\ pc' = "down"
  /\ req' = NoRequest
  /\ reply' = [c \in Clients |-> NoReply]
  /\ UNCHANGED <<client, now, files, uploads, faults, stored, acked>>

Crash == pc # "down" /\ Die

(***************************************************************************)
(* UrlDecode asserts that a % is followed by two characters, hexadecimal    *)
(* if they are digits or letters.  The page of ListShow links a name as it  *)
(* is, so a file whose name has a % can have such a link.                   *)
(***************************************************************************)
MalformedLink == pc = "idle" /\ Die

(***************************************************************************)
(* Time is read only when an upload is recorded, so it may as well pass     *)
(* between requests.                                                        *)
(***************************************************************************)
Tick ==
  /\ pc = "idle"
  /\ now < MaxTime
  /\ now' = now + 1
  /\ UNCHANGED <<dataVars, storageVars, pc, req, reply, client>>

(***************************************************************************)
(* What begins a request: the path says which handler.                      *)
(***************************************************************************)
GenHandler ==
  \/ \E c \in Clients, n \in Names : Download(c, n)
  \/ \E c \in Clients : \E last \in {ToEnd} \cup 0 .. client[c].total - 1 : Resume(c, last)
  \/ \E n \in Names, d \in Dirs, s \in Sizes : Upload(n, d, s)
  \/ UploadRefused
  \/ MalformedLink

UploadStep ==
  \/ WriteFile \/ WriteFileFails
  \/ RecordInfo
  \/ Persist \/ PersistFails
  \/ UploadReplies

DownloadStep ==
  \/ UnCompress \/ UnCompressFails
  \/ ServeUnknown \/ ServeMissing \/ ServeOpenFails
  \/ ServeWhole \/ ServeRange \/ ServeEmpty \/ RangeRefused

ClientStep ==
  \E c \in Clients : ReceiveByte(c) \/ Disconnect(c)

Next ==
  \/ Start \/ Crash \/ Tick
  \/ GenHandler
  \/ UploadStep
  \/ DownloadStep
  \/ ClientStep

Spec == Init /\ [][Next]_vars

-----------------------------------------------------------------------------
(* Type invariant.                                                          *)
StorageTypeOK ==
  /\ DataTypeOK
  /\ pc \in {"down", "idle", "store", "record", "persist", "uncompress", "serve"}
  /\ pc = "down" <=> dm = "off"
  /\ pc \in {"down", "idle"} <=> req = NoRequest
  /\ DOMAIN files \subseteq Paths
  /\ \A p \in DOMAIN files :
       files[p] \in [num : 0 .. uploads, size : Sizes \cup {0}]
  /\ \A c \in Clients :
       /\ reply[c].status \in {0, 200, 206, 404, 416, 500}
       /\ client[c].got \in Nat
       /\ client[c].nums \subseteq 0 .. uploads

(* A file whose upload was answered 200 stays in the table, replaced at     *)
(* most by a later upload of its name, through crashes and restarts, unless *)
(* the process died while Storage had storage.data truncated or after       *)
(* Storage had failed.                                                      *)
AckedSurvives ==
  pc = "idle" =>
    \A s \in stored : s.num \in acked \ lost =>
      /\ s.info.name \in DOMAIN table
      /\ \E t \in stored : t.num >= s.num /\ t.info = table[s.info.name]

(* Between requests the file of an entry is there, with the size and the    *)
(* content it was recorded with: downloads of a deep file write and remove  *)
(* low files, and never one that an entry names.  Not of a path whose       *)
(* writing failed or was cut short by a crash (suspect).                    *)
TableBacked ==
  pc = "idle" =>
    \A n \in DOMAIN table :
      LET info == table[n]
          p == <<info.dir, n>>
      IN p \notin suspect =>
           /\ p \in DOMAIN files
           /\ FileSize(p) = info.fsize
           /\ \E s \in stored : s.info = info /\ s.num = files[p].num

(* Two uploads that one tag stands for: same name, recorded size and second. *)
SameTag(s, t) ==
  s.num # t.num /\ [s.info EXCEPT !.dir = t.info.dir] = t.info

Ambiguous(n) == \E s, t \in stored : SameTag(s, t) /\ s.info.name = n

(* The client has all the bytes of one upload, and no other.                *)
HasVersion(c, s) ==
  /\ client[c].tag.name = s.info.name
  /\ client[c].nums = {s.num}
  /\ client[c].got = s.size

(* A download sees every upload that was answered before it: whoever asks   *)
(* for its name gets this upload or a later one, through changes of the     *)
(* kind of storage and restarts, or is told (416) that there is nothing     *)
(* left to send because he has this upload or a later one, whole.  While no *)
(* call fails; not of a suspect file or one that could not be decompressed; *)
(* and a 416 says nothing to a client whose copy is excused (see below) or  *)
(* holds a tag that two uploads had.                                        *)
ServesLatest ==
  [][\A s \in stored :
       /\ pc = "serve" /\ pc' = "idle" /\ faults' = faults
       /\ s.num \in acked \ lost /\ s.info.name = req.name
       /\ ~req.excused /\ <<table[req.name].dir, req.name>> \notin suspect
       => LET c == req.client
              r == reply'[c]
          IN  \/ r.status \in {200, 206} /\ r.num >= s.num
              \/ /\ r.status = 416
                 /\ \/ client[c].excused \/ Ambiguous(req.name)
                    \/ \E t \in stored : t.num >= s.num /\ HasVersion(c, t)]_vars

(* The body of a reply is the content of an upload that has the reply's     *)
(* ETag, although the body comes from a file under the low path that other  *)
(* uploads and downloads write, and the tag from the table.  A reply is     *)
(* excused, and only then may it be otherwise: when the entry's file is     *)
(* suspect (its writing failed or was cut short), when it could not be      *)
(* decompressed, when evbuffer_add_file failed and a 200 went out empty, or *)
(* when the file is written again while the reply is being sent from it.    *)
TagMatchesBody ==
  \A c \in Clients :
    reply[c].status \in {200, 206} /\ ~reply[c].excused =>
      \E s \in stored : s.num = reply[c].num /\ GetETag(s.info) = reply[c].tag

(* A client that has a whole file, resumed any number of times across new   *)
(* uploads, restarts and changes of the kind of storage, has the bytes of   *)
(* one upload and all of them.  Unless two uploads had the tag, or the copy *)
(* is excused: it was begun or went on with an excused reply (suspect file, *)
(* failed decompression, failed evbuffer_add_file, file written again while *)
(* being sent).                                                             *)
CompleteIsVersion ==
  \A c \in Clients :
    client[c].tag # NoTag /\ client[c].got = client[c].total /\ ~client[c].excused =>
      (\E s \in stored : HasVersion(c, s)) \/ Ambiguous(client[c].tag.name)

(* What Download says of a file that does not exist: 404.                   *)
MissingIs404 ==
  \A c \in Clients :
    reply[c] # NoReply /\ ~reply[c].known => reply[c].status = 404
=============================================================================
