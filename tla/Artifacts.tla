------------------------------ MODULE Artifacts ------------------------------
(***************************************************************************)
(* The artifact store: internal/artifact/store.go (files under the data    *)
(* directory), internal/artifact/s3.go (an S3-compatible bucket), and the  *)
(* artifact handlers of internal/api/mlflow/handlers.go.                   *)
(*                                                                         *)
(* A path is a sequence of name parts, so that a directory is a prefix of  *)
(* what is in it and a name can be a prefix of its sibling's.  Contents    *)
(* are sequences of units, each labelled with the upload that sent it.     *)
(* Every system call and every HTTP request is a step; a request to the    *)
(* bucket can be carried out, fail, or be carried out and lose its answer. *)
(* Paths arrive cleaned: absoluteFor and cleanRelPath leave them alone.    *)
(***************************************************************************)
EXTENDS Naturals, Sequences, FiniteSets, SequencesExt, FiniteSetsExt

CONSTANTS
  Order,      \* the artifacts there can be, <<run>> \o <<"/">> \o path, in key order
  Old,        \* the artifacts there are at the start
  Requests,   \* the calls clients may make: [op, path, size]
  Configs,    \* the settings the server may start with: [backend, threshold, max]
  Procs,      \* request goroutines, numbered
  PageSize,   \* keys in one answer of ListObjectsV2
  Exclusive,  \* clients do not upload a path while they are uploading it
  Absent,     \* no content
  MaxOps      \* bound: requests issued in a behaviour

Keys == ToSet(Order)

ASSUME ArtifactsConstants ==
  /\ Old \subseteq Keys
  /\ \A q \in Requests : q.op \in {"upload", "get", "delete", "list"} /\ q.size \in Nat
  /\ \A c \in Configs : /\ c.backend \in {"fs", "s3"}
                        /\ c.threshold \in Nat \ {0} /\ c.max \in Nat \ {0}
  /\ Procs \subseteq Nat /\ PageSize \in Nat \ {0} /\ Exclusive \in BOOLEAN /\ MaxOps \in Nat

VARIABLES
  conf,     \* the settings of this server
  files,    \* fs: the inode of each name
  disk,     \* fs: the names as they are on the disk
  inodes,   \* fs: what the inodes hold, and whether that is on the disk
  objects,  \* s3: the bucket
  parts,    \* s3: multipart uploads in progress in the bucket
  req,      \* the request each goroutine is serving
  acks,     \* history: requests answered with success that nothing has interfered with
  orphans,  \* history: multipart uploads whose abort or initiation went wrong, and
            \* temporary files a crash has left
  steady,   \* history: the artifacts that were there all the time a listing ran
  ops       \* requests issued so far

store == <<files, disk, inodes, objects, parts>>
vars == <<conf, files, disk, inodes, objects, parts, req, acks, orphans, steady, ops>>

\* A name in the file system: an artifact, or the temporary file of its upload.
FileNames == Keys \X {"file", "part"}

Idle == [pc |-> "idle", op |-> "none", path |-> <<>>, id |-> 0, size |-> 0, off |-> 0, ino |-> 0,
         todo |-> <<>>, got |-> Absent, alone |-> FALSE, res |-> "none"]

\* What upload id sends: n units, each with the id and n.
Data(id, n) == [i \in 1 .. n |-> <<id, n>>]

\* The old artifacts are of size 1, uploaded before by "upload 0".
Init ==
  /\ conf \in Configs
  /\ files = [n \in FileNames |-> IF n[2] = "file" /\ n[1] \in Old /\ conf.backend = "fs"
                                 THEN CHOOSE i \in DOMAIN Order : Order[i] = n[1] ELSE 0]
  /\ disk = files
  /\ inodes = [i \in DOMAIN Order |-> [data |-> Data(0, 1), synced |-> TRUE]]
  /\ objects = [k \in Keys |-> IF k \in Old /\ conf.backend = "s3" THEN Data(0, 1) ELSE Absent]
  /\ parts = {}
  /\ req = [p \in Procs |-> Idle]
  /\ acks = {[op |-> "upload", path |-> k, id |-> 0, size |-> 1] : k \in Old}
  /\ orphans = {} /\ steady = [p \in Procs |-> {}] /\ ops = 0

OnDisk == conf.backend = "fs"

\* The content of an artifact.
Stored(k) == IF OnDisk
             THEN IF files[<<k, "file">>] = 0 THEN Absent ELSE inodes[files[<<k, "file">>]].data
             ELSE objects[k]
Present == {k \in Keys : Stored(k) # Absent}

\* k is the artifact path, or is in the directory path.
Within(path, k) == k = path \/ IsPrefix(path \o <<"/">>, k)
Related(a, b) == Within(a, b) \/ Within(b, a)

Active(p) == req[p].pc \notin {"idle", "done"}
Mutates(op) == op \in {"upload", "delete"}

-----------------------------------------------------------------------------
(* Handlers.                                                                *)

\* artifactsRouter and ListArtifacts: the run is looked up, then one call of the
\* store.  An upload that names the run itself is ErrInvalidPath.  The goroutines are
\* alike: the first free one is taken.
Arrive(p, q) ==
  LET rivals == {o \in Procs : Active(o) /\ Mutates(req[o].op) /\ Related(q.path, req[o].path)}
  IN /\ ~Active(p) /\ \A o \in Procs : o < p => Active(o)
     /\ ops < MaxOps
     /\ ops' = ops + 1
     /\ (Exclusive /\ OnDisk /\ q.op = "upload") =>
           \A o \in Procs : ~(Active(o) /\ req[o].op = "upload" /\ req[o].path = q.path)
     /\ IF q.op = "upload" /\ q.path \notin Keys
        THEN /\ req' = [req EXCEPT ![p] = [Idle EXCEPT !.pc = "done", !.res = "invalid"]]
             /\ UNCHANGED acks
        ELSE /\ req' = [o \in Procs |->
                  IF o = p
                  THEN [Idle EXCEPT !.pc = "begin", !.op = q.op, !.path = q.path, !.size = q.size,
                                    !.id = ops + 1, !.alone = (rivals = {})]
                  ELSE [req[o] EXCEPT !.alone = @ /\ ~(Mutates(q.op) /\ o \in rivals)]]
             /\ acks' = {a \in acks : ~(Mutates(q.op) /\ Related(a.path, q.path))}
     /\ UNCHANGED <<conf, orphans>> /\ UNCHANGED store

At(p, op, pc) == req[p].op = op /\ req[p].pc = pc

\* The return of the store's method.
Ack(p) == [op |-> req[p].op, path |-> req[p].path, id |-> req[p].id, size |-> req[p].size]
Return(p, res) ==
  /\ req' = [req EXCEPT ![p] = [@ EXCEPT !.pc = "done", !.res = res]]
  /\ acks' = IF res = "ok" /\ req[p].alone /\ Mutates(req[p].op) THEN acks \cup {Ack(p)} ELSE acks
  /\ UNCHANGED <<conf, orphans, ops>>
Goto(p, pc) ==
  /\ req' = [req EXCEPT ![p].pc = pc]
  /\ UNCHANGED <<conf, acks, orphans, ops>>

-----------------------------------------------------------------------------
(* FilesystemStore.                                                         *)

Bytes == UNCHANGED <<disk, objects, parts>>

Part(p) == <<req[p].path, "part">>

\* OpenFile(abs + ".part", O_CREATE | O_TRUNC): uploads of one path share the file.
FsOpen(p) ==
  LET old == files[Part(p)]
      new == [data |-> <<>>, synced |-> FALSE]
      ino == IF old = 0 THEN Len(inodes) + 1 ELSE old
  IN /\ OnDisk /\ At(p, "upload", "begin")
     /\ files' = [files EXCEPT ![Part(p)] = ino]
     /\ inodes' = IF old = 0 THEN Append(inodes, new) ELSE [inodes EXCEPT ![old] = new]
     /\ req' = [req EXCEPT ![p].pc = "copy", ![p].ino = ino]
     /\ Bytes /\ UNCHANGED <<conf, acks, orphans, ops>>

\* LimitReader(r, maxSize + 1).
Limited(p) == Min({req[p].size, conf.max + 1})

\* One write at the offset of this file handle; a gap before it reads as zeros.
FsCopy(p) ==
  LET data == inodes[req[p].ino].data
      off == req[p].off
  IN /\ OnDisk /\ At(p, "upload", "copy") /\ off < Limited(p)
     /\ inodes' = [inodes EXCEPT ![req[p].ino] =
          [data |-> [i \in 1 .. Max({Len(data), off + 1}) |->
                       IF i = off + 1 THEN <<req[p].id, req[p].size>> ELSE IF i <= Len(data) THEN data[i] ELSE Absent],
           synced |-> FALSE]]
     /\ req' = [req EXCEPT ![p].off = off + 1]
     /\ Bytes /\ UNCHANGED <<files, conf, acks, orphans, ops>>

\* Without the fsync.
FsClose(p) ==
  /\ OnDisk /\ At(p, "upload", "copy") /\ req[p].off = Limited(p)
  /\ req' = [req EXCEPT ![p].pc = IF req[p].off > conf.max THEN "cleanup" ELSE "rename",
                        ![p].res = IF req[p].off > conf.max THEN "toobig" ELSE @]
  /\ Bytes /\ UNCHANGED <<files, inodes, conf, acks, orphans, ops>>

\* The size check, out.Sync and out.Close.
FsSync(p) ==
  /\ OnDisk /\ At(p, "upload", "copy") /\ req[p].off = Limited(p)
  /\ IF req[p].off > conf.max
     THEN /\ req' = [req EXCEPT ![p].pc = "cleanup", ![p].res = "toobig"]
          /\ UNCHANGED inodes
     ELSE /\ req' = [req EXCEPT ![p].pc = "rename"]
          /\ inodes' = [inodes EXCEPT ![req[p].ino].synced = TRUE]
  /\ Bytes /\ UNCHANGED <<files, conf, acks, orphans, ops>>

\* os.Rename: the name of the temporary file may have gone, or be another's.
FsRename(p) ==
  /\ OnDisk /\ At(p, "upload", "rename")
  /\ \/ /\ files[Part(p)] # 0
        /\ files' = [files EXCEPT ![<<req[p].path, "file">>] = files[Part(p)], ![Part(p)] = 0]
        /\ req' = [req EXCEPT ![p].pc = "cleanup", ![p].res = "ok"]
     \/ /\ files[Part(p)] = 0
        /\ req' = [req EXCEPT ![p].pc = "cleanup", ![p].res = "error"]
        /\ UNCHANGED files
  /\ Bytes /\ UNCHANGED <<inodes, conf, acks, orphans, ops>>

\* The deferred os.Remove of the temporary name.
FsCleanup(p) ==
  /\ OnDisk /\ At(p, "upload", "cleanup")
  /\ files' = [files EXCEPT ![Part(p)] = 0]
  /\ Return(p, req[p].res)
  /\ Bytes /\ UNCHANGED inodes

\* Any other error of a system call, or the client's connection breaks.
FsFail(p) ==
  /\ OnDisk
  /\ \/ /\ At(p, "upload", "copy") \/ At(p, "upload", "rename")
        /\ req' = [req EXCEPT ![p].pc = "cleanup", ![p].res = "error"]
        /\ UNCHANGED <<conf, acks, orphans, ops>>
     \/ /\ At(p, "upload", "begin") \/ (req[p].op # "upload" /\ Active(p))
        /\ Return(p, "error")
  /\ UNCHANGED store

\* Open: os.Stat by name, then os.Open by name, then the handler copies.
FsStat(p) ==
  /\ OnDisk /\ At(p, "get", "begin")
  /\ IF req[p].path \in Present THEN Goto(p, "open") ELSE Return(p, "notfound")
  /\ UNCHANGED store
FsOpenToRead(p) ==
  LET ino == IF req[p].path \in Keys THEN files[<<req[p].path, "file">>] ELSE 0
  IN /\ OnDisk /\ At(p, "get", "open")
     /\ IF ino = 0 THEN Return(p, "error")
        ELSE /\ req' = [req EXCEPT ![p].pc = "send", ![p].ino = ino]
             /\ UNCHANGED <<conf, acks, orphans, ops>>
     /\ UNCHANGED store
FsSend(p) ==
  /\ OnDisk /\ At(p, "get", "send")
  /\ req' = [req EXCEPT ![p].pc = "done", ![p].res = "ok", ![p].got = inodes[req[p].ino].data]
  /\ UNCHANGED <<conf, acks, orphans, ops>> /\ UNCHANGED store

\* Delete: os.Stat, then os.RemoveAll, which removes name after name.
Below(path) == {n \in FileNames : /\ files[n] # 0
                                  /\ \/ n = <<path, "file">>
                                     \/ IsPrefix(path \o <<"/">>, n[1])}
FsDeleteStat(p) ==
  /\ OnDisk /\ At(p, "delete", "begin")
  /\ IF Below(req[p].path) = {} THEN Return(p, "notfound") ELSE Goto(p, "remove")
  /\ UNCHANGED store
FsRemoveAll(p) ==
  /\ OnDisk /\ At(p, "delete", "remove")
  /\ \/ \E n \in Below(req[p].path) : /\ files' = [files EXCEPT ![n] = 0]
                                      /\ UNCHANGED <<req, acks, orphans, ops, conf>>
     \/ /\ Below(req[p].path) = {}
        /\ Return(p, "ok")
        /\ UNCHANGED files
  /\ Bytes /\ UNCHANGED inodes

\* The entry of directory path that key k shows up as: k, or the subdirectory it is in.
Entry(path, k) ==
  LET cuts == {i \in Len(path) + 2 .. Len(k) : k[i] = "/"}
  IN IF cuts = {} THEN k ELSE SubSeq(k, 1, Min(cuts))
Entries(path, ks) == {Entry(path, k) : k \in {j \in ks : IsPrefix(path \o <<"/">>, j)}}

\* List: one os.ReadDir, or the file itself.
FsList(p) ==
  /\ OnDisk /\ At(p, "list", "begin")
  /\ req' = [req EXCEPT ![p].pc = "done", ![p].res = "ok",
                        ![p].got = Entries(req[p].path, Present) \cup (Present \cap {req[p].path})]
  /\ UNCHANGED <<conf, acks, orphans, ops>> /\ UNCHANGED store

\* The disk catches up with the names.
Flush ==
  /\ OnDisk /\ disk # files
  /\ disk' = files
  /\ UNCHANGED <<conf, files, inodes, objects, parts, req, acks, orphans, ops>>

-----------------------------------------------------------------------------
(* S3Store.                                                                 *)

Bucket == UNCHANGED <<files, disk, inodes>>

\* The body is read up to one unit past a part, then to one past the limit.
S3Read(p) ==
  LET first == Min({conf.threshold, conf.max})
      n == Min({req[p].size, first + 1})
      total == n + Min({req[p].size - n, conf.max + 1 - n})
  IN /\ ~OnDisk /\ At(p, "upload", "begin")
     /\ CASE n > conf.max -> Return(p, "toobig")
          [] n <= conf.max /\ n <= conf.threshold -> Goto(p, "put")
          [] OTHER -> IF total > conf.max THEN Return(p, "toobig") ELSE Goto(p, "initiate")
     /\ UNCHANGED store

\* What can become of a request to the bucket.
Outcomes == {"ok", "lost", "fail"}

S3Put(p) ==
  /\ ~OnDisk /\ At(p, "upload", "put")
  /\ \E o \in Outcomes :
       /\ objects' = IF o = "fail" THEN objects
                     ELSE [objects EXCEPT ![req[p].path] = Data(req[p].id, req[p].size)]
       /\ Return(p, IF o = "ok" THEN "ok" ELSE "error")
  /\ Bucket /\ UNCHANGED parts

\* CreateMultipartUpload; an answer that is lost takes the upload's id with it.
InitiateMultipart(p) ==
  /\ ~OnDisk /\ At(p, "upload", "initiate")
  /\ \E o \in Outcomes :
       /\ parts' = IF o = "fail" THEN parts ELSE parts \cup {[id |-> req[p].id, sent |-> <<>>]}
       /\ IF o = "ok" THEN Goto(p, "parts")
          ELSE /\ req' = [req EXCEPT ![p].pc = "done", ![p].res = "error"]
               /\ orphans' = IF o = "lost" THEN orphans \cup {req[p].id} ELSE orphans
               /\ UNCHANGED <<conf, acks, ops>>
  /\ Bucket /\ UNCHANGED objects

\* One iteration of the loop of uploadMultipart.
UploadPart(p) ==
  LET end == Min({req[p].off + conf.threshold, req[p].size})
      mine == {x \in parts : x.id = req[p].id}
  IN /\ ~OnDisk /\ At(p, "upload", "parts") /\ req[p].off < req[p].size
     /\ \E o \in Outcomes :
          /\ parts' = IF o = "fail" THEN parts
                      ELSE (parts \ mine) \cup {[x EXCEPT !.sent = Append(@, end - req[p].off)] : x \in mine}
          /\ req' = [req EXCEPT ![p].off = IF o = "ok" THEN end ELSE @,
                                ![p].pc = IF o = "ok" THEN @ ELSE "abort"]
     /\ UNCHANGED <<conf, acks, orphans, ops>>
     /\ Bucket /\ UNCHANGED objects

\* CompleteMultipartUpload makes the object out of the parts.  A 200 is taken for what the
\* code takes it for, a completed upload, whatever its body says.
CompleteMultipart(p) ==
  LET mine == {x \in parts : x.id = req[p].id}
      units(x) == FoldLeft(LAMBDA a, b : a + b, 0, x.sent)
  IN /\ ~OnDisk /\ At(p, "upload", "parts") /\ req[p].off = req[p].size
     /\ \E o \in Outcomes :
          /\ IF o = "fail" THEN UNCHANGED <<objects, parts>>
             ELSE /\ objects' = [objects EXCEPT ![req[p].path] =
                                   Data(req[p].id, units(CHOOSE x \in mine : TRUE))]
                  /\ parts' = parts \ mine
          /\ IF o = "ok" THEN Return(p, "ok") ELSE Goto(p, "abort")
     /\ Bucket

\* Leaves the parts in the bucket.
NoAbort(p) ==
  /\ ~OnDisk /\ At(p, "upload", "abort")
  /\ Return(p, "error")
  /\ Bucket /\ UNCHANGED <<objects, parts>>

\* Best effort: the outcome of the abort is ignored.
AbortMultipart(p) ==
  /\ ~OnDisk /\ At(p, "upload", "abort")
  /\ \E o \in Outcomes :
       /\ parts' = IF o = "fail" THEN parts ELSE {x \in parts : x.id # req[p].id}
       /\ orphans' = IF o = "fail" THEN orphans \cup {req[p].id} ELSE orphans
  /\ req' = [req EXCEPT ![p].pc = "done", ![p].res = "error"]
  /\ Bucket /\ UNCHANGED <<objects, conf, acks, ops>>

S3Open(p) ==
  /\ ~OnDisk /\ At(p, "get", "begin")
  /\ \/ /\ req[p].path \in Present
        /\ req' = [req EXCEPT ![p].pc = "done", ![p].res = "ok", ![p].got = Stored(req[p].path)]
        /\ UNCHANGED <<conf, acks, orphans, ops>>
     \/ req[p].path \notin Present /\ Return(p, "notfound")
     \/ Return(p, "error")
  /\ UNCHANGED store

Position(k) == CHOOSE i \in DOMAIN Order : Order[i] = k
Sorted(ks) == SetToSortSeq(ks, LAMBDA a, b : Position(a) < Position(b))

\* ListObjectsV2: the next keys with a prefix, in key order, after the last one seen.
ListPage(prefix, seen) ==
  LET rest == {k \in Present : IsPrefix(prefix, k) /\ (seen # 0 => Position(k) > seen)}
  IN SubSeq(Sorted(rest), 1, Min({PageSize, Cardinality(rest)}))

\* Takes what the listing found, siblings included.
S3DeleteListed(p) ==
  LET page == ListPage(req[p].path, req[p].off)
      found == req[p].todo \o page
  IN /\ ~OnDisk /\ At(p, "delete", "begin")
     /\ IF page # <<>>
        THEN /\ req' = [req EXCEPT ![p].todo = found, ![p].off = Position(Last(page))]
             /\ UNCHANGED <<conf, acks, orphans, ops>>
        ELSE IF found = <<>> THEN Return(p, "notfound") ELSE Goto(p, "remove")
     /\ UNCHANGED store

\* listAllKeys with the bare path as prefix: "a" also finds "a.bak".
S3DeleteList(p) ==
  LET page == ListPage(req[p].path, req[p].off)
      found == req[p].todo \o SelectSeq(page, LAMBDA k : Within(req[p].path, k))
  IN /\ ~OnDisk /\ At(p, "delete", "begin")
     /\ \/ /\ page # <<>>
           /\ req' = [req EXCEPT ![p].todo = found, ![p].off = Position(Last(page))]
           /\ UNCHANGED <<conf, acks, orphans, ops>>
        \/ page = <<>> /\ (IF found = <<>> THEN Return(p, "notfound") ELSE Goto(p, "remove"))
        \/ Return(p, "error")
     /\ UNCHANGED store

\* deleteObject for each target; an object that has gone is no error.
S3DeleteObject(p) ==
  /\ ~OnDisk /\ At(p, "delete", "remove")
  /\ \/ /\ req[p].todo # <<>>
        /\ \E o \in Outcomes :
             /\ objects' = IF o = "fail" THEN objects
                           ELSE [objects EXCEPT ![Head(req[p].todo)] = Absent]
             /\ IF o = "ok" THEN /\ req' = [req EXCEPT ![p].todo = Tail(@)]
                                 /\ UNCHANGED <<conf, acks, orphans, ops>>
                ELSE Return(p, "error")
     \/ req[p].todo = <<>> /\ Return(p, "ok") /\ UNCHANGED objects
  /\ Bucket /\ UNCHANGED parts

\* List: pages with delimiter "/", collapsed into entries.
S3List(p) ==
  LET dir == req[p].path \o <<"/">>
      page == ListPage(dir, req[p].off)
      sofar == IF req[p].got = Absent THEN {} ELSE req[p].got
  IN /\ ~OnDisk /\ At(p, "list", "begin")
     /\ \/ /\ req' = [req EXCEPT ![p] =
               IF page = <<>> THEN [@ EXCEPT !.pc = "done", !.res = "ok", !.got = sofar]
               ELSE [@ EXCEPT !.off = Position(Last(page)), !.got = sofar \cup Entries(req[p].path, ToSet(page))]]
           /\ UNCHANGED <<conf, acks, orphans, ops>>
        \/ Return(p, "error")
     /\ UNCHANGED store

-----------------------------------------------------------------------------
(* The server process dies; or the machine loses power, and with it what    *)
(* was not on the disk: contents not synced (zeros are left), names not     *)
(* flushed (but a rename is on the disk as a whole or not at all).          *)

Restarted ==
  /\ req' = [p \in Procs |-> Idle]
  /\ orphans' = orphans \cup {x.id : x \in parts}
                        \cup {f[<<k, "part">>] : f \in {files, disk}, k \in Keys}

Crash ==
  /\ Restarted
  /\ UNCHANGED <<conf, acks, ops>> /\ UNCHANGED store

PowerLoss ==
  /\ OnDisk
  /\ Restarted
  /\ \E kept \in SUBSET {n[1] : n \in {m \in FileNames : files[m] # disk[m]}} :
       files' = [n \in FileNames |-> IF n[1] \in kept THEN files[n] ELSE disk[n]]
  /\ inodes' = [i \in DOMAIN inodes |-> IF inodes[i].synced THEN inodes[i]
                                        ELSE [data |-> [u \in DOMAIN inodes[i].data |-> Absent], synced |-> TRUE]]
  /\ disk' = files'
  /\ acks' = {}
  /\ UNCHANGED <<conf, objects, parts, ops>>

-----------------------------------------------------------------------------
Step(p) ==
  \/ FsOpen(p) \/ FsCopy(p) \/ FsSync(p) \/ FsRename(p) \/ FsCleanup(p)
  \/ FsStat(p) \/ FsOpenToRead(p) \/ FsSend(p) \/ FsDeleteStat(p) \/ FsRemoveAll(p) \/ FsList(p)
  \/ S3Read(p) \/ S3Put(p) \/ InitiateMultipart(p) \/ UploadPart(p) \/ CompleteMultipart(p)
  \/ AbortMultipart(p) \/ S3Open(p) \/ S3DeleteList(p) \/ S3DeleteObject(p) \/ S3List(p)

\* What a listing could have shown all the time it ran.
Listing(p) == req[p].op = "list" /\ Active(p)
Watch ==
  steady' = [p \in Procs |-> CASE Listing(p) -> steady[p] \cap Present'
                               [] ~Listing(p) /\ Listing(p)' -> Present'
                               [] OTHER -> IF req'[p] = req[p] THEN steady[p] ELSE {}]

Next ==
  /\ \/ \E p \in Procs : (\E q \in Requests : Arrive(p, q)) \/ Step(p) \/ FsFail(p)
     \/ Flush \/ Crash \/ PowerLoss
  /\ Watch

Spec == Init /\ [][Next]_vars

-----------------------------------------------------------------------------
(* Properties.                                                              *)

\* data is all of what one upload sent.
Whole(data) == \E id \in 0 .. MaxOps : \E n \in {1} \cup {q.size : q \in Requests} : data = Data(id, n)

\* An artifact holds everything one upload sent and nothing of another, also after
\* a crash and after a power failure (temporary file, fsync, rename; multipart
\* uploads under ids of their own), and so does whatever a reader is sent.
WholeArtifacts ==
  /\ \A k \in Present : Whole(Stored(k))
  /\ \A p \in Procs : req[p].op = "get" /\ req[p].res = "ok" => Whole(req[p].got)

\* What clients were told is so.  An upload has left its content under its path, a delete
\* has left nothing at its path or below it - and neither has touched anything else -
\* until a request for the same path or directory follows.  A listing shows every
\* artifact that was there all the time it ran.  An upload is refused as too big just
\* when it is over the limit, whichever of the limit and the part size is larger.
AnswersTrue ==
  /\ \A a \in acks :
       /\ a.op = "upload" => Stored(a.path) = Data(a.id, a.size)
       /\ a.op = "delete" => \A k \in Present : ~Within(a.path, k)
  /\ \A p \in Procs :
       /\ req[p].op = "list" /\ req[p].res = "ok" => Entries(req[p].path, steady[p]) \subseteq req[p].got
       /\ req[p].op = "upload" =>
            /\ req[p].res = "ok" => req[p].size <= conf.max
            /\ req[p].res = "toobig" => req[p].size > conf.max

\* When no upload is running, no temporary file is left behind (unless the server
\* died), and no multipart upload but those whose abort or initiation failed
\* ("AbortMultipartUpload is called so that S3 does not retain orphaned parts").
NoLeftovers ==
  (\A p \in Procs : req[p].op = "upload" => ~Active(p)) =>
    /\ {x.id : x \in parts} \subseteq orphans
    /\ \A k \in Keys : files[<<k, "part">>] # 0 => files[<<k, "part">>] \in orphans
=============================================================================
