--------------------------------- MODULE Kssfs ---------------------------------
(***************************************************************************)
(* The tools for KSSFS images: tools/format.c, which makes an image of     *)
(* files of the host, and tools/kssfs_fuse.c, which mounts one.  The mount *)
(* tool has one buffer for clusters that all its requests share; each      *)
(* request is one step, as with the option -s of fuse_main.                *)
(*                                                                         *)
(* A file name is a sequence: <<n>> as the tools store it and <<"/", n>>   *)
(* for the path FUSE passes, or for a host file named by an absolute path. *)
(* Data are DataSize bytes per cluster, 7680 in the code.                  *)
(***************************************************************************)
EXTENDS Integers, Sequences, FiniteSets, FiniteSetsExt

CONSTANTS cluster_n,  \* number of clusters in the header, 256 in the code
          DataSize,   \* bytes of data in a cluster
          Bytes,      \* values of a byte, 0 among them
          Names,      \* names in the directory
          HostFiles,  \* the clusters that host files make
          Skipped,    \* a file on the command line that is unreadable or too large
          MaxOpen     \* bound on the files open at a time

ASSUME KssfsAssumption ==
    /\ cluster_n \in Nat \ {0} /\ DataSize \in Nat \ {0} /\ MaxOpen \in Nat
    /\ 0 \in Bytes
    /\ Skipped \notin HostFiles

KSSFS_CLSTR_FREE == 0
KSSFS_CLSTR_COM == 1
KSSFS_CLSTR_DATA == 2
KSSFS_SIGNATURE == 3  \* 0x37019626: all that matters is that it is not 0

Offsets == 0 .. DataSize - 1
Clusters == 0 .. cluster_n - 1

kssfs_clstr_hdr(type, name, len, data) ==
    [type |-> type, name |-> name, len |-> len, data |-> data]
Blank == kssfs_clstr_hdr(KSSFS_CLSTR_FREE, <<>>, 0, [k \in Offsets |-> 0])

Path(n) == <<"/", n>>
Inner(path) == Tail(path)  \* path + 1

VARIABLES disk,      \* the clusters of the image file
          buf,       \* the buffer
          handles,   \* the open files: path and number of the cluster in fi->fh
          content,   \* history: the data written to each name, <<>> where there is no file
          undefined  \* a write has gone past the end of the buffer
vars == <<disk, buf, handles, content, undefined>>
-----------------------------------------------------------------------------
(* Clusters.  fread leaves the buffer as it is past the end of the image,  *)
(* so a loop over all clusters sees the last one again there.              *)

kssfs_read_cluster(i) == IF i < Len(disk) THEN disk[i + 1] ELSE buf

Seen(i) == IF i < Len(disk) \/ disk = <<>> THEN kssfs_read_cluster(i) ELSE disk[Len(disk)]

kssfs_write_cluster(i, b) ==
    disk' = [k \in 1 .. Max({Len(disk), i + 1}) |->
                CASE k = i + 1 -> b
                  [] k # i + 1 /\ k <= Len(disk) -> disk[k]
                  [] OTHER -> Blank]

\* The first cluster in S, cluster_n when there is none.
First(S) == Min(S \cup {cluster_n})

\* What a loop that ends at cluster i leaves in the buffer.
Left(i) == Seen(Min({i, cluster_n - 1}))

Used(i) == Seen(i).type # KSSFS_CLSTR_FREE

\* The clusters that the loops of kssfs_getattr and of kssfs_open stop at.
Named(path) == {i \in Clusters : Seen(i).name = Inner(path)}
Open(path) == {i \in Named(path) : Used(i)}
-----------------------------------------------------------------------------
(* mkfs.kssfs: the files that are not skipped, then a blank cluster for    *)
(* each of the 256 that has no file on the command line.                   *)

mkfs(files) ==
    SelectSeq(files, LAMBDA f : f # Skipped) \o [k \in 1 .. cluster_n - Len(files) |-> Blank]

KssfsInit ==
    /\ \E n \in 0 .. cluster_n : \E files \in [1 .. n -> HostFiles \cup {Skipped}] :
         disk = mkfs(files)
    \* kssfs_checkdisk leaves the header in the buffer.
    /\ buf = [Blank EXCEPT !.type = KSSFS_SIGNATURE]
    /\ handles = {}
    /\ content = [n \in Names |-> IF Open(Path(n)) = {} THEN <<>>
                                  ELSE Seen(First(Open(Path(n)))).data]
    /\ undefined = FALSE
-----------------------------------------------------------------------------
(* Requests. *)

\* Also kssfs_fgetattr.
kssfs_getattr(n) ==
    /\ buf' = Left(First(Named(Path(n))))
    /\ UNCHANGED <<disk, handles, content, undefined>>

kssfs_readdir ==
    /\ buf' = Left(cluster_n)
    /\ UNCHANGED <<disk, handles, content, undefined>>

\* A loop over the clusters, by which n gets the first free one.
Take(n) ==
    LET i == First({k \in Clusters : ~Used(k)})
        b == [Seen(i) EXCEPT !.type = KSSFS_CLSTR_COM, !.name = Inner(Path(n))]
    IN  IF i = cluster_n
        THEN buf' = Left(i) /\ UNCHANGED <<disk, handles, content>>  \* -ENOSPC
        ELSE /\ buf' = b
             /\ kssfs_write_cluster(i, b)
             /\ handles' = handles \cup {[path |-> Path(n), fh |-> i]}
             /\ content' = [content EXCEPT ![n] = [k \in Offsets |-> 0]]

\* FUSE asks for a new file when kssfs_getattr has not found its name.
kssfs_create(n) ==
    /\ Cardinality(handles) < MaxOpen
    /\ Named(Path(n)) = {}
    /\ Take(n)
    /\ UNCHANGED undefined

kssfs_open(n) ==
    /\ Cardinality(handles) < MaxOpen
    /\ LET i == First(Open(Path(n)))
       IN  IF i < cluster_n
           THEN /\ buf' = Left(i)
                /\ handles' = handles \cup {[path |-> Path(n), fh |-> i]}
                /\ UNCHANGED <<disk, content>>
           ELSE Take(n)
    /\ UNCHANGED undefined

kssfs_read(h) ==
    /\ buf' = kssfs_read_cluster(h.fh)
    /\ UNCHANGED <<disk, handles, content, undefined>>

Put(data, offset, size, v) ==
    [k \in Offsets |-> IF k \in offset .. offset + size - 1 THEN v ELSE data[k]]

\* The buffer as the last request left it.
kssfs_writeStale(h, offset, size, v) ==
    LET c == buf
        b == [c EXCEPT !.data = Put(c.data, offset, size, v), !.len = offset + size]
        n == Inner(h.path)[1]
    IN  IF offset + size > DataSize
        THEN undefined' = TRUE /\ UNCHANGED <<disk, buf, handles, content>>
        ELSE /\ buf' = b
             /\ kssfs_write_cluster(h.fh, b)
             /\ content' = [content EXCEPT ![n] = Put(content[n], offset, size, v)]
             /\ UNCHANGED <<handles, undefined>>

\* Nothing is said of what follows a copy past the end of the buffer.
kssfs_write(h, offset, size, v) ==
    LET c == kssfs_read_cluster(h.fh)
        b == [c EXCEPT !.data = Put(c.data, offset, size, v), !.len = offset + size]
        n == Inner(h.path)[1]
    IN  IF offset + size > DataSize
        THEN undefined' = TRUE /\ UNCHANGED <<disk, buf, handles, content>>
        ELSE /\ buf' = b
             /\ kssfs_write_cluster(h.fh, b)
             /\ content' = [content EXCEPT ![n] = Put(content[n], offset, size, v)]
             /\ UNCHANGED <<handles, undefined>>

\* The comparison without the slash.
kssfs_unlinkInner(n) ==
    /\ Named(Path(n)) # {}
    /\ LET i == First({k \in Clusters : Used(k) /\ Seen(k).name = Inner(Path(n))})
       IN  IF i < cluster_n THEN buf' = Blank /\ kssfs_write_cluster(i, Blank)
                            ELSE buf' = Left(i) /\ UNCHANGED disk
    /\ UNCHANGED <<handles, content, undefined>>

\* The loop compares the whole path, with its slash.  FUSE has found the name.
kssfs_unlink(n) ==
    /\ Named(Path(n)) # {}
    /\ LET i == First({k \in Clusters : Used(k) /\ Seen(k).name = Path(n)})
       IN  IF i < cluster_n THEN buf' = Blank /\ kssfs_write_cluster(i, Blank)
                            ELSE buf' = Left(i) /\ UNCHANGED disk
    /\ UNCHANGED <<handles, content, undefined>>

\* The new name gets as far as the buffer.
kssfs_rename(from, to) ==
    /\ Named(Path(from)) # {}
    /\ LET i == First(Open(Path(from)))
       IN  buf' = IF i < cluster_n THEN [Seen(i) EXCEPT !.name = Inner(Path(to))] ELSE Left(i)
    /\ UNCHANGED <<disk, handles, content, undefined>>

kssfs_release(h) ==
    /\ handles' = handles \ {h}
    /\ UNCHANGED <<disk, buf, content, undefined>>

KssfsNext ==
    /\ ~undefined
    /\ \/ \E n \in Names : kssfs_getattr(n) \/ kssfs_create(n) \/ kssfs_open(n) \/ kssfs_unlink(n)
       \/ kssfs_readdir
       \/ \E from, to \in Names : kssfs_rename(from, to)
       \/ \E h \in handles : kssfs_read(h) \/ kssfs_release(h)
       \/ \E h \in handles, offset \in 0 .. DataSize, size \in 1 .. DataSize, v \in Bytes :
              kssfs_write(h, offset, size, v)

-----------------------------------------------------------------------------
(* Properties *)

\* What a name leads to is what was written to that name, by however many
\* handles and with whatever requests in between: the buffer shared by the
\* requests carries nothing from one file to another.
ContentKept ==
    \A n \in Names :
        LET i == First(Open(Path(n)))
        IN  content[n] = IF i < cluster_n THEN Seen(i).data ELSE <<>>

\* A cluster number that kssfs_open or kssfs_create has put in fi->fh is, until
\* kssfs_release, that of a cluster in the image which holds the file opened.
HandleKeepsFile ==
    \A h \in handles : /\ h.fh < Len(disk)
                       /\ Used(h.fh)
                       /\ disk[h.fh + 1].name = Inner(h.path)
=============================================================================
