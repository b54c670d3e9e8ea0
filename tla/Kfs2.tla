--------------------------------- MODULE Kfs2 ---------------------------------
(***************************************************************************)
(* The reader of KFS2 file systems, fs/kfs2.c.  A file is a chain of       *)
(* clusters; kfs2_read_byte walks the chain from its start for every byte  *)
(* of a cluster but the first one's.                                       *)
(***************************************************************************)
EXTENDS ClusterCache, FiniteSetsExt

CONSTANTS Kfs2Images,  \* the file systems on the disk
          FileNames, Ambiguous,  \* names; those which strncmp may take for different
          KFS2_MAX_FILES,  \* 16
          KFS2_DATA_SZ,    \* 7680
          Ranges,      \* what kfs2_read_byte is asked for: <<n, off>>
          Uninit       \* what an uninitialised LONG may hold

\* The header counts the clusters that are there.
ASSUME Kfs2Assumption ==
    /\ \A m \in Kfs2Images : /\ m.signature = "kfs2" /\ m.cluster_n \in Nat
                              /\ DOMAIN m.clusters = 1 .. m.cluster_n
    /\ KFS2_MAX_FILES \in Nat /\ KFS2_DATA_SZ \in Nat \ {0}
    /\ "" \notin FileNames

KFS2_TYPE_FILE == 1
KFS2_CLSTR_EOF == 0
ENOENT == "ENOENT"
EMFILE == "EMFILE"
Idle == [op |-> "idle"]
NotData == "header"  \* a byte from before the data

VARIABLES kfs2_image,
          kfs2,          \* kfs2_lba, kfs2_cluster_n, kfs2_cluster_index, kfs2_buf
          kfs2_handles, kfs2_err,
          call,          \* the call that is running, with its local variables
          opened,        \* history: the names a handle was returned for and not closed,
                         \* each with the ok of the search that found it
          last           \* history: the last call of kfs2_read_byte that ended

kfs2Vars == <<kfs2_image, kfs2, kfs2_handles, kfs2_err, call, opened, last>>

BlankCluster ==
    [s \in 0 .. KFS2_DATA_SZ |-> IF s = 0 THEN [type |-> 0, name |-> "", next |-> 0] ELSE 0]
Handles == 0 .. KFS2_MAX_FILES - 1
Closed == [flags |-> 0, startclstr |-> 0]

Kfs2Init ==
    /\ kfs2_image \in Kfs2Images
    /\ kfs2 = Unmounted(BlankCluster)
    /\ kfs2_handles = [h \in Handles |-> Closed]
    /\ kfs2_err = 0 /\ call = Idle
    /\ opened = [h \in Handles |-> <<>>]
    /\ last = Idle

\* When ide_read_sector fails, or the signature is wrong, nothing is mounted.
kfs2_init(signature) ==
    /\ call = Idle
    /\ Mounts(kfs2, kfs2_image, signature)
    /\ kfs2' = Mounted(kfs2_image, BlankCluster)
    /\ kfs2_handles' = [h \in Handles |-> Closed]
    /\ UNCHANGED <<kfs2_image, kfs2_err, call, opened, last>>

-----------------------------------------------------------------------------
(* kfs2_open_file and kfs2_close_file *)

\* Its loop at cluster i; ok: the clusters it has looked at had been read
\* without failure.
Opening(name, i, ok) == [op |-> "open", name |-> name, i |-> i, ok |-> ok]

kfs2_open_file(name) ==
    /\ call = Idle
    /\ call' = Opening(name, 0, TRUE)
    /\ last' = Idle
    /\ UNCHANGED <<kfs2_image, kfs2, kfs2_handles, kfs2_err, opened>>

Fails(err) == kfs2_err' = err /\ call' = Idle /\ UNCHANGED <<kfs2_handles, opened>>

\* The handle that is in use is taken again.
FreeHandlesAny == Handles

FreeHandles == {h \in Handles : kfs2_handles[h].flags = 0}

TakeHandle(name, i, ok) ==
    IF FreeHandles = {} THEN Fails(EMFILE)
    ELSE LET j == Min(FreeHandles)
         IN  /\ kfs2_handles' = [kfs2_handles EXCEPT ![j] = [flags |-> 1, startclstr |-> i]]
             /\ opened' = [opened EXCEPT ![j] = Append(@, [name |-> name, ok |-> ok])]
             /\ call' = Idle
             /\ UNCHANGED kfs2_err

\* One cluster of the loop.
OpenCluster ==
    /\ call.op = "open"
    /\ IF call.i = kfs2.cluster_n
       THEN Fails(ENOENT) /\ UNCHANGED kfs2
       ELSE /\ kfs2' \in read_cluster(kfs2, kfs2_image, call.i)
            /\ LET hdr  == kfs2'.buf[0]
                   same == hdr.type = KFS2_TYPE_FILE /\ hdr.name = call.name
                   ok   == call.ok /\ kfs2'.bad = {}
               IN  \/ same /\ TakeHandle(call.name, call.i, ok)
                   \/ /\ ~same \/ call.name \in Ambiguous
                      /\ call' = Opening(call.name, call.i + 1, ok)
                      /\ UNCHANGED <<kfs2_handles, kfs2_err, opened>>
    /\ UNCHANGED <<kfs2_image, last>>

\* The caller may pass any number.
kfs2_close_file(h) ==
    /\ call = Idle
    /\ last' = Idle
    /\ IF h >= KFS2_MAX_FILES
       THEN kfs2_err' = ENOENT /\ UNCHANGED <<kfs2_handles, opened>>
       ELSE /\ kfs2_handles' = [kfs2_handles EXCEPT ![h] = Closed]
            /\ opened' = [opened EXCEPT ![h] = <<>>]
            /\ UNCHANGED kfs2_err
    /\ UNCHANGED <<kfs2_image, kfs2, call>>

-----------------------------------------------------------------------------
(* kfs2_read_byte *)

KFS2_BYTE_CLSTR(n) == n \div KFS2_DATA_SZ

\* The byte is counted backwards from the start of the data: only the first
\* one of a cluster is data.
Fetched(buf, i) == IF i % KFS2_DATA_SZ = 0 THEN buf[1] ELSE NotData

\* Its variables, as it goes on.
Reads(op, clstr, clstr_n, got, sure) ==
    [op |-> op, start |-> call.start, off |-> call.off, n |-> call.n,
     clstr |-> clstr, clstr_n |-> clstr_n, got |-> got, sure |-> sure]

\* The number of the handle is not looked at: beyond the array is any memory.
FileAt(file) ==
    IF file \in Handles THEN {kfs2_handles[file]} ELSE [flags : {0, 1}, startclstr : Uninit]

kfs2_read_byte(file, n, off) ==
    /\ call = Idle
    /\ \E f \in FileAt(file) :
          \/ /\ f.flags = 0
             /\ kfs2_err' = ENOENT /\ UNCHANGED call
          \/ /\ f.flags = 1
             /\ \E u \in Uninit :
                  call' = [op |-> "test", start |-> f.startclstr, off |-> off, n |-> n,
                           clstr |-> 0, clstr_n |-> u, got |-> <<>>, sure |-> file \in Handles]
             /\ UNCHANGED kfs2_err
    /\ last' = Idle
    /\ UNCHANGED <<kfs2_image, kfs2, kfs2_handles, opened>>

\* clstr_n is compared before it is set.
NextByte ==
    LET i == call.off + Len(call.got)  t == KFS2_BYTE_CLSTR(i) IN
    /\ call.op = "test"
    /\ call' = IF Len(call.got) = call.n THEN Idle
               ELSE IF t # call.clstr_n
               THEN Reads("walk", call.start, t, call.got, call.sure)
               ELSE Reads("walk", call.clstr, call.clstr_n, call.got, call.sure)
    /\ last' = IF Len(call.got) = call.n THEN call ELSE last
    /\ UNCHANGED <<kfs2_image, kfs2, kfs2_handles, kfs2_err, opened>>

Walk ==
    /\ call.op = "walk"
    /\ kfs2' \in read_cluster(kfs2, kfs2_image, call.clstr)
    /\ LET sure == call.sure /\ kfs2'.bad = {}
           byte == Fetched(kfs2'.buf, call.off + Len(call.got))
       IN  call' = IF call.clstr_n # 0
                   THEN Reads("walk", kfs2'.buf[0].next, call.clstr_n - 1, call.got, sure)
                   ELSE Reads("test", call.clstr, call.clstr_n, Append(call.got, byte), sure)
    /\ UNCHANGED <<kfs2_image, kfs2_handles, kfs2_err, opened, last>>

Kfs2Next ==
    \/ \E name \in FileNames : kfs2_open_file(name)
    \/ OpenCluster
    \/ \E h \in 0 .. KFS2_MAX_FILES : kfs2_close_file(h)
    \/ \E h \in 0 .. KFS2_MAX_FILES, r \in Ranges : kfs2_read_byte(h, r[1], r[2])
    \/ NextByte \/ Walk

-----------------------------------------------------------------------------
(* Properties *)

Header(i) == kfs2_image.clusters[i + 1][0]
FilesNamed(name) ==
    {i \in 0 .. kfs2_image.cluster_n - 1 :
         Header(i).type = KFS2_TYPE_FILE /\ Header(i).name = name}

StandsFor(h, o) ==
    o.ok /\ o.name \notin Ambiguous => kfs2_handles[h].startclstr = Min(FilesNamed(o.name))

\* The handles in use are those that kfs2_open_file has returned and that are
\* not closed; none is returned twice, and each stands for the first file of
\* its name, unless a sector failed when it was opened, however many are opened
\* and closed meanwhile.
Kfs2HandleKeepsFile ==
    \A h \in Handles :
        /\ opened[h] = <<>> <=> kfs2_handles[h] = Closed
        /\ opened[h] # <<>> => StandsFor(h, opened[h][1]) /\ Len(opened[h]) = 1

-----------------------------------------------------------------------------
(* What the description of the format says *)

\* The clusters of a file, up to the one without a next.
ClusterOf(start, k) ==
    LET chain[j \in 0 .. k] ==
            IF j = 0 THEN start
            ELSE IF chain[j - 1] = NoCluster \/ Header(chain[j - 1]).next = KFS2_CLSTR_EOF
            THEN NoCluster ELSE Header(chain[j - 1]).next
    IN  chain[k]

\* The bytes off .. off + n - 1 of a file of full clusters, as many as it has.
FileBytes(start, n, off) ==
    LET there == {k \in 1 .. n : ClusterOf(start, KFS2_BYTE_CLSTR(off + k - 1)) # NoCluster}
    IN  [k \in there |->
            LET i == off + k - 1
            IN  kfs2_image.clusters[ClusterOf(start, KFS2_BYTE_CLSTR(i)) + 1][(i % KFS2_DATA_SZ) + 1]]

\* docs/fs/kfs2.txt: the number of the next cluster, "0 = nincs" (none), and
\* KFS2_CLSTR_EOF of kfs2.h: the bytes kfs2_read_byte returns from a file
\* whose clusters were read without failure are those of the data in its
\* clusters, none beyond the last.
Kfs2ReadsFile ==
    last # Idle /\ last.sure => last.got = FileBytes(last.start, last.n, last.off)
=============================================================================
