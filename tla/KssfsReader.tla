----------------------------- MODULE KssfsReader -----------------------------
(***************************************************************************)
(* The kernel's reader of KSSFS, fs/kssfs.c, on an image that mkfs.kssfs   *)
(* has made and the mount tool has changed: once it is unmounted, the      *)
(* kernel boots from it and loads files.                                   *)
(***************************************************************************)
EXTENDS Kssfs, ClusterCache

CONSTANT Torn  \* the names that strncmp may take for different, see Strings

VARIABLES booted,      \* the image is in the hands of the kernel
          kssfs,       \* kssfs_lba, kssfs_cluster_n, kssfs_clstr_index, kssfs_buf
          reading,     \* kssfs_read_file: the name and i; history: the clusters
                       \* it has looked at had been read without failure
          dest         \* what it has returned last, and the bytes at dest

readerVars == <<booted, kssfs, reading, dest>>

None == [name |-> "none", ok |-> FALSE]

\* A cluster by its sectors.
Sectors(c) == [s \in 0 .. DataSize |-> IF s = 0 THEN [type |-> c.type, name |-> c.name, len |-> c.len]
                                       ELSE c.data[s - 1]]
KssfsImage(signature) ==
    [signature |-> signature, cluster_n |-> cluster_n,
     clusters |-> [k \in DOMAIN disk |-> Sectors(disk[k])]]

ReaderInit ==
    /\ booted = FALSE
    /\ kssfs = Unmounted(Sectors(Blank))
    /\ reading = None /\ dest = None

\* The mount tool has ended, and its buffer with it.
BootKernel ==
    /\ ~booted /\ handles = {} /\ ~undefined
    /\ booted' = TRUE
    /\ buf' = Blank
    /\ UNCHANGED <<disk, handles, content, undefined, kssfs, reading, dest>>

\* When ide_read_sector fails, or the signature is wrong, nothing is mounted.
kssfs_init(image) ==
    /\ booted
    /\ Mounts(kssfs, image, "kssfs")
    /\ kssfs' = Mounted(image, Sectors(Blank))
    /\ UNCHANGED <<booted, reading, dest>>

\* Without kssfs_lba it returns 0 at once.
kssfs_read_file(name) ==
    /\ booted /\ kssfs.mounted /\ reading = None
    /\ reading' = [name |-> name, i |-> 0, ok |-> TRUE]
    /\ dest' = None
    /\ UNCHANGED <<booted, kssfs>>

Returns(ret, bytes, ok) ==
    /\ dest' = [name |-> reading.name, ret |-> ret, bytes |-> bytes, ok |-> ok]
    /\ reading' = None

\* A whole cluster is copied.
CopiedAll(buf2) == [k \in Offsets |-> buf2[k + 1]]

\* memcpy(dest, kssfs_clstr->data, kssfs_clstr->len)
Copied(buf2) == [k \in 0 .. buf2[0].len - 1 |-> buf2[k + 1]]

\* One cluster of the loop; the type of the cluster is not looked at.
ReadNext(image) ==
    /\ reading # None
    /\ IF reading.i = kssfs.cluster_n
       THEN Returns(0, <<>>, reading.ok) /\ UNCHANGED kssfs
       ELSE /\ kssfs' \in read_cluster(kssfs, image, reading.i)
            /\ LET same == kssfs'.buf[0].name = <<reading.name>>
                   ok   == reading.ok /\ kssfs'.bad = {}
               IN  \/ same /\ Returns(1, Copied(kssfs'.buf), ok)
                   \/ /\ ~same \/ reading.name \in Torn
                      /\ reading' = [reading EXCEPT !.i = @ + 1, !.ok = ok]
                      /\ UNCHANGED dest
    /\ UNCHANGED booted

ReaderNext(image) ==
    \/ kssfs_init(image)
    \/ \E n \in Names : kssfs_read_file(n)
    \/ ReadNext(image)

-----------------------------------------------------------------------------
(* Properties *)

\* kssfs_read_file finds no file but those the mount tool shows, although it
\* does not look at the type, and loads what was written to the file through
\* the mount tool, as much of it as the length of the cluster says; and it
\* does find each of them that strncmp does not take for another.  So on short
\* images, after any requests, and after failed reads of other clusters.
\* Excepted is a call that meets a cluster whose last read has failed: in this
\* call, or earlier, when that cluster, cluster 0, is the last one read and is
\* not read again.
KernelReadsWritten ==
    dest.ok =>
        /\ dest.name \notin Torn /\ content[dest.name] # <<>> => dest.ret = 1
        /\ dest.ret = 1 =>
               LET i == First(Open(Path(dest.name)))
               IN  /\ content[dest.name] # <<>>
                   /\ dest.bytes = [k \in 0 .. Seen(i).len - 1 |-> content[dest.name][k]]
=============================================================================
