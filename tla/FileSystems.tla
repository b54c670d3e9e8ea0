----------------------------- MODULE FileSystems -----------------------------
(***************************************************************************)
(* A disk with a partition of one of the two kinds, the tools for KSSFS on *)
(* the host, and the two readers of the kernel, which both try to mount.   *)
(***************************************************************************)
EXTENDS KssfsReader, Kfs2

VARIABLE partition  \* the signature in its header

fsVars == <<vars, readerVars, kfs2Vars, partition>>

FsInit ==
    /\ KssfsInit /\ ReaderInit /\ Kfs2Init
    /\ partition \in {"kssfs", "kfs2"}
    \* One image is enough for the partition that is not there.
    /\ partition = "kssfs" => kfs2_image = CHOOSE m \in Kfs2Images : TRUE
    /\ partition = "kfs2" => disk = mkfs(<<>>)

HostStep ==
    /\ partition = "kssfs" /\ ~booted
    /\ KssfsNext
    /\ UNCHANGED <<readerVars, kfs2Vars, partition>>

BootStep ==
    /\ BootKernel
    /\ UNCHANGED <<kfs2Vars, partition>>

\* kssfs_init sees the signature that is on the disk.
KssfsStep ==
    /\ ReaderNext(KssfsImage(partition))
    /\ UNCHANGED <<vars, kfs2Vars, partition>>

Kfs2Step ==
    /\ booted
    /\ kfs2_init(partition) \/ (kfs2.mounted /\ Kfs2Next)
    /\ UNCHANGED <<vars, readerVars, partition>>

FsNext == HostStep \/ BootStep \/ KssfsStep \/ Kfs2Step

FsSpec == FsInit /\ [][FsNext]_fsVars

-----------------------------------------------------------------------------
(* Properties *)

\* A sector in the buffer of a reader is that of the cluster whose number the
\* reader has noted, unless the read of this very sector failed when the
\* cluster was read last: whatever was read before, and whichever reads failed.
\* So a failure is gone with the next cluster that is read; until then the
\* failed cluster counts as read and is not read again.  Only the reader of the
\* partition's kind is mounted.
CacheCoherent ==
    /\ kssfs.mounted => partition = "kssfs"
    /\ kfs2.mounted => partition = "kfs2"
    /\ Coherent(kssfs, KssfsImage(partition))
    /\ Coherent(kfs2, kfs2_image)
=============================================================================
