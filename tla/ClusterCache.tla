------------------------------ MODULE ClusterCache ------------------------------
(***************************************************************************)
(* What fs/kssfs.c and fs/kfs2.c have in common: the driver reads the      *)
(* header of the file system once, and keeps the last cluster it has read  *)
(* in a buffer, with its number.  The disk (external) is a driver behind   *)
(* ide_read_sector: a sector that cannot be read leaves the buffer as it   *)
(* was, and kssfs_read_cluster ignores the error.                          *)
(*                                                                         *)
(* A cluster is a function of its sectors: 0 is its header.                *)
(***************************************************************************)
EXTENDS Integers, Sequences

CONSTANT Failures  \* the sets of sectors that may fail when a cluster is read

ASSUME ClusterCacheAssumption == {} \in Failures

NoCluster == -1  \* 0xffffffff

\* The cache: kssfs_lba, as a BOOLEAN, kssfs_cluster_n, kssfs_clstr_index and
\* kssfs_buf; and the history bad, the sectors of buf whose read has failed.
Unmounted(blank) ==
    [mounted |-> FALSE, cluster_n |-> 0, index |-> 0, buf |-> blank, bad |-> {}]

\* The number of the cluster is reset to 0.
MountedIndex0(image, blank) ==
    [mounted |-> TRUE, cluster_n |-> image.cluster_n, index |-> 0, buf |-> blank, bad |-> {}]

\* kssfs_init and kfs2_init with the header read and its signature right.
Mounted(image, blank) ==
    [mounted |-> TRUE, cluster_n |-> image.cluster_n, index |-> NoCluster, buf |-> blank,
     bad |-> {}]

Mounts(c, image, signature) == ~c.mounted /\ image.signature = signature

\* A cluster past the end of the disk cannot be read at all.
Filled(old, image, n, bad) ==
    [s \in DOMAIN old |-> IF s \in bad \/ n + 1 \notin DOMAIN image.clusters THEN old[s]
                          ELSE image.clusters[n + 1][s]]

Skips(c, n) == ~c.mounted \/ n > c.cluster_n \/ n = c.index

\* What kssfs_read_cluster and kfs2_read_cluster may make of the cache.
read_cluster(c, image, n) ==
    IF Skips(c, n) THEN {c}
    ELSE {[mounted |-> TRUE, cluster_n |-> c.cluster_n, index |-> n,
           buf |-> Filled(c.buf, image, n, bad), bad |-> bad] : bad \in Failures}

\* The buffer holds the cluster whose number the driver has noted, but for the
\* sectors that failed when it was read last; for a number past the end of the
\* disk, it still holds an earlier one.
Coherent(c, image) ==
    c.mounted /\ c.index # NoCluster /\ c.index + 1 \in DOMAIN image.clusters =>
        \A s \in DOMAIN c.buf \ c.bad : c.buf[s] = image.clusters[c.index + 1][s]
=============================================================================
