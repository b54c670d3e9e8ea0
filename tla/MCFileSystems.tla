---------------------------- MODULE MCFileSystems ----------------------------
(* A small instance of FileSystems for TLC. *)
EXTENDS FileSystems

CONSTANTS fileA, fileB

MCBytes == {0, 1}

\* A program fileA, a data file fileA as long as a cluster, and fileB under an
\* absolute path.
MCHostFiles ==
    {kssfs_clstr_hdr(KSSFS_CLSTR_COM, <<fileA>>, 1, [k \in Offsets |-> 1]),
     kssfs_clstr_hdr(KSSFS_CLSTR_DATA, <<fileA>>, DataSize, [k \in Offsets |-> k % 2]),
     kssfs_clstr_hdr(KSSFS_CLSTR_DATA, Path(fileB), 1, [k \in Offsets |-> 1])}

\* A chain 1 -> 3 -> 2, a file of one cluster, and one with the same name.
Clstr(type, name, next, byte) ==
    [s \in 0 .. KFS2_DATA_SZ |-> IF s = 0 THEN [type |-> type, name |-> name, next |-> next]
                                 ELSE byte * 10 + s]
MCRanges == {<<1, 0>>, <<3, 0>>, <<2, 1>>, <<3, 2>>, <<1, 6>>}
\* The first byte of a fourth cluster, which no file has.
PastTheEnd == {<<1, 6>>}
MCFailures == {{}, {0}, {1, 2}}

MCKfs2Images ==
    {[signature |-> "kfs2", cluster_n |-> 4,
      clusters |-> <<Clstr(KFS2_TYPE_FILE, "one", 0, 5), Clstr(KFS2_TYPE_FILE, "chain", 3, 6),
                     Clstr(2, "", 0, 7), Clstr(2, "", 2, 8)>>],
     [signature |-> "kfs2", cluster_n |-> 3,
      clusters |-> <<Clstr(0, "one", 0, 1), Clstr(KFS2_TYPE_FILE, "one", 0, 2),
                     Clstr(KFS2_TYPE_FILE, "one", 0, 3)>>]}
=============================================================================
