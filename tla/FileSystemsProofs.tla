-------------------------- MODULE FileSystemsProofs --------------------------
(***************************************************************************)
(* Proofs about the readers of the file systems: the clusters they keep    *)
(* are the ones of the disk, and the handles of KFS2 keep their files.     *)
(***************************************************************************)
EXTENDS FileSystems, WellFoundedInduction, TLAPS

-----------------------------------------------------------------------------
(* The buffer for clusters *)

\* read_cluster leaves the buffer with the cluster it notes, whatever was in it.
LEMMA ReadKeepsCoherent ==
    ASSUME NEW c, NEW image, NEW n, Coherent(c, image), NEW d \in read_cluster(c, image, n)
    PROVE  Coherent(d, image) /\ (d.mounted => c.mounted)
<1>1. CASE Skips(c, n)
  BY <1>1 DEF read_cluster
<1>2. CASE ~Skips(c, n)
  <2>1. PICK bad \in Failures :
          d = [mounted |-> TRUE, cluster_n |-> c.cluster_n, index |-> n,
               buf |-> Filled(c.buf, image, n, bad), bad |-> bad]
    BY <1>2 DEF read_cluster
  <2>2. c.mounted
    BY <1>2 DEF Skips
  <2>3. ASSUME n + 1 \in DOMAIN image.clusters, NEW s \in DOMAIN d.buf \ d.bad
        PROVE  d.buf[s] = image.clusters[n + 1][s]
    BY <2>1, <2>3 DEF Filled
  <2> QED
    BY <2>1, <2>2, <2>3 DEF Coherent
<1> QED
  BY <1>1, <1>2

\* A reader is mounted on its own kind of partition only, and not before the
\* kernel has booted; until then the tools of the host may change the image.
CacheInv ==
    /\ CacheCoherent
    /\ kssfs.mounted \/ kfs2.mounted => booted
    /\ kfs2_image \in Kfs2Images

LEMMA CacheInvInit == FsInit => CacheInv
  BY DEF FsInit, ReaderInit, Kfs2Init, Unmounted, CacheInv, CacheCoherent, Coherent

LEMMA KssfsKeepsCache ==
    ASSUME CacheInv, KssfsStep
    PROVE  CacheInv'
<1> DEFINE image == KssfsImage(partition)
<1>1. image' = image /\ UNCHANGED <<kfs2, kfs2_image, partition>>
  BY DEF KssfsStep, KssfsImage, vars, kfs2Vars
<1>2. /\ booted' = booted
      /\ kssfs'.mounted => partition = "kssfs" /\ booted
      /\ Coherent(kssfs', image)
  <2>1. CASE kssfs_init(image)
    BY <2>1 DEF kssfs_init, Mounts, Mounted, Coherent, KssfsImage
  <2>2. ASSUME NEW name \in Names, kssfs_read_file(name)
        PROVE  booted' = booted /\ kssfs' = kssfs
    BY <2>2 DEF kssfs_read_file
  <2>3. CASE ReadNext(image)
    <3>1. booted' = booted
      BY <2>3 DEF ReadNext
    <3>2. kssfs' = kssfs \/ kssfs' \in read_cluster(kssfs, image, reading.i)
      BY <2>3 DEF ReadNext
    <3> HIDE DEF image
    <3>3. Coherent(kssfs, KssfsImage(partition)) /\ (kssfs.mounted => partition = "kssfs" /\ booted)
      BY DEF CacheInv, CacheCoherent
    <3> QED
      BY <3>1, <3>2, <3>3, ReadKeepsCoherent DEF image
  <2> QED
    BY <2>1, <2>2, <2>3 DEF KssfsStep, ReaderNext, CacheInv, CacheCoherent
<1> QED
  BY <1>1, <1>2 DEF CacheInv, CacheCoherent

LEMMA Kfs2KeepsCache ==
    ASSUME CacheInv, Kfs2Step
    PROVE  CacheInv'
<1>1. /\ KssfsImage(partition)' = KssfsImage(partition)
      /\ UNCHANGED <<kssfs, booted, partition>> /\ booted
  BY DEF Kfs2Step, KssfsImage, vars, readerVars
<1>2. /\ kfs2_image' = kfs2_image
      /\ kfs2'.mounted => partition = "kfs2"
      /\ Coherent(kfs2', kfs2_image)
  <2>1. CASE kfs2_init(partition)
    BY <2>1, Kfs2Assumption DEF kfs2_init, Mounts, Mounted, Coherent, CacheInv
  <2>2. CASE Kfs2Next
    <3>1. kfs2_image' = kfs2_image
      BY <2>2 DEF Kfs2Next, kfs2_open_file, OpenCluster, kfs2_close_file, kfs2_read_byte, NextByte,
                  Walk
    <3>2. kfs2' = kfs2 \/ \E n : kfs2' \in read_cluster(kfs2, kfs2_image, n)
      BY <2>2 DEF Kfs2Next, kfs2_open_file, OpenCluster, kfs2_close_file, kfs2_read_byte, NextByte,
                  Walk
    <3> QED
      BY <3>1, <3>2, ReadKeepsCoherent DEF CacheInv, CacheCoherent
  <2> QED
    BY <2>1, <2>2 DEF Kfs2Step
<1> QED
  BY <1>1, <1>2 DEF CacheInv, CacheCoherent

LEMMA CacheInvNext == CacheInv /\ [FsNext]_fsVars => CacheInv'
<1> SUFFICES ASSUME CacheInv, [FsNext]_fsVars
             PROVE  CacheInv'
  OBVIOUS
<1>1. CASE HostStep
  BY <1>1 DEF HostStep, readerVars, kfs2Vars, CacheInv, CacheCoherent, Coherent
<1>2. CASE BootStep
  BY <1>2 DEF BootStep, BootKernel, kfs2Vars, CacheInv, CacheCoherent, Coherent, KssfsImage
<1>3. CASE UNCHANGED fsVars
  BY <1>3 DEF fsVars, vars, readerVars, kfs2Vars, CacheInv, CacheCoherent, Coherent, KssfsImage
<1> QED
  BY <1>1, <1>2, <1>3, KssfsKeepsCache, Kfs2KeepsCache DEF FsNext

\* Whatever is read, in whichever order, and whichever sectors fail: when
\* kssfs_read_cluster or kfs2_read_cluster skips a read, each sector of the
\* buffer is that cluster's or is one whose read failed when the cluster was
\* read last.  No sector of another cluster is left for any other reason.
THEOREM ReadersStayCoherent == FsSpec => []CacheCoherent
<1>1. CacheInv => CacheCoherent
  BY DEF CacheInv
<1> QED
  BY <1>1, CacheInvInit, CacheInvNext, PTL DEF FsSpec

-----------------------------------------------------------------------------
(* The handles of KFS2 *)

\* kfs2_open_file at cluster i has not passed a file of the name it looks for,
\* unless a sector has failed or strncmp took the name for another.
Searching ==
    \E name \in FileNames, i \in Nat : \E ok :
        /\ call = Opening(name, i, ok) /\ i <= kfs2.cluster_n
        /\ ok /\ name \notin Ambiguous => \A j \in 0 .. i - 1 : j \notin FilesNamed(name)

HandleInv ==
    /\ Kfs2HandleKeepsFile
    /\ DOMAIN kfs2_handles = Handles /\ DOMAIN opened = Handles
    /\ kfs2_handles = [h \in Handles |-> kfs2_handles[h]]
    /\ opened = [h \in Handles |-> opened[h]]
    /\ \A h \in Handles : kfs2_handles[h].flags = 0 => kfs2_handles[h] = Closed
    /\ DOMAIN kfs2.buf = 0 .. KFS2_DATA_SZ
    /\ IF kfs2.mounted THEN kfs2.cluster_n = kfs2_image.cluster_n
       ELSE call = Idle /\ \A h \in Handles : opened[h] = <<>>
    /\ call.op = "open" => Searching

LEMMA MinIsLeast ==
    ASSUME NEW S \in SUBSET Nat, S # {}
    PROVE  Min(S) \in S /\ \A y \in S : Min(S) <= y
<1> DEFINE R == OpToRel(<, Nat)
<1>1. \A x, y \in Nat : <<y, x>> \in R <=> y < x
  BY DEF OpToRel
<1>2. IsWellFoundedOn(R, Nat)
  BY NatLessThanWellFounded
<1> HIDE DEF R
<1>3. PICK x \in S : \A y \in S : <<y, x>> \notin R
  BY <1>2, WFMin
<1>4. x \in Nat /\ \A y \in S : y \in Nat /\ ~(y < x)
  BY <1>1, <1>3, Zenon
<1>5. \A y \in S : x <= y
  BY <1>4
<1> QED
  BY <1>5 DEF Min

LEMMA HandleInvInit == FsInit => HandleInv
<1> SUFFICES ASSUME Kfs2Init
             PROVE  HandleInv
  BY DEF FsInit
<1>1. \A h \in Handles : opened[h] = <<>> /\ kfs2_handles[h] = Closed
  BY DEF Kfs2Init
<1>2. Kfs2HandleKeepsFile
  BY <1>1 DEF Kfs2HandleKeepsFile
<1>3. DOMAIN kfs2.buf = 0 .. KFS2_DATA_SZ /\ ~kfs2.mounted
  BY DEF Kfs2Init, Unmounted, BlankCluster
<1>4. call = Idle /\ call.op # "open"
  BY DEF Kfs2Init, Idle
<1> QED
  BY <1>1, <1>2, <1>3, <1>4 DEF Kfs2Init, HandleInv

\* What read_cluster leaves alone, and what it makes of a cluster that is there.
LEMMA ReadCluster ==
    ASSUME CacheInv, HandleInv, kfs2.mounted, NEW n,
           NEW d \in read_cluster(kfs2, kfs2_image, n)
    PROVE  /\ DOMAIN d.buf = 0 .. KFS2_DATA_SZ /\ d.mounted /\ d.cluster_n = kfs2.cluster_n
           /\ n \in 0 .. kfs2.cluster_n - 1 /\ d.bad = {} => d.buf[0] = Header(n)
<1>0. kfs2.cluster_n \in Nat /\ DOMAIN kfs2_image.clusters = 1 .. kfs2.cluster_n
  BY Kfs2Assumption DEF CacheInv, HandleInv
<1>1. /\ DOMAIN d.buf = 0 .. KFS2_DATA_SZ /\ d.mounted /\ d.cluster_n = kfs2.cluster_n
  BY DEF read_cluster, Filled, HandleInv
<1>2. ASSUME n \in 0 .. kfs2.cluster_n - 1, d.bad = {}
      PROVE  d.buf[0] = Header(n)
  <2>1. d.index = n
    BY <1>0, <1>2 DEF read_cluster, Skips
  <2>2. n # NoCluster /\ n + 1 \in DOMAIN kfs2_image.clusters /\ 0 \in DOMAIN d.buf \ d.bad
    <3>1. n \in Int /\ n >= 0 /\ n + 1 \in 1 .. kfs2.cluster_n
      BY <1>0, <1>2
    <3>2. KFS2_DATA_SZ \in Nat
      BY Kfs2Assumption, Zenon
    <3> QED
      BY <1>0, <1>1, <1>2, <3>1, <3>2 DEF NoCluster
  <2>3. Coherent(d, kfs2_image)
    BY ReadKeepsCoherent DEF CacheInv, CacheCoherent
  <2> QED
    BY <1>1, <2>1, <2>2, <2>3 DEF Coherent, Header
<1> QED
  BY <1>1, <1>2

LEMMA OpenKeepsHandles ==
    ASSUME CacheInv, HandleInv, kfs2.mounted, OpenCluster
    PROVE  HandleInv'
<1>0. PICK name \in FileNames, i \in Nat : \E ok :
        /\ call = Opening(name, i, ok) /\ i <= kfs2.cluster_n
        /\ ok /\ name \notin Ambiguous => \A j \in 0 .. i - 1 : j \notin FilesNamed(name)
  BY DEF OpenCluster, HandleInv, Searching
<1>1. PICK ok :
        /\ call = Opening(name, i, ok) /\ i <= kfs2.cluster_n
        /\ ok /\ name \notin Ambiguous => \A j \in 0 .. i - 1 : j \notin FilesNamed(name)
  BY <1>0
<1>2. /\ call.op = "open" /\ call.name = name /\ call.i = i /\ call.ok = ok
      /\ kfs2_image' = kfs2_image /\ kfs2.cluster_n = kfs2_image.cluster_n
      /\ kfs2.cluster_n \in Nat
  BY <1>1, Kfs2Assumption DEF Opening, OpenCluster, HandleInv, CacheInv
<1>f. \A m : FilesNamed(m)' = FilesNamed(m)
  BY <1>2 DEF FilesNamed, Header
<1>3. CASE i = kfs2.cluster_n
  BY <1>2, <1>3, <1>f DEF OpenCluster, Fails, HandleInv, Kfs2HandleKeepsFile, StandsFor, Idle
<1>4. CASE i # kfs2.cluster_n
  <2> DEFINE hdr  == kfs2'.buf[0]
             same == hdr.type = KFS2_TYPE_FILE /\ hdr.name = name
             ok2  == ok /\ kfs2'.bad = {}
  <2>1. kfs2' \in read_cluster(kfs2, kfs2_image, i)
    BY <1>2, <1>4 DEF OpenCluster
  <2>2. /\ DOMAIN kfs2'.buf = 0 .. KFS2_DATA_SZ /\ kfs2'.mounted
        /\ kfs2'.cluster_n = kfs2.cluster_n
        /\ kfs2'.bad = {} => hdr = Header(i)
    BY <1>1, <1>2, <1>4, <2>1, ReadCluster
  <2>3. ok2 => (same <=> i \in FilesNamed(name))
    BY <1>1, <1>2, <1>4, <2>2 DEF FilesNamed
  <2>4. \/ same /\ TakeHandle(name, i, ok2)
        \/ /\ ~same \/ name \in Ambiguous
           /\ call' = Opening(name, i + 1, ok2)
           /\ UNCHANGED <<kfs2_handles, kfs2_err, opened>>
    BY <1>2, <1>4 DEF OpenCluster
  <2>5. CASE same /\ TakeHandle(name, i, ok2)
    <3>1. CASE FreeHandles = {}
      BY <1>2, <1>f, <2>2, <2>5, <3>1 DEF TakeHandle, Fails, HandleInv, Kfs2HandleKeepsFile, StandsFor, Idle
    <3>2. CASE FreeHandles # {}
      <4>1. PICK k \in Handles : k = Min(FreeHandles) /\ kfs2_handles[k].flags = 0
        <5>1. FreeHandles \in SUBSET Nat /\ FreeHandles \subseteq Handles
          BY DEF FreeHandles, Handles
        <5>2. Min(FreeHandles) \in FreeHandles
          BY <3>2, <5>1, MinIsLeast
        <5> QED
          BY <5>1, <5>2 DEF FreeHandles
      <4>o. PICK o : o = [name |-> name, ok |-> ok2]
        OBVIOUS
      <4>2. /\ kfs2_handles' = [kfs2_handles EXCEPT ![k] = [flags |-> 1, startclstr |-> i]]
            /\ opened' = [opened EXCEPT ![k] = Append(@, o)]
            /\ call' = Idle
        BY <2>5, <3>2, <4>1, <4>o DEF TakeHandle
      <4>3. \A h \in Handles \ {k} : opened'[h] = opened[h] /\ kfs2_handles'[h] = kfs2_handles[h]
        BY <4>2 DEF HandleInv
      <4>4. opened[k] = <<>>
        BY <4>1 DEF HandleInv, Kfs2HandleKeepsFile
      <4>5. /\ opened'[k] = <<o>>
            /\ kfs2_handles'[k] = [flags |-> 1, startclstr |-> i] /\ kfs2_handles'[k] # Closed
        <5>1. opened'[k] = Append(opened[k], o)
          BY <4>1, <4>2 DEF HandleInv
        <5>2. kfs2_handles'[k] = [flags |-> 1, startclstr |-> i]
          BY <4>1, <4>2 DEF HandleInv
        <5>3. kfs2_handles'[k].flags # Closed.flags
          BY <5>2 DEF Closed
        <5>4. kfs2_handles'[k] # Closed
          BY <5>3, Zenon
        <5> QED
          BY <4>4, <5>1, <5>2, <5>4
      <4>6. o.ok /\ o.name \notin Ambiguous => i = Min(FilesNamed(o.name))
        <5> SUFFICES ASSUME o.ok, o.name \notin Ambiguous
                     PROVE  i = Min(FilesNamed(o.name))
          OBVIOUS
        <5>1. ok2 /\ name \notin Ambiguous /\ o.name = name
          <6> HIDE DEF ok2
          <6>1. o.ok = ok2
            BY <4>o
          <6>2. o.name = name
            BY <4>o
          <6> QED
            BY <6>1, <6>2, Zenon
        <5>2. i \in FilesNamed(name) /\ \A j \in 0 .. i - 1 : j \notin FilesNamed(name)
          BY <1>1, <2>3, <2>5, <5>1
        <5>3. FilesNamed(name) \subseteq Nat
          BY DEF FilesNamed
        <5>4. Min(FilesNamed(name)) = i
          BY <5>2, <5>3, MinIsLeast
        <5> QED
          BY <5>1, <5>4
      <4>7. Kfs2HandleKeepsFile'
        <5> SUFFICES ASSUME NEW h \in Handles
                     PROVE  /\ opened'[h] = <<>> <=> kfs2_handles'[h] = Closed
                            /\ opened'[h] # <<>> =>
                                  StandsFor(h, opened[h][1])' /\ Len(opened'[h]) = 1
          BY DEF Kfs2HandleKeepsFile
        <5>1. CASE h # k
          BY <1>f, <4>3, <5>1 DEF HandleInv, Kfs2HandleKeepsFile, StandsFor
        <5>2. CASE h = k
          <6>1. opened'[h] # <<>> /\ Len(opened'[h]) = 1 /\ opened'[h][1] = o
            <7>1. <<o>> # <<>> /\ Len(<<o>>) = 1 /\ <<o>>[1] = o
              OBVIOUS
            <7>2. opened'[h] = <<o>>
              BY <4>5, <5>2
            <7> QED
              BY <7>1, <7>2, Zenon
          <6>2. kfs2_handles'[h].startclstr = i
            BY <4>5, <5>2
          <6>3. StandsFor(h, opened[h][1])'
            BY <1>2, <4>6, <6>1, <6>2 DEF StandsFor, FilesNamed, Header
          <6> QED
            BY <4>5, <5>2, <6>1, <6>3
        <5> QED
          BY <5>1, <5>2
      <4>8. call'.op # "open"
        BY <4>2 DEF Idle
      <4> QED
        <5>1. \A h \in Handles : kfs2_handles'[h].flags = 0 => kfs2_handles'[h] = Closed
          BY <4>3, <4>5 DEF HandleInv
        <5>2. /\ DOMAIN kfs2_handles' = Handles /\ DOMAIN opened' = Handles
              /\ kfs2_handles' = [h \in Handles |-> kfs2_handles'[h]]
              /\ opened' = [h \in Handles |-> opened'[h]]
          BY <4>2 DEF HandleInv
        <5> QED
          BY <1>2, <2>2, <4>7, <4>8, <5>1, <5>2 DEF HandleInv
    <3> QED
      BY <3>1, <3>2
  <2>6. CASE /\ ~same \/ name \in Ambiguous
             /\ call' = Opening(name, i + 1, ok2)
             /\ UNCHANGED <<kfs2_handles, kfs2_err, opened>>
    <3>1. ok2 /\ name \notin Ambiguous => \A j \in 0 .. (i + 1) - 1 : j \notin FilesNamed(name)
      BY <1>1, <2>3, <2>6
    <3>2. Searching'
      <4>1. i + 1 \in Nat /\ i + 1 <= kfs2'.cluster_n
        BY <1>1, <1>2, <1>4, <2>2
      <4> DEFINE ok3 == ok2
      <4>2. /\ call' = Opening(name, i + 1, ok3)
            /\ ok3 /\ name \notin Ambiguous =>
                  \A j \in 0 .. (i + 1) - 1 : j \notin FilesNamed(name)'
        BY <1>f, <2>6, <3>1
      <4> HIDE DEF ok3
      <4> QED
        BY <4>1, <4>2 DEF Searching, Opening
    <3> QED
      BY <1>2, <1>f, <2>2, <2>6, <3>2 DEF HandleInv, Kfs2HandleKeepsFile, StandsFor
  <2> QED
    BY <2>4, <2>5, <2>6
<1> QED
  BY <1>3, <1>4

\* The steps that leave the reader of KFS2 alone, or the handles.
LEMMA OthersKeepHandles ==
    ASSUME HandleInv, UNCHANGED <<kfs2, kfs2_image, kfs2_handles, opened>>,
           call' = call \/ (kfs2.mounted /\ call'.op # "open")
    PROVE  HandleInv'
<1>1. \A m : FilesNamed(m)' = FilesNamed(m)
  BY DEF FilesNamed, Header
<1>2. call' = call /\ Searching => Searching'
  BY <1>1 DEF Searching
<1> QED
  BY <1>1, <1>2 DEF HandleInv, Kfs2HandleKeepsFile, StandsFor

LEMMA Kfs2KeepsHandles ==
    ASSUME CacheInv, HandleInv, Kfs2Step
    PROVE  HandleInv'
<1>1. CASE kfs2_init(partition)
  <2>1. /\ ~kfs2.mounted /\ call = Idle /\ \A h \in Handles : opened[h] = <<>>
        /\ UNCHANGED <<kfs2_image, call, opened>>
        /\ kfs2_handles' = [h \in Handles |-> Closed]
        /\ kfs2' = Mounted(kfs2_image, BlankCluster)
    BY <1>1 DEF kfs2_init, Mounts, HandleInv
  <2>2. kfs2'.mounted /\ kfs2'.cluster_n = kfs2_image.cluster_n
        /\ DOMAIN kfs2'.buf = 0 .. KFS2_DATA_SZ
    BY <2>1 DEF Mounted, BlankCluster
  <2>3. call.op # "open"
    BY <2>1 DEF Idle
  <2>4. Kfs2HandleKeepsFile'
    BY <2>1, <2>3 DEF Kfs2HandleKeepsFile
  <2> QED
    BY <2>1, <2>2, <2>3, <2>4 DEF HandleInv
<1>2. ASSUME kfs2.mounted, NEW name \in FileNames, kfs2_open_file(name)
      PROVE  HandleInv'
  <2>1. UNCHANGED <<kfs2, kfs2_image, kfs2_handles, opened>>
    BY <1>2 DEF kfs2_open_file
  <2>2. PICK ok : call' = Opening(name, 0, ok)
    BY <1>2 DEF kfs2_open_file
  <2>3. kfs2'.cluster_n \in Nat /\ kfs2'.mounted
    BY <1>2, <2>1, Kfs2Assumption DEF HandleInv, CacheInv
  <2>4. Searching'
    <3>1. \A j \in 0 .. 0 - 1 : j \notin FilesNamed(name)'
      OBVIOUS
    <3>2. 0 \in Nat /\ 0 <= kfs2'.cluster_n
      BY <2>3
    <3> QED
      BY <2>2, <3>1, <3>2 DEF Searching, Opening
  <2>5. \A m : FilesNamed(m)' = FilesNamed(m)
    BY <2>1 DEF FilesNamed, Header
  <2> QED
    BY <2>1, <2>3, <2>4, <2>5 DEF HandleInv, Kfs2HandleKeepsFile, StandsFor
<1>3. CASE kfs2.mounted /\ OpenCluster
  BY <1>3, OpenKeepsHandles
<1>4. ASSUME kfs2.mounted, NEW h \in 0 .. KFS2_MAX_FILES, kfs2_close_file(h)
      PROVE  HandleInv'
  <2>1. UNCHANGED <<kfs2, kfs2_image, call>>
    BY <1>4 DEF kfs2_close_file
  <2>2. CASE h >= KFS2_MAX_FILES
    BY <1>4, <2>1, <2>2, OthersKeepHandles DEF kfs2_close_file
  <2>3. CASE ~(h >= KFS2_MAX_FILES)
    <3>1. /\ kfs2_handles' = [kfs2_handles EXCEPT ![h] = Closed]
          /\ opened' = [opened EXCEPT ![h] = <<>>]
      BY <1>4, <2>3 DEF kfs2_close_file
    <3>2. \A g \in Handles :
            /\ opened'[g] = IF g = h THEN <<>> ELSE opened[g]
            /\ kfs2_handles'[g] = IF g = h THEN Closed ELSE kfs2_handles[g]
      BY <3>1 DEF HandleInv
    <3>3. \A m : FilesNamed(m)' = FilesNamed(m)
      BY <2>1 DEF FilesNamed, Header
    <3>5. Kfs2HandleKeepsFile'
      BY <3>2, <3>3 DEF HandleInv, Kfs2HandleKeepsFile, StandsFor
    <3>6. call'.op # "open"
      BY <1>4, <2>1 DEF kfs2_close_file, Idle
    <3> QED
      BY <1>4, <2>1, <3>1, <3>2, <3>5, <3>6 DEF HandleInv
  <2> QED
    BY <2>2, <2>3
<1>5. ASSUME kfs2.mounted, NEW h \in 0 .. KFS2_MAX_FILES, NEW r \in Ranges, kfs2_read_byte(h, r[1], r[2])
      PROVE  HandleInv'
  <2>1. UNCHANGED <<kfs2, kfs2_image, kfs2_handles, opened>>
    BY <1>5 DEF kfs2_read_byte
  <2>2. call' = call \/ call'.op = "test"
    BY <1>5 DEF kfs2_read_byte
  <2> QED
    BY <1>5, <2>1, <2>2, OthersKeepHandles
<1>6. CASE kfs2.mounted /\ NextByte
  <2>1. UNCHANGED <<kfs2, kfs2_image, kfs2_handles, opened>>
    BY <1>6 DEF NextByte
  <2>2. call'.op # "open"
    BY <1>6 DEF NextByte, Reads, Idle
  <2> QED
    BY <1>6, <2>1, <2>2, OthersKeepHandles
<1>7. CASE kfs2.mounted /\ Walk
  <2>1. kfs2' \in read_cluster(kfs2, kfs2_image, call.clstr)
    BY <1>7 DEF Walk
  <2>2. UNCHANGED <<kfs2_image, kfs2_handles, opened>>
    BY <1>7 DEF Walk
  <2>3. call'.op # "open"
    BY <1>7 DEF Walk, Reads
  <2>4. \A m : FilesNamed(m)' = FilesNamed(m)
    BY <2>2 DEF FilesNamed, Header
  <2>5. /\ DOMAIN kfs2'.buf = 0 .. KFS2_DATA_SZ /\ kfs2'.mounted
        /\ kfs2'.cluster_n = kfs2.cluster_n
    BY <1>7, <2>1, ReadCluster
  <2> QED
    BY <1>7, <2>2, <2>3, <2>4, <2>5 DEF HandleInv, Kfs2HandleKeepsFile, StandsFor
<1> QED
  BY <1>1, <1>2, <1>3, <1>4, <1>5, <1>6, <1>7 DEF Kfs2Step, Kfs2Next

LEMMA HandleInvNext == CacheInv /\ HandleInv /\ [FsNext]_fsVars => HandleInv'
<1> SUFFICES ASSUME CacheInv, HandleInv, [FsNext]_fsVars
             PROVE  HandleInv'
  OBVIOUS
<1>1. CASE HostStep \/ BootStep \/ KssfsStep \/ UNCHANGED fsVars
  <2>1. UNCHANGED <<kfs2, kfs2_image, kfs2_handles, opened, call>>
    BY <1>1 DEF HostStep, BootStep, KssfsStep, fsVars, kfs2Vars
  <2> QED
    BY <2>1, OthersKeepHandles
<1> QED
  BY <1>1, Kfs2KeepsHandles DEF FsNext

\* A handle that kfs2_open_file returns stands for the first file of its name
\* until kfs2_close_file, whichever other handles are opened and closed, and
\* whatever kfs2_read_byte leaves in the buffer meanwhile.
THEOREM HandlesKeepTheirFiles == FsSpec => []Kfs2HandleKeepsFile
<1>1. HandleInv => Kfs2HandleKeepsFile
  BY DEF HandleInv
<1> QED
  BY <1>1, CacheInvInit, CacheInvNext, HandleInvInit, HandleInvNext, PTL DEF FsSpec
=============================================================================
