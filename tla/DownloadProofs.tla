--------------------------- MODULE DownloadProofs ---------------------------
(***************************************************************************)
(* Proofs about Download, for any number of commands and archives.         *)
(*                                                                         *)
(* That mkdir succeeds once makes one command the owner of the directory.  *)
(* Filling says how far the owner, wherever it is, has come; Handed what   *)
(* holds once its manifest is whole, when the directory has no owner.      *)
(***************************************************************************)
EXTENDS Download, TLAPS

\* p made the directory and has not ended.
Owns(p) == pc[p] \in {"open", "unpack", "write", "finish", "fail"}

OneOwner == \A p, q \in Procs : Owns(p) /\ Owns(q) => p = q

Downloaded(p) == pc[p] \in {"mkdir", "open", "unpack", "write", "finish"} =>
                     digest[p] \in Archives /\ archive \in Archives

Filling(p) ==
    /\ Owns(p) => unpacked # "absent" /\ ~marked /\ ~Ready
    /\ pc[p] = "open" => unpacked = "empty" /\ manifest = NoManifest
    /\ pc[p] = "unpack" => unpacked \in {"empty", "part"} /\ manifest = NoManifest
    /\ pc[p] = "write" => manifest = NoManifest /\ unpacked = "all" /\ source \in Sound
    /\ pc[p] = "finish" => manifest # NoManifest

Handed ==
    /\ manifest # NoManifest => unpacked = "all" /\ source \in Sound
    /\ unpacked = "absent" => ~marked
    /\ Ready => ~marked

Served == \A p \in Procs : pc[p] = "served" => Ready

IInv ==
    /\ TypeOK
    /\ OneOwner
    /\ \A p \in Procs : Downloaded(p) /\ Filling(p)
    /\ Handed
    /\ Served
-----------------------------------------------------------------------------
LEMMA InitHolds == Init => IInv
BY ManifestAssumption DEF Init, IInv, TypeOK, PC, OneOwner, Owns, Downloaded, Filling, Handed, Served, Ready

\* A step of p that leaves the directory alone and makes p no owner of it.
LEMMA DirectoryKept ==
    ASSUME IInv, NEW p \in Procs, NEW label \in PC, GoTo(p, label), UNCHANGED dir,
           archive' = archive \/ archive' \in Archives,
           digest' \in [Procs -> Archives \cup {NoArchive}],
           \A q \in Procs \ {p} : digest'[q] = digest[q],
           label \notin {"open", "unpack", "write", "finish"},
           label = "mkdir" => archive' \in Archives /\ digest'[p] \in Archives,
           label = "fail" => Owns(p),
           label = "served" => Ready
    PROVE  IInv'
<1>0. /\ pc \in [Procs -> PC] /\ pc' = [pc EXCEPT ![p] = label]
      /\ UNCHANGED <<unpacked, source, manifest, marked>>
  BY DEF IInv, TypeOK, GoTo, dir
<1>1. TypeOK'
  BY <1>0 DEF IInv, TypeOK
<1>2. Ready' <=> Ready
  BY <1>0 DEF Ready
<1>3. OneOwner'
  BY <1>0 DEF IInv, OneOwner, Owns
<1>4. ASSUME NEW q \in Procs PROVE Downloaded(q)' /\ Filling(q)'
  <2>1. CASE q = p
    BY <1>0, <1>2, <2>1 DEF IInv, Downloaded, Filling, Owns
  <2>2. CASE q # p
    BY <1>0, <1>2, <2>2 DEF IInv, Downloaded, Filling, Owns
  <2> QED BY <2>1, <2>2
<1>5. Handed' /\ Served'
  BY <1>0, <1>2 DEF IInv, Handed, Served
<1> QED BY <1>1, <1>3, <1>4, <1>5 DEF IInv

LEMMA LookHolds == ASSUME IInv, NEW p \in Procs, Look(p) PROVE IInv'
<1>1. Present /\ manifest.whole => Ready
  BY DEF Present, Ready
<1> QED BY <1>1, DirectoryKept DEF Look, IInv, TypeOK, PC

LEMMA DownloadFileHolds ==
    ASSUME IInv, NEW p \in Procs, NEW a \in Archives, DownloadFile(p, a) PROVE IInv'
BY DirectoryKept DEF DownloadFile, IInv, TypeOK, PC

LEMMA EndHolds == ASSUME IInv, NEW p \in Procs, Start(p) \/ Fail(p) \/ Die(p) PROVE IInv'
BY DirectoryKept DEF Start, Fail, Die, IInv, TypeOK, PC, Owns

LEMMA MakeDirectoryHolds == ASSUME IInv, NEW p \in Procs, MakeDirectory(p) PROVE IInv'
<1>1. CASE unpacked # "absent"
  BY <1>1, DirectoryKept DEF MakeDirectory, IInv, TypeOK, PC, dir
<1>2. CASE unpacked = "absent"
  <2>0. /\ unpacked' = "empty" /\ pc' = [pc EXCEPT ![p] = "open"] /\ pc \in [Procs -> PC]
        /\ UNCHANGED <<archive, source, manifest, marked, digest>> /\ pc[p] = "mkdir"
    BY <1>2 DEF MakeDirectory, GoTo, IInv, TypeOK
  <2>1. manifest = NoManifest /\ ~marked /\ \A q \in Procs : ~Owns(q) /\ pc[q] # "served"
    BY <1>2 DEF IInv, Handed, Filling, Served, Ready
  <2>2. TypeOK'
    BY <2>0 DEF IInv, TypeOK, PC
  <2>3. OneOwner'
    BY <2>0, <2>1 DEF OneOwner, Owns
  <2>4. ASSUME NEW q \in Procs PROVE Downloaded(q)' /\ Filling(q)'
    BY <2>0, <2>1 DEF IInv, Downloaded, Filling, Owns, Ready
  <2>5. Handed' /\ Served'
    BY <2>0, <2>1 DEF Handed, Served, Ready
  <2> QED BY <2>2, <2>3, <2>4, <2>5 DEF IInv
<1> QED BY <1>1, <1>2

\* The owner's own steps: no other command is in the directory.
LEMMA OwnerHolds ==
    ASSUME IInv, NEW p \in Procs, OpenArchive(p) \/ Unpack(p) \/ WriteManifest(p) \/ MarkFailed(p)
    PROVE  IInv'
<1>1. Owns(p) /\ \A q \in Procs \ {p} : ~Owns(q)
  BY DEF IInv, OneOwner, Owns, OpenArchive, Unpack, WriteManifest, MarkFailed
<1>2. unpacked # "absent" /\ ~marked /\ ~Ready /\ \A q \in Procs : pc[q] # "served"
  BY <1>1 DEF IInv, Filling, Served
<1>3. /\ \A q \in Procs \ {p} : pc'[q] = pc[q]
      /\ UNCHANGED <<archive, digest>>
  BY DEF OpenArchive, Unpack, WriteManifest, MarkFailed, GoTo, IInv, TypeOK
<1>4. pc \in [Procs -> PC] /\ archive \in Archives \cup {NoArchive}
  BY DEF IInv, TypeOK
<1>5. CASE OpenArchive(p)
  <2>0. pc' = [pc EXCEPT ![p] = "unpack"] /\ source' = archive
        /\ UNCHANGED <<unpacked, manifest, marked>> /\ pc[p] = "open"
    BY <1>5 DEF OpenArchive, GoTo
  <2>1. TypeOK'
    BY <2>0, <1>3, <1>4 DEF IInv, TypeOK, PC
  <2>2. OneOwner' /\ Handed' /\ Served'
    BY <2>0, <1>1, <1>2, <1>4 DEF IInv, OneOwner, Owns, Handed, Served, Ready, Filling
  <2>3. ASSUME NEW q \in Procs PROVE Downloaded(q)' /\ Filling(q)'
    BY <2>0, <1>1, <1>2, <1>3, <1>4 DEF IInv, Downloaded, Filling, Owns, Ready
  <2> QED BY <2>1, <2>2, <2>3 DEF IInv
<1>6. CASE Unpack(p)
  <2>0. /\ UNCHANGED <<source, manifest, marked>> /\ pc[p] = "unpack"
        /\ \/ unpacked' = "part" /\ pc' = [pc EXCEPT ![p] = "unpack"]
           \/ unpacked' = "all" /\ source \in Sound /\ pc' = [pc EXCEPT ![p] = "write"]
           \/ unpacked' = "all" /\ source \notin Sound /\ pc' = [pc EXCEPT ![p] = "fail"]
    BY <1>6 DEF Unpack, GoTo
  <2>1. TypeOK'
    BY <2>0, <1>3, <1>4 DEF IInv, TypeOK, PC
  <2>2. OneOwner' /\ Handed' /\ Served'
    BY <2>0, <1>1, <1>2, <1>4 DEF IInv, OneOwner, Owns, Handed, Served, Ready, Filling
  <2>3. ASSUME NEW q \in Procs PROVE Downloaded(q)' /\ Filling(q)'
    BY <2>0, <1>1, <1>2, <1>3, <1>4 DEF IInv, Downloaded, Filling, Owns, Ready
  <2> QED BY <2>1, <2>2, <2>3 DEF IInv
<1>7. CASE WriteManifest(p)
  <2>0. /\ UNCHANGED <<unpacked, source, marked>>
        /\ unpacked = "all" /\ source \in Sound
        /\ digest[p] \in Archives /\ archive \in Archives
        /\ \/ /\ manifest' = [sha256 |-> digest[p], whole |-> FALSE]
              /\ pc' = [pc EXCEPT ![p] = "finish"]
           \/ /\ manifest' = [manifest EXCEPT !.whole = TRUE] /\ manifest \in Manifest
              /\ pc' = [pc EXCEPT ![p] = "served"]
    BY <1>7 DEF WriteManifest, GoTo, IInv, TypeOK, Filling, Downloaded, Handed
  <2>1. manifest' \in Manifest /\ manifest' # NoManifest /\ (pc'[p] = "served" <=> manifest'.whole)
    <3>1. CASE manifest' = [sha256 |-> digest[p], whole |-> FALSE] /\ pc'[p] = "finish"
      <4>1. manifest' \in Manifest
        BY <3>1, <2>0 DEF Manifest
      <4>2. manifest'.whole = FALSE
        BY <3>1
      <4> QED BY <4>1, <4>2, <3>1, ManifestAssumption
    <3>2. CASE manifest' = [manifest EXCEPT !.whole = TRUE] /\ manifest \in Manifest
               /\ pc'[p] = "served"
      <4>1. manifest' = [sha256 |-> manifest.sha256, whole |-> TRUE] /\ manifest.sha256 \in Archives
        BY <3>2 DEF Manifest
      <4> QED BY <4>1, <3>2, ManifestAssumption DEF Manifest
    <3> QED BY <3>1, <3>2, <2>0, <1>4
  <2>2. pc' \in [Procs -> PC] /\ pc'[p] \in {"finish", "served"}
    BY <2>0, <1>4 DEF PC
  <2>3. TypeOK'
    BY <2>0, <2>1, <2>2, <1>3 DEF IInv, TypeOK
  <2>4. Ready' <=> pc'[p] = "served"
    BY <2>1 DEF Ready
  <2>5. OneOwner' /\ Handed' /\ Served'
    BY <2>0, <2>2, <2>4, <1>1, <1>2, <1>3 DEF OneOwner, Owns, Handed, Served
  <2>6. ASSUME NEW q \in Procs PROVE Downloaded(q)' /\ Filling(q)'
    BY <2>0, <2>1, <2>2, <2>4, <1>1, <1>2, <1>3 DEF IInv, Downloaded, Filling, Owns
  <2> QED BY <2>3, <2>5, <2>6 DEF IInv
<1>8. CASE MarkFailed(p)
  <2>0. /\ UNCHANGED <<unpacked, source, manifest>> /\ marked' = TRUE
        /\ pc' = [pc EXCEPT ![p] = "refused"]
    BY <1>8 DEF MarkFailed, GoTo
  <2>1. TypeOK'
    BY <2>0, <1>3, <1>4 DEF IInv, TypeOK, PC
  <2>2. OneOwner' /\ Handed' /\ Served'
    BY <2>0, <1>1, <1>2, <1>4 DEF IInv, OneOwner, Owns, Handed, Served, Ready, Filling
  <2>3. ASSUME NEW q \in Procs PROVE Downloaded(q)' /\ Filling(q)'
    BY <2>0, <1>1, <1>2, <1>3, <1>4 DEF IInv, Downloaded, Filling, Owns, Ready
  <2> QED BY <2>1, <2>2, <2>3 DEF IInv
<1> QED BY <1>5, <1>6, <1>7, <1>8

LEMMA NextHolds == IInv /\ [Next]_vars => IInv'
<1> SUFFICES ASSUME IInv, [Next]_vars PROVE IInv'
  OBVIOUS
<1>1. ASSUME NEW p \in Procs, Start(p) \/ Step(p) \/ Fail(p) \/ Die(p) PROVE IInv'
  BY <1>1, LookHolds, DownloadFileHolds, MakeDirectoryHolds, OwnerHolds, EndHolds DEF Step
<1>2. ASSUME UNCHANGED vars PROVE IInv'
  <2>1. UNCHANGED <<archive, unpacked, source, manifest, marked, pc, digest>>
    BY <1>2 DEF vars, dir
  <2> QED
    BY <2>1 DEF IInv, TypeOK, OneOwner, Owns, Downloaded, Filling, Handed, Served, Ready
<1> QED BY <1>1, <1>2 DEF Next
-----------------------------------------------------------------------------
\* The invariant of the directory and of the command that fills it.
THEOREM Invariance == Spec => []IInv
BY InitHolds, NextHolds, PTL DEF Spec

\* Every variable keeps its type, for any number of commands.
THEOREM TypeCorrect == Spec => []TypeOK
<1>1. IInv => TypeOK
  BY DEF IInv
<1> QED BY <1>1, Invariance, PTL

\* A command that download_chrome serves has a whole build, whoever died or failed before.
THEOREM WholeBuilds == Spec => []ServedIsWhole
<1>1. IInv => ServedIsWhole
  BY DEF IInv, Served, Handed, ServedIsWhole, Ready
<1> QED BY <1>1, Invariance, PTL

\* No command changes a build once it is ready: it has no owner any more.
LEMMA ReadyStays ==
    ASSUME IInv, IInv', Next, Ready
    PROVE  UNCHANGED <<source, manifest, marked>>
<1>1. \A p \in Procs : ~Owns(p)
  BY DEF IInv, Filling
<1>2. unpacked # "absent"
  BY DEF IInv, Handed, Ready
<1> QED
  BY <1>1 DEF Next, Start, Step, Look, DownloadFile, MakeDirectory, OpenArchive, Unpack,
     WriteManifest, MarkFailed, Fail, Die, Owns, dir

\* The commands implement the write-once store of one build.
THEOREM WriteOnce == Spec => ImplementsWriteOnceStore
<1>1. Init => Store!Init
  BY DEF Init, Store!Init, store, Ready
<1>2. IInv /\ IInv' /\ [Next]_vars => [Store!Next]_store
  <2> SUFFICES ASSUME IInv, IInv', [Next]_vars, store' # store PROVE Store!Next
    OBVIOUS
  <2>1. Next
    <3>1. UNCHANGED vars => store' = store
      BY DEF vars, dir, store, Ready
    <3> QED BY <3>1
  <2>2. ~Ready
    <3> SUFFICES ASSUME Ready PROVE FALSE
      OBVIOUS
    <3>1. UNCHANGED <<source, manifest, marked>>
      BY <2>1, ReadyStays
    <3> QED BY <3>1 DEF store, Ready
  <2>3. Ready'
    BY <2>2 DEF store
  <2>4. /\ store = [path \in {"build"} |-> NoManifest]
        /\ store' = [path \in {"build"} |->
                        [manifest |-> manifest', source |-> source', marked |-> marked']]
    BY <2>2, <2>3 DEF store
  <2>5. [manifest |-> manifest', source |-> source', marked |-> marked'] \in Build
    <3>1. manifest' \in Manifest /\ manifest'.whole /\ source' \in Sound /\ marked' = FALSE
      BY <2>3 DEF IInv, TypeOK, Handed, Ready
    <3> QED BY <3>1 DEF Build
  <2>6. Store!Create("build")
    BY <2>4, <2>5 DEF Store!Create
  <2> QED BY <2>6 DEF Store!Next
<1> QED BY <1>1, <1>2, Invariance, PTL DEF Spec, ImplementsWriteOnceStore
=============================================================================
