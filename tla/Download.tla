------------------------------ MODULE Download ------------------------------
(***************************************************************************)
(* download_chrome (releases.py): a Chrome-for-Testing build is downloaded *)
(* to an archive, unpacked into a directory, and named by a manifest, the  *)
(* file harvest-download.json.  Several commands may download one build at *)
(* once, and each may die or fail anywhere; the files are all that stays.  *)
(*                                                                         *)
(* One release and platform: the paths of two never meet.  What a server   *)
(* sends may be cut off: a read in chunks does not notice, but unpacking   *)
(* does.                                                                   *)
(***************************************************************************)
EXTENDS Naturals

CONSTANTS
    Procs,         \* the commands that download at the same time
    Archives,      \* what the server may send
    Sound,         \* the archives that unpack, and hold the binary
    NoArchive,
    NoManifest

ASSUME ArchivesAssumption == Sound \subseteq Archives /\ NoArchive \notin Archives

\* What a manifest says, and of which archive: written in full, or begun.
Manifest == [sha256 : Archives, whole : BOOLEAN]

ASSUME ManifestAssumption == NoManifest \notin Manifest

VARIABLES
    archive,       \* the file chrome-PLATFORM.zip
    unpacked,      \* the release directory: "absent", or how far it is unpacked
    source,        \* history: the archive that was opened to unpack it
    manifest,      \* the manifest in it
    marked,        \* it holds HARVEST_DOWNLOAD_FAILED
    pc,            \* where each command is
    digest         \* the archive each has downloaded, by its sha256

dir  == <<unpacked, source, manifest, marked>>
vars == <<archive, dir, pc, digest>>

PC == {"idle", "look", "download", "mkdir", "open", "unpack", "write", "finish", "fail",
       "served", "refused"}

TypeOK ==
    /\ archive \in Archives \cup {NoArchive}
    /\ unpacked \in {"absent", "empty", "part", "all"}
    /\ source \in Archives \cup {NoArchive}
    /\ manifest \in Manifest \cup {NoManifest}
    /\ marked \in BOOLEAN
    /\ pc \in [Procs -> PC]
    /\ digest \in [Procs -> Archives \cup {NoArchive}]

Init ==
    /\ archive = NoArchive /\ source = NoArchive /\ unpacked = "absent"
    /\ manifest = NoManifest /\ marked = FALSE
    /\ pc = [p \in Procs |-> "idle"]
    /\ digest = [p \in Procs |-> NoArchive]
-----------------------------------------------------------------------------
GoTo(p, label) == pc' = [pc EXCEPT ![p] = label]

Start(p) ==
    /\ pc[p] \in {"idle", "served", "refused"}
    /\ GoTo(p, "look")
    /\ digest' = [digest EXCEPT ![p] = NoArchive]
    /\ UNCHANGED <<archive, dir>>

\* The manifest and the binary are there.
Present == manifest # NoManifest /\ unpacked = "all" /\ source \in Sound

\* Mutant: a directory is enough.
LookForDirectory(p) ==
    /\ pc[p] = "look"
    /\ GoTo(p, IF unpacked = "absent" THEN "download" ELSE "served")
    /\ UNCHANGED <<archive, dir, digest>>

\* Mutant: a directory is waited for, as if its maker could not have died.
LookAndWait(p) ==
    /\ pc[p] = "look"
    /\ unpacked # "absent" => Present
    /\ GoTo(p, IF unpacked = "absent" THEN "download" ELSE "served")
    /\ UNCHANGED <<archive, dir, digest>>

\* A directory is used, if its manifest and binary are there and the manifest can be
\* read, or else refused.
Look(p) ==
    /\ pc[p] = "look"
    /\ GoTo(p, IF unpacked = "absent" THEN "download"
               ELSE IF Present /\ manifest.whole THEN "served" ELSE "refused")
    /\ UNCHANGED <<archive, dir, digest>>

\* Mutant: the digest is not kept.
DownloadWithoutDigest(p, a) ==
    /\ pc[p] = "download"
    /\ archive' = a
    /\ GoTo(p, "mkdir")
    /\ UNCHANGED <<dir, digest>>

\* _download_file: into a temporary file of p's own, then renamed.
DownloadFile(p, a) ==
    /\ pc[p] = "download"
    /\ archive' = a
    /\ digest' = [digest EXCEPT ![p] = a]
    /\ GoTo(p, "mkdir")
    /\ UNCHANGED dir

\* Mutant: mkdir(exist_ok=True).
MakeAnyDirectory(p) ==
    /\ pc[p] = "mkdir"
    /\ unpacked' = "empty"
    /\ GoTo(p, "open")
    /\ UNCHANGED <<archive, source, manifest, marked, digest>>

\* mkdir fails if a rival made the directory meanwhile; this is not marked as a failure.
MakeDirectory(p) ==
    /\ pc[p] = "mkdir"
    /\ IF unpacked = "absent"
       THEN unpacked' = "empty" /\ GoTo(p, "open")
       ELSE unpacked' = unpacked /\ GoTo(p, "refused")
    /\ UNCHANGED <<archive, source, manifest, marked, digest>>

\* ZipFile opens what is at the path of the archive now, and reads on in that file.
OpenArchive(p) ==
    /\ pc[p] = "open"
    /\ source' = archive
    /\ GoTo(p, "unpack")
    /\ UNCHANGED <<archive, unpacked, manifest, marked, digest>>

\* Only an archive that is sound unpacks in full, with the binary in it.
Unpack(p) ==
    /\ pc[p] = "unpack"
    /\ IF unpacked = "empty"
       THEN unpacked' = "part" /\ GoTo(p, "unpack")
       ELSE unpacked' = "all" /\ GoTo(p, IF source \in Sound THEN "write" ELSE "fail")
    /\ UNCHANGED <<archive, source, manifest, marked, digest>>

\* The manifest is written in place: for a while it is there and cannot be read.
WriteManifest(p) ==
    /\ \/ /\ pc[p] = "write"
          /\ manifest' = [sha256 |-> digest[p], whole |-> FALSE]
          /\ GoTo(p, "finish")
       \/ /\ pc[p] = "finish"
          /\ manifest' = [manifest EXCEPT !.whole = TRUE]
          /\ GoTo(p, "served")
    /\ UNCHANGED <<archive, unpacked, source, marked, digest>>

\* An error while the directory is filled: it is marked, and stays.
Fail(p) ==
    /\ pc[p] \in {"open", "unpack", "write", "finish"}
    /\ GoTo(p, "fail")
    /\ UNCHANGED <<archive, dir, digest>>

MarkFailed(p) ==
    /\ pc[p] = "fail"
    /\ marked' = TRUE
    /\ GoTo(p, "refused")
    /\ UNCHANGED <<archive, unpacked, source, manifest, digest>>

\* The download itself fails, or the command is killed.
Die(p) ==
    /\ pc[p] \notin {"idle", "served", "refused"}
    /\ GoTo(p, "refused")
    /\ UNCHANGED <<archive, dir, digest>>

Step(p) ==
    \/ Look(p) \/ (\E a \in Archives : DownloadFile(p, a)) \/ MakeDirectory(p)
    \/ OpenArchive(p) \/ Unpack(p) \/ WriteManifest(p) \/ MarkFailed(p)

Next == \E p \in Procs : Start(p) \/ Step(p) \/ Fail(p) \/ Die(p)

Spec == Init /\ [][Next]_vars /\ \A p \in Procs : WF_vars(Step(p))
-----------------------------------------------------------------------------
\* A build that is handed out: its whole manifest, and what is in its directory.
Build == [manifest : {m \in Manifest : m.whole}, source : Sound, marked : {FALSE}]

ASSUME BuildAssumption == NoManifest \notin Build

Ready == manifest # NoManifest /\ manifest.whole

store == [path \in {"build"} |->
             IF Ready THEN [manifest |-> manifest, source |-> source, marked |-> marked]
             ELSE NoManifest]

Store == INSTANCE WriteOnceStore
            WITH Paths <- {"build"}, Bundles <- Build, NoBundle <- NoManifest

\* A build appears once and whole, from an archive that unpacks, and is never changed or
\* marked as failed afterwards, whoever downloads it at the same time and wherever they die.
ImplementsWriteOnceStore == Store!Init /\ [][Store!Next]_store

\* A command that ends well has a build in its hands, and no remains of another's or its
\* own failure: what is there in part is refused by all, for ever.
ServedIsWhole == \A p \in Procs : pc[p] = "served" =>
    Ready /\ unpacked = "all" /\ source \in Sound /\ ~marked

\* Every download ends, though its files may then be in the way of all later ones.
EveryDownloadEnds == \A p \in Procs : pc[p] # "idle" ~> pc[p] \in {"served", "refused"}
=============================================================================
