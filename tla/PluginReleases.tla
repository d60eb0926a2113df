---------------------------- MODULE PluginReleases ----------------------------
(***************************************************************************)
(* pluginRelease.service.ts and its routes: the released DLL of each game  *)
(* version and the manifest that lists them, two files that are replaced   *)
(* one after the other.  Each file is written beside its target and then   *)
(* renamed, so a reader never sees half of one.  A publication waits for   *)
(* the ones requested before it (the promise chain `publishing`).  The     *)
(* chain is memory of one process, while other instances may share the     *)
(* files: publications are assumed to go to one process.                   *)
(***************************************************************************)
EXTENDS Backend, Naturals, Sequences

CONSTANTS Versions,  \* game versions
          Builds     \* uploaded DLLs, and the checksums that identify them

ASSUME ReleasesAssumption == None \notin Builds

VARIABLES dll,       \* dll[v]: the file CompCube-bs<v>.dll
          manifest,  \* manifest[v]: the checksum that manifest.json lists
          broken,    \* history: versions whose last publication died half way
          chain,     \* the publications that wait or run, the oldest first
          relReq     \* what each slot is executing, and what it has read

releasesVars == <<dll, manifest, broken, chain, relReq>>

Listing == [Versions -> Builds \cup {None}]
HalfDone == {"dll_replaced", "manifest_read"}
ReleaseRequest == [op : {"idle", "queued", "download"} \cup HalfDone,
                   version : Versions \cup {None},
                   build : Builds \cup {None},
                   read : Listing]
NothingListed == [v \in Versions |-> None]
NoRelease == [op |-> "idle", version |-> None, build |-> None,
              read |-> NothingListed]

ReleasesInit ==
    /\ dll = NothingListed
    /\ manifest = NothingListed
    /\ broken = {}
    /\ chain = << >>
    /\ relReq = [s \in Slots |-> NoRelease]

SetRelease(s, r) == relReq' = [relReq EXCEPT ![s] = r]
Doing(s, op) == relReq[s].op = op

NoChain(s) == TRUE   \* mutant: publications are not serialized
MyTurn(s) == Head(chain) = s

\* An accepted upload joins the chain.
PublishRequest(s, v, b) ==
    /\ Doing(s, "idle")
    /\ chain' = Append(chain, s)
    /\ SetRelease(s, [NoRelease EXCEPT !.op = "queued", !.version = v,
                                       !.build = b])
    /\ UNCHANGED <<dll, manifest, broken>>

PublishDll(s) ==
    /\ Doing(s, "queued")
    /\ MyTurn(s)
    /\ dll' = [dll EXCEPT ![relReq[s].version] = relReq[s].build]
    /\ SetRelease(s, [relReq[s] EXCEPT !.op = "dll_replaced"])
    /\ UNCHANGED <<manifest, broken, chain>>

PublishRead(s) ==
    /\ Doing(s, "dll_replaced")
    /\ SetRelease(s, [relReq[s] EXCEPT !.op = "manifest_read",
                                       !.read = manifest])
    /\ UNCHANGED <<dll, manifest, broken, chain>>

\* The other entries are those that were read.
PublishManifest(s) ==
    /\ Doing(s, "manifest_read")
    /\ manifest' = [relReq[s].read EXCEPT ![relReq[s].version] = relReq[s].build]
    /\ broken' = broken \ {relReq[s].version}
    /\ chain' = Tail(chain)
    /\ SetRelease(s, NoRelease)
    /\ UNCHANGED dll

\* A rejected version or body, or a failing file operation: the next one runs.
PublishFails(s) ==
    /\ relReq[s].op \in {"queued"} \cup HalfDone
    /\ MyTurn(s)
    /\ broken' = IF relReq[s].op \in HalfDone
                 THEN broken \cup {relReq[s].version} ELSE broken
    /\ chain' = Tail(chain)
    /\ SetRelease(s, NoRelease)
    /\ UNCHANGED <<dll, manifest>>

\* filePath: the manifest is read, the file exists; its checksum is announced.
DownloadBegin(s, v) ==
    /\ Doing(s, "idle")
    /\ manifest[v] # None
    /\ dll[v] # None
    /\ SetRelease(s, [NoRelease EXCEPT !.op = "download", !.version = v,
                                       !.build = manifest[v]])
    /\ UNCHANGED <<dll, manifest, broken, chain>>

\* The file is opened and sent.
DownloadSend(s) ==
    /\ Doing(s, "download")
    /\ SetRelease(s, NoRelease)
    /\ UNCHANGED <<dll, manifest, broken, chain>>

\* The process dies; the next one finds the files as they are.
ReleasesCrash ==
    /\ broken' = broken \cup
          {relReq[s].version : s \in {t \in Slots : relReq[t].op \in HalfDone}}
    /\ chain' = << >>
    /\ relReq' = [s \in Slots |-> NoRelease]
    /\ UNCHANGED <<dll, manifest>>

ReleasesNext ==
    \/ \E s \in Slots, v \in Versions :
          \/ \E b \in Builds : PublishRequest(s, v, b)
          \/ DownloadBegin(s, v)
    \/ \E s \in Slots :
          \/ PublishDll(s)
          \/ PublishRead(s)
          \/ PublishManifest(s)
          \/ PublishFails(s)
          \/ DownloadSend(s)
    \/ ReleasesCrash

ReleasesSpec == ReleasesInit /\ [][ReleasesNext]_releasesVars

-----------------------------------------------------------------------------
(* The files, the chain and the slots; the publication that runs is the    *)
(* head of the chain.                                                      *)
ReleasesTypeOK ==
    /\ dll \in Listing
    /\ manifest \in Listing
    /\ broken \subseteq Versions
    /\ chain \in Seq(Slots)
    /\ relReq \in [Slots -> ReleaseRequest]
    /\ \A s \in Slots : relReq[s].op \in HalfDone => chain # << >> /\ Head(chain) = s

(* The checksum that manifest.json lists for a version is the checksum of  *)
(* the file that a download sends, whatever publications, failures and     *)
(* crashes came before, unless a publication of that version is between    *)
(* its two renames or died there.                                          *)
ListedMatchesFile ==
    \A v \in Versions :
        \/ manifest[v] = dll[v]
        \/ v \in broken
        \/ \E s \in Slots : relReq[s].op \in HalfDone /\ relReq[s].version = v

(* A publication changes the manifest's entry of its own version only: no  *)
(* release is lost to a manifest that was read before it was listed.       *)
OtherVersionsKept ==
    [][\A v \in Versions : manifest'[v] # manifest[v] =>
          \E s \in Slots : /\ relReq[s].version = v
                           /\ relReq[s].build = manifest'[v]]_releasesVars
=============================================================================
