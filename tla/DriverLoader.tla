---------------------------- MODULE DriverLoader ----------------------------
(***************************************************************************)
(* Which driver libraries OalDriverPluginLoader loads: the directories are *)
(* searched in order, in each the manifests and then the libraries that no *)
(* manifest has claimed.  A directory holds at most one library and its    *)
(* manifest here; what they contain is chosen by the environment.          *)
(***************************************************************************)
EXTENDS Naturals, Sequences

CONSTANTS DriverIds,  \* driver ids a library may export
          MaxDirs     \* bound: directories

VARIABLES dirs,    \* the directories, in search order
          loaded   \* loaded_: what was loaded, in order

dlVars == <<dirs, loaded>>

Libraries == [exports : {"v2", "v1", "nothing"}, id : DriverIds, starts : BOOLEAN, named : BOOLEAN]
Manifests == [state : {"none", "invalid", "out-of-process"}, id : {"none"}]
             \cup [state : {"valid"}, id : DriverIds]
Directories == [library : Libraries, manifest : Manifests]

DlInit == dirs = <<>> /\ loaded = <<>>

Entry(d, abi) == [id |-> d.library.id, abi |-> abi, manifest |-> d.manifest.state, from |-> d]

Find(list, id) == \E i \in DOMAIN list : list[i].id = id

\* mutant: a driver of a known id is loaded too
LoadLibraryAgain(list, d, withManifest) ==
    IF /\ d.library.exports = "v2" => withManifest /\ d.manifest.id = d.library.id
       /\ d.library.exports # "nothing" /\ d.library.starts
    THEN Append(list, Entry(d, d.library.exports)) ELSE list

\* loadLibrary: ABI v2 first, and only with a manifest of the same id; then ABI v1.
\* A second driver of an id is refused before it is started.
LoadLibrary(list, d, withManifest) ==
    IF /\ d.library.exports = "v2" => withManifest /\ d.manifest.id = d.library.id
       /\ d.library.exports # "nothing"
       /\ ~Find(list, d.library.id)
       /\ d.library.starts
    THEN Append(list, Entry(d, d.library.exports)) ELSE list

\* A manifest is refused before its library is claimed, or it claims the library.
LoadManifest(list, d) ==
    IF d.manifest.state = "valid" THEN LoadLibrary(list, d, TRUE) ELSE list

ScanDirectory(list, d) ==
    LET claimed == d.manifest.state = "valid"
        list1 == LoadManifest(list, d)
    IN IF ~claimed /\ d.library.named THEN LoadLibrary(list1, d, FALSE) ELSE list1

\* What is loaded after the directories of ds, one after the other.
Scanned(ds) ==
    LET scanned[k \in 0 .. Len(ds)] ==
            IF k = 0 THEN <<>> ELSE ScanDirectory(scanned[k - 1], ds[k])
    IN scanned[Len(ds)]

ScanDefaultPaths ==
    /\ dirs = <<>>
    /\ \E ds \in UNION {[1..n -> Directories] : n \in 1..MaxDirs} :
          /\ dirs' = ds /\ loaded' = Scanned(ds)

\* clear(), before the paths are searched again
Clear == dirs # <<>> /\ dirs' = <<>> /\ loaded' = <<>>

DlNext == ScanDefaultPaths \/ Clear

-----------------------------------------------------------------------------
(* Property *)

\* Whether a directory offers a driver of this id, by itself.
Offers(d, id) ==
    /\ d.library.id = id /\ d.library.starts
    /\ \/ d.library.exports = "v1" /\ (d.library.named \/ d.manifest.state = "valid")
       \/ d.library.exports = "v2" /\ d.manifest.state = "valid" /\ d.manifest.id = id

\* Each driver id is served by the first directory that offers it, once, and by no
\* other: no ABI v2 library runs without a valid manifest of its id, a duplicate never
\* replaces the first, a driver that does not start leaves room for the next
\* (driver_plugin_loader.cpp:142-312).
FirstOfferLoads ==
    \A id \in DriverIds :
        LET offers == {i \in DOMAIN dirs : Offers(dirs[i], id)}
            served == {i \in DOMAIN loaded : loaded[i].id = id}
        IN /\ offers = {} => served = {}
           /\ offers # {} => \E i \in offers, j \in served :
                 /\ \A k \in offers : i <= k
                 /\ served = {j} /\ loaded[j].from = dirs[i]
=============================================================================
