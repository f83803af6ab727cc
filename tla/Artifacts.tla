----------------------------- MODULE Artifacts ------------------------------
(***************************************************************************)
(* The cache of circuit artifacts (circuits/artifacts.go).  Nodes, remote  *)
(* workers and their threads that share a cache directory fetch the        *)
(* definition and the keys of a circuit without a lock: what is downloaded *)
(* goes to a temporary file, is hashed on the way and is renamed into      *)
(* place, and what was just renamed is read back without being hashed.     *)
(***************************************************************************)
EXTENDS Naturals, Sequences

CONSTANTS
    Loaders,            \* threads, of one or several programs
    MaxFetches,         \* bound on the downloads of a history
    MaxLoaderCrashes

\* In the order in which Download and LoadOrDownload go through them.
ArtifactKinds == <<"definition", "provingKey", "verifyingKey">>

ASSUME ArtifactsAssumption == MaxFetches \in Nat /\ MaxLoaderCrashes \in Nat

VARIABLES
    cache,              \* artifact -> the content of its file
    temp,               \* loader -> the content of its temporary file
    loader,             \* where each loader is
    fetches, loaderCrashes

artVars == <<cache, temp, loader, fetches, loaderCrashes>>

\* The expected bytes (by their hash), other bytes, or no file.
Contents == {"expected", "other"}
NoFile == "none"

Idle == [pc |-> "idle", load |-> FALSE, at |-> 1, got |-> <<>>]
At(l, pc) == loader[l].pc = pc
Kind(l) == ArtifactKinds[loader[l].at]
GoTo(l, pc) == loader' = [loader EXCEPT ![l].pc = pc]

\* The artifact is there; when it is being loaded, its content is decoded.
Have(l, content) ==
    loader' = [loader EXCEPT ![l].pc = IF loader[l].at = Len(ArtifactKinds) THEN "ready" ELSE "check",
                             ![l].at = IF @ = Len(ArtifactKinds) THEN @ ELSE @ + 1,
                             ![l].got = IF loader[l].load THEN Append(@, content) ELSE @]

ArtInit ==
    /\ cache \in [{ArtifactKinds[i] : i \in DOMAIN ArtifactKinds} -> {NoFile} \cup Contents]
    /\ temp = [l \in Loaders |-> NoFile]
    /\ loader = [l \in Loaders |-> Idle]
    /\ fetches = 0 /\ loaderCrashes = 0

----------------------------------------------------------------------------

\* Download (only makes sure of the files) or LoadOrDownload (also reads them);
\* again when the last attempt returned an error.
Start(l, load) ==
    /\ At(l, "idle") \/ At(l, "failed")
    /\ loader' = [loader EXCEPT ![l] = [Idle EXCEPT !.pc = "check", !.load = load]]
    /\ UNCHANGED <<cache, temp, fetches, loaderCrashes>>

\* loadFromCache and checkFileHash: read, then compare the hash.
CheckHash(l) ==
    /\ At(l, "check")
    /\ IF cache[Kind(l)] = "expected" THEN Have(l, "expected") ELSE GoTo(l, "download")
    /\ UNCHANGED <<cache, temp, fetches, loaderCrashes>>

\* The request: no answer, an answer that is not 200, or a body to copy.
Request(l) ==
    /\ At(l, "download") /\ fetches < MaxFetches
    /\ fetches' = fetches + 1
    /\ \/ GoTo(l, "failed") /\ UNCHANGED temp
       \/ GoTo(l, "copy") /\ temp' = [temp EXCEPT ![l] = "other"]
    /\ UNCHANGED <<cache, loaderCrashes>>

\* The body ends: whole, or with bytes that are not the expected ones.
CopyBody(l, content) ==
    /\ At(l, "copy")
    /\ temp' = [temp EXCEPT ![l] = content]
    /\ GoTo(l, "hash")
    /\ UNCHANGED <<cache, fetches, loaderCrashes>>

\* Every error removes the temporary file.
Abandon(l) == GoTo(l, "failed") /\ temp' = [temp EXCEPT ![l] = NoFile]

\* The connection breaks while the body is copied.
CopyFails(l) ==
    /\ At(l, "copy") /\ Abandon(l)
    /\ UNCHANGED <<cache, fetches, loaderCrashes>>

\* Mutant of VerifyDownload: the computed hash is not compared.
VerifyDownloadNot(l) ==
    /\ At(l, "hash") /\ GoTo(l, "rename")
    /\ UNCHANGED <<cache, temp, fetches, loaderCrashes>>

VerifyDownload(l) ==
    /\ At(l, "hash")
    /\ IF temp[l] = "expected" THEN GoTo(l, "rename") /\ UNCHANGED temp ELSE Abandon(l)
    /\ UNCHANGED <<cache, fetches, loaderCrashes>>

\* The rename replaces whatever is there.
Install(l) ==
    /\ At(l, "rename")
    /\ cache' = [cache EXCEPT ![Kind(l)] = temp[l]]
    /\ temp' = [temp EXCEPT ![l] = NoFile]
    /\ IF loader[l].load THEN GoTo(l, "reread") ELSE Have(l, NoFile)
    /\ UNCHANGED <<fetches, loaderCrashes>>

\* readFromCache: the file, unchecked.
ReadFromCache(l) ==
    /\ At(l, "reread")
    /\ IF cache[Kind(l)] = NoFile THEN GoTo(l, "failed") ELSE Have(l, cache[Kind(l)])
    /\ UNCHANGED <<cache, temp, fetches, loaderCrashes>>

\* The program ends; nothing reads the temporary file that it leaves behind.
LoaderCrash(l) ==
    /\ ~At(l, "idle") /\ loaderCrashes < MaxLoaderCrashes
    /\ loader' = [loader EXCEPT ![l] = Idle]
    /\ temp' = [temp EXCEPT ![l] = NoFile]
    /\ loaderCrashes' = loaderCrashes + 1
    /\ UNCHANGED <<cache, fetches>>

ArtNext ==
    \E l \in Loaders :
        \/ \E load \in BOOLEAN : Start(l, load)
        \/ CheckHash(l) \/ Request(l) \/ CopyFails(l) \/ VerifyDownload(l)
        \/ \E content \in Contents : CopyBody(l, content)
        \/ Install(l) \/ ReadFromCache(l) \/ LoaderCrash(l)

ArtSpec == ArtInit /\ [][ArtNext]_artVars

----------------------------------------------------------------------------
(* Properties                                                              *)

\* Whatever is in the cache at the start, whoever downloads the same artifact
\* at the same time, breaks off or crashes: a loader decodes nothing but the
\* expected bytes, and a file that is right is never replaced by a wrong one,
\* so that the unchecked read after the rename is safe.
LoadedIsExpected ==
    \A l \in Loaders :
        /\ \A i \in DOMAIN loader[l].got : loader[l].got[i] = "expected"
        /\ At(l, "ready") => \A k \in DOMAIN cache : cache[k] = "expected"
=============================================================================
