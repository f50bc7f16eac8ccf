------------------------------ MODULE BuildScript ------------------------------
(***************************************************************************)
(* The build script of solace-rs-sys (solace-rs-sys/build.rs): it finds or *)
(* fetches the Solace C library and tells Cargo what to link.              *)
(*                                                                         *)
(* A build may be interrupted anywhere and is run again, perhaps with      *)
(* another environment; what survives is the output directory: the tarball,*)
(* the extracted tree and the marker file.                                 *)
(***************************************************************************)
EXTENDS Naturals, Sequences

CONSTANTS
    Platforms,      \* records of os and arch
    Archive,        \* Archive[url]: the files in the tarball served there
    Digests,        \* what SOLCLIENT_EXPECTED_SHA256 may be: "todo" (or empty), "pinned"
    Environments    \* the environments builds run in

Urls == DOMAIN Archive
FilesOf(u) == {Archive[u][i] : i \in DOMAIN Archive[u]}
Files == UNION {FilesOf(u) : u \in Urls}

ASSUME UrlsAssumption == "official" \in Urls /\ \A u \in Urls : Archive[u] \in Seq(STRING) \ {<<>>}
ASSUME DigestsAssumption == "todo" \in Digests /\ Digests \subseteq {"todo", "pinned"}

VARIABLES
    platform, digest,   \* of this checkout
    env,                \* the environment of the build
    pc,                 \* where main is; "idle" between builds
    url,                \* the URL the build downloads from
    next,               \* the entry of the archive it unpacks next
    tarball,            \* the archive on disk
    tree,               \* tree[file]: the file in the library folder
    marker,             \* EXTRACTION_MARKER exists
    outcome,            \* how the last build ended
    skipped             \* some build ran with SOLCLIENT_SKIP_CHECKSUM

diskVars == <<tarball, tree, marker>>
vars == <<platform, digest, env, pc, url, next, diskVars, outcome, skipped>>

-----------------------------------------------------------------------------
(* What the compiler picks for a platform.                                 *)

\* The platforms the #[cfg] of the constants name, by os and architecture; on any
\* other the archive's name and the official URL are empty.
Supported(p) ==
    \/ p.os = "windows" /\ p.arch = "x86_64"
    \/ p.os = "macos"
    \/ p.os = "linux" /\ p.arch \in {"x86_64", "aarch64"}

HasArchiveName(p) == Supported(p)
HasOfficialUrl(p) == Supported(p)

-----------------------------------------------------------------------------
Absent == <<"absent", "absent">>
Qualities == {"good", "other", "torn"}      \* the pinned bytes, different ones, cut short
Contents == {Absent} \cup (Urls \X Qualities)

Plain == [docs |-> FALSE, lib |-> FALSE, url |-> "unset", skip |-> "unset"]

ASSUME EnvironmentsAssumption ==
    Plain \in Environments
    /\ Environments \subseteq [docs : BOOLEAN, lib : BOOLEAN, url : {"unset", "empty"} \cup Urls,
                                skip : {"unset", "empty", "1"}]

TypeOK ==
    /\ platform \in Platforms /\ digest \in Digests
    /\ env \in Environments
    /\ pc \in {"idle", "main", "fetch", "stream", "verify", "unpack"}
    /\ url \in Urls
    /\ next \in Nat \ {0}
    /\ tarball \in Contents /\ tree \in [Files -> Contents] /\ marker \in BOOLEAN
    /\ outcome \in {"none", "docs", "given", "linked", "panic", "killed"}
    /\ skipped \in BOOLEAN

Init ==
    /\ platform \in Platforms /\ digest \in Digests
    /\ Supported(platform) \/ digest = "todo"
    /\ env = Plain
    /\ pc = "idle"
    /\ url = "official"
    /\ next = 1
    /\ tarball = Absent /\ tree = [file \in Files |-> Absent] /\ marker = FALSE
    /\ outcome = "none"
    /\ skipped = FALSE

\* The script ends, and its locals and environment with it.
Exit(how) ==
    pc' = "idle" /\ outcome' = how /\ env' = Plain /\ url' = "official" /\ next' = 1

Goto(label) == pc' = label /\ UNCHANGED <<outcome, env>>

-----------------------------------------------------------------------------
\* Cargo runs the script; any environment, and the one before it may differ.
Begin(e) ==
    /\ pc = "idle"
    /\ env' = e
    /\ skipped' = (skipped \/ e.skip = "1")
    /\ pc' = "main" /\ outcome' = "none"
    /\ UNCHANGED <<platform, digest, url, next, diskVars>>

Fetching == ~env.docs /\ ~env.lib

\* main: a library that is given or extracted already is linked, else fetched.
\* An empty SOLCLIENT_TARBALL_URL counts as none.
Main ==
    /\ pc = "main"
    /\ CASE env.docs -> Exit("docs")
         [] ~env.docs /\ env.lib -> Exit("given")
         [] Fetching /\ env.url \notin Urls /\ ~HasOfficialUrl(platform) -> Exit("panic")
         [] Fetching /\ (env.url \in Urls \/ HasOfficialUrl(platform)) /\ marker -> Exit("linked")
         [] OTHER -> /\ Goto("fetch")
                     /\ url' = IF env.url \in Urls THEN env.url ELSE "official"
                     /\ UNCHANGED next
    /\ UNCHANGED <<platform, digest, diskVars, skipped>>

Https(u) == u # "plain"

Panic ==
    /\ Exit("panic")
    /\ UNCHANGED <<platform, digest, diskVars, skipped>>

\* The assertion on the scheme, no answer from the server, or no file to write to.
FetchFails == pc = "fetch" /\ Panic

\* Variant of Fetch: a tarball that is there is not opened again.
FetchAnew ==
    /\ pc = "fetch"
    /\ Https(url)
    /\ HasArchiveName(platform)
    /\ tarball = Absent
    /\ Goto("stream")
    /\ tarball' = <<url, "torn">>
    /\ UNCHANGED <<platform, digest, url, next, tree, marker, skipped>>

\* The response is there and File::create empties the tarball.  Without an archive name its
\* path is the output directory itself, which cannot be created as a file.
Fetch ==
    /\ pc = "fetch"
    /\ Https(url)
    /\ HasArchiveName(platform)
    /\ Goto("stream")
    /\ tarball' = <<url, "torn">>
    /\ UNCHANGED <<platform, digest, url, next, tree, marker, skipped>>

\* A read or a write fails half way.
StreamFails == pc = "stream" /\ Panic

\* Every byte is on disk; the pinned ones are those of the official archive.
Stream(quality) ==
    /\ pc = "stream"
    /\ quality = "good" => Archive[url] = Archive["official"]
    /\ Goto("verify")
    /\ tarball' = <<url, quality>>
    /\ UNCHANGED <<platform, digest, url, next, tree, marker, skipped>>

Unverified == env.skip = "1" \/ digest = "todo"

\* Variant of Verify: a mismatch is only a warning.
VerifyWarns ==
    /\ pc = "verify"
    /\ Goto("unpack")
    /\ UNCHANGED <<platform, digest, url, next, diskVars, skipped>>

\* The digest of what was streamed; a tarball that does not match is removed.
Verify ==
    /\ pc = "verify"
    /\ IF Unverified \/ tarball[2] = "good"
       THEN Goto("unpack") /\ UNCHANGED <<tarball, url, next>>
       ELSE Exit("panic") /\ tarball' = Absent
    /\ UNCHANGED <<platform, digest, tree, marker, skipped>>

Entries == Archive[url]

\* Variant of Unpack: an entry that is there from an earlier build is kept.
UnpackKeepsOld ==
    /\ pc = "unpack"
    /\ next <= Len(Entries)
    /\ tree' = [tree EXCEPT ![Entries[next]] = IF @ = Absent THEN tarball ELSE @]
    /\ next' = next + 1
    /\ Goto("unpack")
    /\ UNCHANGED <<platform, digest, url, tarball, marker, skipped>>

\* One entry of the archive, written over what was there.
Unpack ==
    /\ pc = "unpack"
    /\ next <= Len(Entries)
    /\ tree' = [tree EXCEPT ![Entries[next]] = tarball]
    /\ next' = next + 1
    /\ Goto("unpack")
    /\ UNCHANGED <<platform, digest, url, tarball, marker, skipped>>

\* An entry that cannot be read or written, or leads out of the folder.
UnpackFails ==
    /\ pc = "unpack"
    /\ next <= Len(Entries)
    /\ tree' \in {tree, [tree EXCEPT ![Entries[next]] = <<url, "torn">>]}
    /\ Exit("panic")
    /\ UNCHANGED <<platform, digest, tarball, marker, skipped>>

\* Behind the last entry comes the marker, and back in main the linking.
Mark ==
    /\ pc = "unpack"
    /\ next > Len(Entries)
    /\ marker' = TRUE
    /\ Exit("linked")
    /\ UNCHANGED <<platform, digest, tarball, tree, skipped>>

\* The build is interrupted; a file being written stays as it is.
Interrupt ==
    /\ pc # "idle"
    /\ tree' \in {tree} \cup {[tree EXCEPT ![Entries[i]] = <<url, "torn">>] :
                                 i \in {j \in {next} : pc = "unpack" /\ j <= Len(Entries)}}
    /\ Exit("killed")
    /\ UNCHANGED <<platform, digest, tarball, marker, skipped>>

Step ==
    \/ Main
    \/ FetchFails \/ Fetch
    \/ StreamFails \/ \E quality \in {"good", "other"} : Stream(quality)
    \/ Verify
    \/ Unpack \/ UnpackFails \/ Mark

Next == (\E e \in Environments : Begin(e)) \/ Step \/ Interrupt

Spec == Init /\ [][Next]_vars

\* A script that runs comes to an end.  Somebody builds again without special
\* settings, and the official server and the disk do not fail for ever.
Fairness ==
    /\ WF_vars(Step)
    /\ SF_vars(Begin(Plain))
    /\ SF_vars(url = "official" /\ Fetch) /\ SF_vars(url = "official" /\ Stream("good"))
    /\ \A i \in 1 .. Len(Archive["official"]) : SF_vars(url = "official" /\ next = i /\ Unpack)

FairSpec == Spec /\ Fairness

-----------------------------------------------------------------------------
(* Properties.                                                             *)

\* The marker's "presence proves the library tree is complete" (build.rs:13-14), and what
\* is linked has it (build.rs:296-305): every file of some one archive is there, whole and
\* from that archive, however often builds were interrupted before, and from whatever
\* other URLs.  A tree left behind half extracted is never linked.
MarkerProvesTheTree ==
    marker \/ outcome = "linked" =>
        \E u \in Urls :
           \E quality \in {"good", "other"} : \A file \in FilesOf(u) : tree[file] = <<u, quality>>

\* Once a digest is pinned and as long as no build waives it, no byte that does
\* not match ever reaches the folder that is linked, not even through an archive
\* an earlier build left on disk (build.rs:182-203).
PinnedBytesOnly ==
    digest = "pinned" /\ ~skipped => \A file \in Files : tree[file][2] # "other"

\* A build that was interrupted heals: unless interruptions go on for ever, the
\* library is there in the end, whatever the earlier builds left behind.
BuildsHeal ==
    HasOfficialUrl(platform) => (<>[](outcome # "killed") => <>marker)
=============================================================================
