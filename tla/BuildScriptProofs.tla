-------------------------- MODULE BuildScriptProofs --------------------------
(***************************************************************************)
(* What the marker of the build script proves, for any platforms, archives *)
(* and environments.                                                       *)
(***************************************************************************)
EXTENDS BuildScript, TLAPS

Whole == {"good", "other"}
Ends == {"docs", "given", "linked", "panic", "killed"}

\* Beyond main there is no marker, the tarball is the archive of url, and what has been
\* unpacked is in the tree.
FetchIsRight ==
    /\ pc \in {"fetch", "stream", "verify", "unpack"} => ~marker
    /\ pc # "unpack" => next = 1
    /\ pc \in {"verify", "unpack"} => \E quality \in Whole : tarball = <<url, quality>>
    /\ pc = "unpack" => \A i \in DOMAIN Archive[url] : i < next => tree[Archive[url][i]] = tarball

\* A waiver is noted before it counts, and without one only pinned bytes are unpacked.
WaiversAreNoted ==
    /\ env.skip = "1" => skipped
    /\ digest = "pinned" /\ ~skipped /\ pc = "unpack" => tarball[2] = "good"

\* The marker is written behind the last entry, and main links what has it.
MarkedTreeIsWhole ==
    marker => \E u \in Urls : \E quality \in Whole : \A file \in FilesOf(u) : tree[file] = <<u, quality>>

OnlyMarkedTreesAreLinked == outcome = "linked" => marker

BInv ==
    /\ TypeOK
    /\ FetchIsRight
    /\ WaiversAreNoted
    /\ MarkedTreeIsWhole
    /\ OnlyMarkedTreesAreLinked
    /\ PinnedBytesOnly

-----------------------------------------------------------------------------
\* Entries of an archive are files.
LEMMA EntriesAreFiles ==
    ASSUME NEW u \in Urls, NEW i \in DOMAIN Archive[u]
    PROVE  /\ Archive[u][i] \in FilesOf(u)
           /\ Archive[u][i] \in Files
BY DEF FilesOf, Files

\* An archive has a length.
LEMMA ArchivesAreSequences ==
    ASSUME NEW u \in Urls
    PROVE  /\ Len(Archive[u]) \in Nat
           /\ DOMAIN Archive[u] = 1 .. Len(Archive[u])
BY UrlsAssumption

\* Before the first build there is nothing to prove.
LEMMA InitHolds == Init => BInv
<1> SUFFICES ASSUME Init PROVE BInv
    OBVIOUS
<1>1. Absent \in Contents /\ tree \in [Files -> Contents]
    BY DEF Init, Contents
<1>2. TypeOK
    <2>1. url \in Urls /\ env \in Environments /\ next \in Nat \ {0}
        BY UrlsAssumption, EnvironmentsAssumption DEF Init
    <2>2. /\ platform \in Platforms /\ digest \in Digests /\ marker \in BOOLEAN /\ skipped \in BOOLEAN
          /\ pc = "idle" /\ outcome = "none" /\ tarball = Absent
        BY DigestsAssumption DEF Init
    <2> QED
        BY <1>1, <2>1, <2>2 DEF TypeOK
<1>3. WaiversAreNoted
    BY DEF Init, WaiversAreNoted, Plain
<1>4. PinnedBytesOnly
    BY DEF Init, PinnedBytesOnly, Absent
<1> QED
    BY <1>2, <1>3, <1>4 DEF BInv, Init, FetchIsRight, MarkedTreeIsWhole, OnlyMarkedTreesAreLinked

-----------------------------------------------------------------------------
\* A step that ends the script and leaves marker and tree alone.
LEMMA ExitKeepsInv ==
    ASSUME BInv, NEW how \in Ends, how # "linked" \/ marker, Exit(how), tarball' \in Contents,
           UNCHANGED <<platform, digest, tree, marker, skipped>>
    PROVE  BInv'
<1> USE DEF BInv
<1>1. TypeOK'
    BY UrlsAssumption, EnvironmentsAssumption DEF TypeOK, Exit, Ends
<1>2. FetchIsRight'
    BY DEF FetchIsRight, Exit
<1>3. WaiversAreNoted'
    BY DEF WaiversAreNoted, Exit, Plain
<1>4. MarkedTreeIsWhole'
    BY DEF MarkedTreeIsWhole
<1>5. OnlyMarkedTreesAreLinked'
    BY DEF OnlyMarkedTreesAreLinked, Exit
<1>6. PinnedBytesOnly'
    BY DEF PinnedBytesOnly
<1> QED
    BY <1>1, <1>2, <1>3, <1>4, <1>5, <1>6

\* A step that tears a file of the tree, or none, and ends the script.
LEMMA TearKeepsInv ==
    ASSUME BInv, pc = "unpack", NEW i \in DOMAIN Archive[url],
           tree' = [tree EXCEPT ![Archive[url][i]] = <<url, "torn">>],
           NEW how \in Ends, how # "linked", Exit(how),
           UNCHANGED <<platform, digest, tarball, marker, skipped>>
    PROVE  BInv'
<1> USE DEF BInv
<1>1. ~marker
    BY DEF FetchIsRight
<1>2. <<url, "torn">> \in Contents /\ url \in Urls /\ Archive[url][i] \in Files
    BY EntriesAreFiles DEF Contents, Qualities, TypeOK
<1>3. TypeOK'
    BY <1>2, UrlsAssumption, EnvironmentsAssumption DEF TypeOK, Exit, Ends
<1>4. FetchIsRight'
    BY <1>1 DEF FetchIsRight, Exit
<1>5. WaiversAreNoted'
    BY DEF WaiversAreNoted, Exit, Plain
<1>6. PinnedBytesOnly'
    BY <1>2 DEF PinnedBytesOnly, TypeOK
<1> QED
    BY <1>1, <1>3, <1>4, <1>5, <1>6 DEF MarkedTreeIsWhole, OnlyMarkedTreesAreLinked, Exit

\* A build begins.
LEMMA BeginKeepsInv ==
    ASSUME BInv, NEW e \in Environments, Begin(e)
    PROVE  BInv'
<1> USE DEF BInv, Begin, diskVars
<1>1. TypeOK'
    BY DEF TypeOK
<1>2. FetchIsRight'
    BY DEF FetchIsRight
<1>3. WaiversAreNoted'
    BY DEF WaiversAreNoted
<1> QED
    BY <1>1, <1>2, <1>3 DEF MarkedTreeIsWhole, OnlyMarkedTreesAreLinked, PinnedBytesOnly

\* main links only with the marker, and fetches only without.
LEMMA MainKeepsInv ==
    ASSUME BInv, Main
    PROVE  BInv'
<1>0. UNCHANGED <<platform, digest, tarball, tree, marker, skipped>>
    BY DEF Main, diskVars
<1>1. env.docs \in BOOLEAN /\ env.lib \in BOOLEAN
    BY EnvironmentsAssumption DEF BInv, TypeOK
<1>2. \/ \E how \in {"docs", "given", "panic"} : Exit(how)
      \/ Exit("linked") /\ marker
      \/ ~marker /\ Goto("fetch") /\ url' \in Urls /\ UNCHANGED next
    BY <1>1, UrlsAssumption DEF Main, Fetching
<1>3. CASE \E how \in {"docs", "given", "panic"} : Exit(how)
    BY <1>0, <1>3, ExitKeepsInv DEF Ends, BInv, TypeOK
<1>4. CASE Exit("linked") /\ marker
    BY <1>0, <1>4, ExitKeepsInv DEF Ends, BInv, TypeOK
<1>5. CASE ~marker /\ Goto("fetch") /\ url' \in Urls /\ UNCHANGED next
    <2> USE <1>0, <1>5 DEF Goto, BInv
    <2>1. pc = "main"
        BY DEF Main
    <2>2. TypeOK'
        BY DEF TypeOK
    <2>3. FetchIsRight'
        BY <2>1 DEF FetchIsRight
    <2> QED
        BY <2>2, <2>3 DEF WaiversAreNoted, MarkedTreeIsWhole, OnlyMarkedTreesAreLinked, PinnedBytesOnly
<1> QED
    BY <1>2, <1>3, <1>4, <1>5

\* Creating the tarball touches no tree.
LEMMA FetchKeepsInv ==
    ASSUME BInv, Fetch
    PROVE  BInv'
<1> USE DEF BInv, Fetch, Goto
<1>1. TypeOK'
    BY DEF TypeOK, Contents, Qualities
<1>2. FetchIsRight'
    BY DEF FetchIsRight
<1> QED
    BY <1>1, <1>2 DEF WaiversAreNoted, MarkedTreeIsWhole, OnlyMarkedTreesAreLinked, PinnedBytesOnly

\* The tarball becomes the archive of url, pinned bytes or others.
LEMMA StreamKeepsInv ==
    ASSUME BInv, NEW quality \in {"good", "other"}, Stream(quality)
    PROVE  BInv'
<1> USE DEF BInv, Stream, Goto
<1>1. TypeOK'
    BY DEF TypeOK, Contents, Qualities
<1>2. FetchIsRight'
    BY DEF FetchIsRight, Whole
<1> QED
    BY <1>1, <1>2 DEF WaiversAreNoted, MarkedTreeIsWhole, OnlyMarkedTreesAreLinked, PinnedBytesOnly

\* Past the check there are waived or pinned bytes.
LEMMA VerifyKeepsInv ==
    ASSUME BInv, Verify
    PROVE  BInv'
<1>1. CASE Unverified \/ tarball[2] = "good"
    <2> USE <1>1 DEF BInv, Verify, Goto
    <2>1. TypeOK'
        BY DEF TypeOK
    <2>2. next = 1
        BY DEF FetchIsRight
    <2>3. FetchIsRight'
        BY <2>2, ArchivesAreSequences DEF FetchIsRight, TypeOK
    <2>4. WaiversAreNoted'
        BY DEF WaiversAreNoted, Unverified
    <2> QED
        BY <2>1, <2>3, <2>4 DEF MarkedTreeIsWhole, OnlyMarkedTreesAreLinked, PinnedBytesOnly
<1>2. CASE ~(Unverified \/ tarball[2] = "good")
    BY <1>2, ExitKeepsInv DEF Verify, Ends, Contents
<1> QED
    BY <1>1, <1>2

\* One more entry is in the tree.
LEMMA UnpackKeepsInv ==
    ASSUME BInv, Unpack
    PROVE  BInv'
<1> USE DEF BInv, Unpack, Goto
<1>1. url \in Urls /\ next \in DOMAIN Archive[url] /\ ~marker
    BY ArchivesAreSequences DEF TypeOK, FetchIsRight, Entries
<1>2. Archive[url][next] \in Files /\ \A i \in DOMAIN Archive[url] : Archive[url][i] \in Files
    BY <1>1, EntriesAreFiles
<1>3. PICK quality \in Whole : tarball = <<url, quality>>
    BY DEF FetchIsRight
<1>4. tarball \in Contents
    BY <1>1, <1>3 DEF Contents, Qualities, Whole
<1>5. TypeOK'
    BY <1>2, <1>4 DEF TypeOK, Entries
<1>6. ASSUME NEW i \in DOMAIN Archive[url], i < next'
      PROVE  tree'[Archive[url][i]] = tarball
    <2>1. i < next \/ i = next
        BY <1>6, <1>1, ArchivesAreSequences DEF TypeOK
    <2> QED
        BY <2>1, <1>2 DEF FetchIsRight, TypeOK, Entries
<1>7. FetchIsRight'
    BY <1>1, <1>3, <1>6 DEF FetchIsRight
<1>8. PinnedBytesOnly'
    BY <1>2 DEF PinnedBytesOnly, WaiversAreNoted, TypeOK, Entries
<1> QED
    BY <1>1, <1>5, <1>7, <1>8 DEF WaiversAreNoted, MarkedTreeIsWhole, OnlyMarkedTreesAreLinked

\* The marker is written when every entry is in the tree.
LEMMA MarkKeepsInv ==
    ASSUME BInv, Mark
    PROVE  BInv'
<1> USE DEF BInv, Mark
<1>1. url \in Urls
    BY DEF TypeOK
<1>2. PICK quality \in Whole : tarball = <<url, quality>>
    BY DEF FetchIsRight
<1>3. \A i \in DOMAIN Archive[url] : tree[Archive[url][i]] = tarball
    BY <1>1, ArchivesAreSequences DEF FetchIsRight, TypeOK, Entries
<1>4. \A file \in FilesOf(url) : tree[file] = <<url, quality>>
    BY <1>2, <1>3 DEF FilesOf
<1>5. MarkedTreeIsWhole'
    BY <1>1, <1>4 DEF MarkedTreeIsWhole, Whole, FilesOf
<1>6. TypeOK'
    BY UrlsAssumption, EnvironmentsAssumption DEF TypeOK, Exit, Ends
<1>7. WaiversAreNoted'
    BY DEF WaiversAreNoted, Exit, Plain
<1> QED
    BY <1>5, <1>6, <1>7 DEF FetchIsRight, OnlyMarkedTreesAreLinked, PinnedBytesOnly, Exit

\* A failed entry ends the script without a marker.
LEMMA UnpackFailsKeepsInv ==
    ASSUME BInv, UnpackFails
    PROVE  BInv'
<1>1. CASE tree' = tree
    BY <1>1, ExitKeepsInv DEF UnpackFails, Ends, BInv, TypeOK
<1>2. CASE tree' = [tree EXCEPT ![Entries[next]] = <<url, "torn">>]
    <2>1. next \in DOMAIN Archive[url]
        BY ArchivesAreSequences DEF UnpackFails, Entries, BInv, TypeOK
    <2> QED
        BY <1>2, <2>1, TearKeepsInv DEF UnpackFails, Entries, Ends
<1> QED
    BY <1>1, <1>2 DEF UnpackFails

\* So does an interruption, and a build that had linked is over before it.
LEMMA InterruptKeepsInv ==
    ASSUME BInv, Interrupt
    PROVE  BInv'
<1>1. CASE tree' = tree
    BY <1>1, ExitKeepsInv DEF Interrupt, Ends, BInv, TypeOK
<1>2. CASE tree' # tree
    <2>1. /\ pc = "unpack" /\ next <= Len(Entries)
          /\ tree' = [tree EXCEPT ![Entries[next]] = <<url, "torn">>]
        BY <1>2 DEF Interrupt
    <2>2. next \in DOMAIN Archive[url]
        BY <2>1, ArchivesAreSequences DEF Entries, BInv, TypeOK
    <2> QED
        BY <2>1, <2>2, TearKeepsInv DEF Interrupt, Entries, Ends
<1> QED
    BY <1>1, <1>2

-----------------------------------------------------------------------------
\* BInv is an invariant of the build script.
THEOREM Invariance == Spec => []BInv
<1>1. ASSUME BInv, [Next]_vars
      PROVE  BInv'
    <2>1. ASSUME NEW e \in Environments, Begin(e)
          PROVE  BInv'
        BY <1>1, <2>1, BeginKeepsInv
    <2>2. CASE Main
        BY <1>1, <2>2, MainKeepsInv
    <2>3. CASE FetchFails \/ StreamFails
        BY <1>1, <2>3, ExitKeepsInv DEF FetchFails, StreamFails, Panic, diskVars, Ends, BInv, TypeOK
    <2>4. CASE Fetch
        BY <1>1, <2>4, FetchKeepsInv
    <2>5. ASSUME NEW quality \in {"good", "other"}, Stream(quality)
          PROVE  BInv'
        BY <1>1, <2>5, StreamKeepsInv
    <2>6. CASE Verify
        BY <1>1, <2>6, VerifyKeepsInv
    <2>7. CASE Unpack
        BY <1>1, <2>7, UnpackKeepsInv
    <2>8. CASE UnpackFails
        BY <1>1, <2>8, UnpackFailsKeepsInv
    <2>9. CASE Mark
        BY <1>1, <2>9, MarkKeepsInv
    <2>10. CASE Interrupt
        BY <1>1, <2>10, InterruptKeepsInv
    <2>11. CASE UNCHANGED vars
        BY <1>1, <2>11 DEF BInv, vars, diskVars, TypeOK, FetchIsRight, WaiversAreNoted, MarkedTreeIsWhole,
                           OnlyMarkedTreesAreLinked, PinnedBytesOnly
    <2> QED
        BY <1>1, <2>1, <2>2, <2>3, <2>4, <2>5, <2>6, <2>7, <2>8, <2>9, <2>10, <2>11 DEF Next, Step
<1> QED
    BY InitHolds, <1>1, PTL DEF Spec

\* Every variable keeps its type.
THEOREM TypeCorrect == Spec => []TypeOK
BY Invariance, PTL DEF BInv

\* The marker proves a whole tree of one archive, and nothing else is linked
\* (build.rs:13-14, 296-305).
THEOREM MarkerIsProof == Spec => []MarkerProvesTheTree
<1>1. BInv => MarkerProvesTheTree
    BY DEF BInv, MarkerProvesTheTree, MarkedTreeIsWhole, OnlyMarkedTreesAreLinked, Whole
<1> QED
    BY <1>1, Invariance, PTL

\* A pinned digest keeps other bytes out of the tree (build.rs:182-203).
THEOREM PinHolds == Spec => []PinnedBytesOnly
BY Invariance, PTL DEF BInv
=============================================================================
