----------------------------- MODULE OtaPackage ------------------------------
(***************************************************************************)
(* The .img package of a release: the packager (scripts/package/           *)
(* build-img.py), the validator that must accept it before it is published *)
(* (validate-img.py), and the printer's own installer that reads it        *)
(* (nebulaos_osconfig/image.py).  Three programs, one format.              *)
(*                                                                         *)
(* Abstractions.  A payload is a sequence of symbols and the digest of a   *)
(* content is the content: digests do not collide.  The archive is what it *)
(* holds, or it does not open and nobody goes on; the calls of 7-Zip in    *)
(* one describe() are one look at the file.  The read-back of a partition, *)
(* a print that starts and the slot switch are in SlotUpdate.              *)
(***************************************************************************)
EXTENDS Naturals, Sequences, FiniteSets, SequencesExt

CONSTANTS
    ChunkBytes,     \* CHUNK_BYTES, in symbols
    Cores,          \* builds: [xImage, rootfs, zero, head]
    Capacity,       \* bytes of the partitions: [kernel, rootfs, rtos]
    Uboot, Squash,  \* the first symbol of a kernel for this board and of a squashfs
    Noise,          \* a symbol, name or version that no build has
    Versions, Files,
    MaxChanges      \* bound: what is wrong with a package at once

NoPackage == [top |-> "none"]
Nothing == <<>>
Chunks(n) == (n + ChunkBytes - 1) \div ChunkBytes
Least(a, b) == IF a < b THEN a ELSE b
Part(p, i) == SubSeq(p, i * ChunkBytes + 1, Least((i + 1) * ChunkBytes, Len(p)))
Payloads(core) == [xImage |-> core.xImage, rootfs |-> core.rootfs, zero |-> core.zero]
Partition == [xImage |-> "kernel", rootfs |-> "rootfs", zero |-> "rtos"]

ASSUME OtaPackageAssumption ==
    /\ ChunkBytes \in Nat \ {0} /\ MaxChanges \in Nat /\ Noise \notin Versions \cup Files
    /\ Uboot # Squash
    /\ \A c \in Cores :
          /\ \A n \in {"xImage", "rootfs", "zero"} : c[n] \in Seq(Range(c[n]))
          /\ c.xImage # Nothing /\ c.xImage[1] = Uboot
          /\ c.rootfs # Nothing /\ c.rootfs[1] = Squash

VARIABLES
    core, manifest, \* what the packager was given
    pkg, file,      \* the package, and the name of its file
    passed,         \* what the validator last accepted: [pkg, core]
    asked,          \* a check has described the file and goes on to its digest
    checked,        \* the package whose digest the last check gave
    job,            \* the install: what it does next, or "done" or "failed"
    described,      \* the package it described
    work,           \* what it unpacked: [chunks, lists]
    slot,           \* the other slot: [kernel, rootfs]
    changes

packager == <<core, manifest>>
installer == <<job, described, work, slot>>
vars == <<packager, pkg, file, passed, asked, checked, installer, changes>>

-----------------------------------------------------------------------------
(* build-img.py *)

\* It reads a chunk at a time until a read gives nothing.
Reads(p) == {i \in 0..Len(p) : i * ChunkBytes < Len(p)}
Parts(p) == [i \in 1..Cardinality(Reads(p)) |-> Part(p, i - 1)]

\* Mutant: a chunk is named after its own content.
ChunksNamedForThemselves(name, p) ==
    {[name |-> name, index |-> i, digest |-> IF i = 0 THEN p ELSE Part(p, i), data |-> Part(p, i)] :
        i \in Reads(p)}

\* Chunk 0000 carries the digest of the payload, every other that of the one before.
ChunkFiles(name, p) ==
    {[name |-> name, index |-> i, data |-> Part(p, i),
      digest |-> IF i = 0 THEN p ELSE Part(p, i - 1)] : i \in Reads(p)}

ListFile(name, p) == [name |-> name, digest |-> p, sums |-> Parts(p)]
ImgRecord(name, p) == [kind |-> Partition[name], name |-> name, size |-> Len(p), md5 |-> p]

\* head: the commit the caller names, or none.
Agrees(head) ==
    /\ manifest.xImage = core.xImage /\ manifest.rootfs = core.rootfs
    /\ head \in {Noise, manifest.head} /\ {head, manifest.head} # {Noise}
\* The packager looks at two of the three partitions.
FitsBuild(c) == Len(c.xImage) <= Capacity.kernel /\ Len(c.rootfs) <= Capacity.rootfs

\* ota_config.in is written here, or a vendor's is copied as it is.
ConfigVersion(v, template) == IF template = Noise THEN v ELSE template

Package(c, f, v, template, names) ==
    [top |-> f, current |-> ConfigVersion(v, template), dir |-> v, version |-> v, ok |-> TRUE,
     records |-> {ImgRecord(n, c[n]) : n \in names},
     chunks |-> UNION {ChunkFiles(n, c[n]) : n \in names},
     lists |-> {ListFile(n, c[n]) : n \in names}]
WithOrWithoutRtos == {{"xImage", "rootfs", "zero"}, {"xImage", "rootfs"}}

Build ==
    /\ pkg = NoPackage /\ FitsBuild(core)
    /\ \E head \in {c.head : c \in Cores} \cup {Noise} : Agrees(head)
    /\ \E f \in Files, v \in Versions, t \in Versions \cup {Noise}, names \in WithOrWithoutRtos :
          /\ "zero" \in names => core.zero # Nothing
          /\ pkg' = Package(core, f, v, t, names) /\ file' = f
    /\ UNCHANGED <<packager, passed, asked, checked, installer, changes>>

-----------------------------------------------------------------------------
(* What may be wrong with a package *)

Touched(s) == {Append(s, Noise), Front(s), [s EXCEPT ![1] = Noise]}
Swap(set, old, new) == (set \ {old}) \cup {new}
ChunkChanged ==
    \E c \in pkg.chunks :
        \/ pkg' = [pkg EXCEPT !.chunks = @ \ {c}]
        \/ \E d \in Touched(c.data) \cup {x.data : x \in pkg.chunks} :
               pkg' = [pkg EXCEPT !.chunks = Swap(@, c, [c EXCEPT !.data = d])]
        \/ pkg' = [pkg EXCEPT !.chunks = @ \cup {[c EXCEPT !.digest = <<Noise>>]}]
        \/ pkg' = [pkg EXCEPT !.chunks = Swap(@, c, [c EXCEPT !.index = @ + 1])]
OtherSums(sums) ==
    {Append(sums, <<Noise>>)} \cup {[sums EXCEPT ![Len(sums)] = c.data] : c \in pkg.chunks}
ListChanged ==
    \E l \in pkg.lists :
        \/ pkg' = [pkg EXCEPT !.lists = @ \ {l}]
        \/ \E s \in UNION {OtherSums(x.sums) : x \in pkg.lists} :
               pkg' = [pkg EXCEPT !.lists = Swap(@, l, [l EXCEPT !.sums = s])]
OtherKind(k) == CASE k = "kernel" -> "rootfs" [] k = "rootfs" -> "kernel" [] OTHER -> k
RecordChanged ==
    \/ \E r \in pkg.records :
           \/ pkg' = [pkg EXCEPT !.records = @ \ {r}]
           \/ pkg' = [pkg EXCEPT !.records = Swap(@, r, [r EXCEPT !.size = @ + 1])]
           \/ pkg' = [pkg EXCEPT !.records = Swap(@, r, [r EXCEPT !.md5 = <<Noise>>])]
    \/ pkg' = [pkg EXCEPT !.records = {[r EXCEPT !.kind = OtherKind(@)] : r \in @}]
HeadChanged ==
    \/ pkg' \in {[pkg EXCEPT !.top = Noise], [pkg EXCEPT !.version = Noise],
                 [pkg EXCEPT !.current = Noise], [pkg EXCEPT !.dir = Noise]}
    \/ pkg' = [pkg EXCEPT !.ok = FALSE]

\* A change the job can still see: after the unpacking it does not look at the file.
Changes ==
    /\ pkg # NoPackage /\ job \in {"idle", "describe", "unpack"}
    /\ changes < MaxChanges /\ changes' = changes + 1
    /\ UNCHANGED <<packager, passed, asked, checked, installer>>
\* A packager that is wrong, or a package repacked by hand.
Repack ==
    /\ Changes
    /\ ChunkChanged \/ ListChanged \/ RecordChanged \/ HeadChanged
    /\ UNCHANGED file
\* The whole file is exchanged for the package of another build.
Exchange ==
    /\ Changes
    /\ \E c \in Cores \ {core}, names \in WithOrWithoutRtos :
          /\ FitsBuild(c) /\ ("zero" \in names => c.zero # Nothing)
          /\ pkg' = Package(c, file, pkg.version, Noise, names)
    /\ UNCHANGED file
\* Before it is on the printer, where a check names it.
Rename ==
    /\ Changes
    /\ ~asked /\ checked = NoPackage
    /\ file' \in Files \ {file}
    /\ UNCHANGED pkg

-----------------------------------------------------------------------------
(* validate-img.py *)

RecordsNamed(p, n) == {r \in p.records : r.name = n}
HeadIsRight(p) ==
    /\ p.top = file
    /\ p.ok
    /\ p.current = p.dir /\ p.version = p.current
DeclaresAll(p, canon) ==
    /\ {r.name : r \in p.records} = DOMAIN canon
    /\ "zero" \in DOMAIN canon

\* One chunk file is kept for each index, the last that the directory lists.
Kept(p, n) ==
    {K \in SUBSET {c \in p.chunks : c.name = n} :
        /\ {c.index : c \in K} = {c.index : c \in {d \in p.chunks : d.name = n}}
        /\ \A c, d \in K : c.index = d.index => c = d}

At(K, i) == CHOOSE c \in K : c.index = i
ChainHolds(K, payload) ==
    \A i \in 0..Chunks(Len(payload)) - 1 :
        At(K, i).digest = IF i = 0 THEN payload ELSE At(K, i - 1).data
Sums(K, payload) == [i \in 1..Chunks(Len(payload)) |-> At(K, i - 1).data]
ListHolds(p, K, n, payload) ==
    \E l \in p.lists : l.name = n /\ l.digest = payload /\ l.sums = Sums(K, payload)
Reassembled(K, payload) == FlattenSeq(Sums(K, payload))

PayloadHolds(p, n, payload) ==
    /\ \E r \in RecordsNamed(p, n) : r.size = Len(payload) /\ r.md5 = payload
    /\ \E K \in Kept(p, n) :
          /\ {c.index : c \in K} = 0..Chunks(Len(payload)) - 1
          /\ ChainHolds(K, payload)
          /\ ListHolds(p, K, n, payload)
          /\ Reassembled(K, payload) = payload
FitsPartitions(canon) == \A n \in DOMAIN canon : Len(canon[n]) <= Capacity[Partition[n]]

\* Mutant: the walk over the payloads ends with the first of them.
ValidatesFirst(p, canon) ==
    HeadIsRight(p) /\ DeclaresAll(p, canon) /\ PayloadHolds(p, "xImage", canon["xImage"])
    /\ FitsPartitions(canon)

Validates(p, canon) ==
    /\ HeadIsRight(p) /\ DeclaresAll(p, canon)
    /\ \A n \in DOMAIN canon : PayloadHolds(p, n, canon[n])
    /\ FitsPartitions(canon)

\* The canonical core is named again on the validator's command line.
Validate ==
    /\ pkg # NoPackage
    /\ \E c \in Cores : /\ Validates(pkg, Payloads(c))
                        /\ passed' = [pkg |-> pkg, core |-> c]
    /\ UNCHANGED <<packager, pkg, file, asked, checked, installer, changes>>

-----------------------------------------------------------------------------
(* image.py *)

OfKind(p, k) == {r \in p.records : r.kind = k}
\* chunk_names: two files of one index leave the data incomplete.
ChunkNames(p, n) == {c \in p.chunks : c.name = n}
Unbroken(C) == {c.index : c \in C} = 0..Cardinality(C) - 1

Describes(p) ==
    \A k \in {"kernel", "rootfs"} :
        \E r \in OfKind(p, k) :
            LET C == ChunkNames(p, r.name) IN
            /\ r.size > 0
            /\ C # {} /\ Unbroken(C)
            /\ At(C, 0).digest = r.md5
            /\ Cardinality(C) = Chunks(r.size)
            /\ r.size <= Capacity[k]

\* The check describes the file, and then opens it again for the digest it answers.
CheckDescribes ==
    /\ pkg # NoPackage /\ job = "idle" /\ ~asked
    /\ Describes(pkg)
    /\ asked' = TRUE
    /\ UNCHANGED <<packager, pkg, file, passed, checked, installer, changes>>
CheckHashes ==
    /\ asked
    /\ asked' = FALSE /\ checked' = pkg
    /\ UNCHANGED <<packager, pkg, file, passed, installer, changes>>

\* The job opens the file three times: for its digest, to describe it, and to
\* unpack it.
HashJob ==
    /\ job = "idle" /\ ~asked /\ checked # NoPackage
    /\ job' = IF pkg = checked THEN "describe" ELSE "failed"
    /\ UNCHANGED <<packager, pkg, file, passed, asked, checked, described, work, slot, changes>>
DescribeJob ==
    /\ job = "describe"
    /\ \/ Describes(pkg) /\ described' = pkg /\ job' = "unpack"
       \/ ~Describes(pkg) /\ job' = "failed" /\ UNCHANGED described
    /\ UNCHANGED <<packager, pkg, file, passed, asked, checked, work, slot, changes>>
\* It unpacks one directory, under the name it described; a file that has none
\* of that name leaves nothing to write.
UnpackJob ==
    /\ job = "unpack"
    /\ IF pkg.top = described.top /\ pkg.dir = described.dir
       THEN work' = [chunks |-> pkg.chunks, lists |-> pkg.lists] /\ job' = "kernel"
       ELSE job' = "failed" /\ UNCHANGED work
    /\ UNCHANGED <<packager, pkg, file, passed, asked, checked, described, slot, changes>>

\* The chunks, each found by the digest of the one before, in the length and with
\* the sum the list gives it.
Wanted(size, i) ==
    IF i < Chunks(size) - 1 THEN ChunkBytes ELSE size - ChunkBytes * (Chunks(size) - 1)
Written(p, r) ==
    {w \in [0..Chunks(r.size) - 1 -> {c.data : c \in p.chunks}] :
        \E l \in p.lists :
            /\ l.name = r.name /\ l.digest = r.md5 /\ Len(l.sums) = Chunks(r.size)
            /\ \A i \in DOMAIN w :
                  /\ [name |-> r.name, index |-> i, data |-> w[i],
                      digest |-> IF i = 0 THEN r.md5 ELSE w[i - 1]] \in p.chunks
                  /\ Len(w[i]) = Wanted(r.size, i)
                  /\ w[i] = l.sums[i + 1]}
Content(w) == FlattenSeq([i \in 1..Cardinality(DOMAIN w) |-> w[i - 1]])
Magic == [kernel |-> Uboot, rootfs |-> Squash]

\* The records are the described ones, the data is the unpacked.  A refusal leaves
\* a slot that is written in part.
Takes(r, k, w) == w[0][1] = Magic[k] /\ Content(w) = r.md5
WritePayload(k, next) ==
    /\ job = k
    /\ \E r \in OfKind(described, k) :
         \/ \E w \in Written(work, r) :
               /\ Takes(r, k, w)
               /\ slot' = [slot EXCEPT ![k] = Content(w)]
               /\ job' = next
         \/ /\ ~\E w \in Written(work, r) : Takes(r, k, w)
            /\ slot' = [slot EXCEPT ![k] = Nothing] /\ job' = "failed"
    /\ UNCHANGED <<packager, pkg, file, passed, asked, checked, described, work, changes>>
WriteKernel == WritePayload("kernel", "rootfs")
WriteRootfs == WritePayload("rootfs", "done")

Init ==
    /\ core \in Cores /\ manifest \in Cores
    /\ pkg = NoPackage /\ file = Noise
    /\ passed = [pkg |-> NoPackage, core |-> core]
    /\ asked = FALSE /\ checked = NoPackage
    /\ job = "idle" /\ described = NoPackage /\ work = [chunks |-> {}, lists |-> {}]
    /\ slot = [kernel |-> Nothing, rootfs |-> Nothing]
    /\ changes = 0

Next ==
    \/ Build \/ Repack \/ Exchange \/ Rename \/ Validate
    \/ CheckDescribes \/ CheckHashes
    \/ HashJob \/ DescribeJob \/ UnpackJob \/ WriteKernel \/ WriteRootfs
Spec == Init /\ [][Next]_vars

-----------------------------------------------------------------------------
(* Properties *)

\* A package that passed the validator and that the printer installed to the end
\* put exactly the validated build into the slot, each part into its own
\* partition: whatever is wrong with the package, and whatever the file is
\* exchanged for after the job has described it, one of the two programs stops it
\* (validate-img.py, "THE gate: reassemble and compare"; run_job, _write_payload).
\* What is described is what was checked, with one exception: a file exchanged
\* between the job's look at its digest (image.py:738) and its description (742).
\* The other package is then installed, and if that one was validated, whole.
InstalledIsValidated ==
    job = "done" /\ passed.pkg = described =>
        slot = [kernel |-> passed.core.xImage, rootfs |-> passed.core.rootfs]

\* What the packager makes, of payloads of any length around a chunk, the
\* validator accepts for the build it was made of, and the printer can install:
\* three programs that agree on the format, except that the packager takes a
\* vendor's configuration and an RTOS image as they come, and may leave the
\* RTOS image out (build-img.py, chunk_payload; validate-img.py; describe,
\* _write_payload).
Untouched == pkg # NoPackage /\ changes = 0
BuiltIsAccepted ==
    Untouched =>
        /\ /\ pkg.current = pkg.version /\ RecordsNamed(pkg, "zero") # {}
           /\ Len(core.zero) <= Capacity.rtos
          => Validates(pkg, Payloads(core))
        /\ Describes(pkg)
        /\ job # "failed"
=============================================================================
