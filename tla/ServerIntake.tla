----------------------------- MODULE ServerIntake -----------------------------
(***************************************************************************)
(* What the API makes of the objects of an upload                          *)
(* (apps/api/intake/ingest.js): all of them become one manifest of files   *)
(* and groups, or none does.  Pure operators.                              *)
(*                                                                         *)
(* A path is the sequence of its segments.  What a test of the code reads  *)
(* from a name, a type or a text is a field of the entry:                  *)
(*   path     the segments, with [absolute, control] about the raw text    *)
(*   kind     "source", "binary" or "archive", from the extension          *)
(*   marked   sent as a link, a binary or media, or with a false extension *)
(*   lost     UTF-16 without a text to convert                             *)
(***************************************************************************)
EXTENDS Naturals, Sequences, FiniteSets

CONSTANTS
  Segments,
  Skipped,    \* segments that are left out: "" and "."
  Evil,       \* "..", ".lnk", "symlink"
  NoHint,
  NFC,        \* Segments -> Segments
  Width,      \* Segments -> Nat
  MaxPath, MaxDepth, MaxBytes, MaxEntries, MaxRatio

\* The sum of f[1] .. f[n].
Sum(f, n) ==
  LET upTo[i \in 0 .. n] == IF i = 0 THEN 0 ELSE upTo[i - 1] + f[i]
  IN upTo[n]

-----------------------------------------------------------------------------
\* normalizeEntryPath

Parts(raw) == SelectSeq(raw.segments, LAMBDA s : s \notin Skipped)

NormalPath(raw) == LET parts == Parts(raw) IN [n \in DOMAIN parts |-> NFC[parts[n]]]

\* With the separators.
PathLength(path) ==
  Sum([n \in DOMAIN path |-> Width[path[n]]], Len(path))
    + (IF path = <<>> THEN 0 ELSE Len(path) - 1)

PathAllowed(raw) ==
  LET parts == Parts(raw) IN
  /\ raw.segments \notin {<<s>> : s \in Skipped}
  /\ ~raw.absolute /\ ~raw.control
  /\ \A n \in DOMAIN parts : parts[n] \notin Evil
  /\ PathLength(NormalPath(raw)) <= MaxPath

Basename(path) == path[Len(path)]

\* detectBinary and normalizeEncoding: what cannot be compared as text.
Unreadable(entry) == entry.marked \/ entry.kind = "binary" \/ entry.lost

\* acceptMember, without the sum that is kept beside it.
Acceptable(entry) ==
  /\ PathAllowed(entry.path) /\ Len(Parts(entry.path)) <= MaxDepth
  /\ ~Unreadable(entry)
  /\ entry.kind # "archive"

-----------------------------------------------------------------------------
\* ingestObjects.  An object is a plain file, its only member, or an archive.

Members(objects) ==
  LET first[n \in 0 .. Len(objects)] ==
        IF n = 0 THEN <<>> ELSE first[n - 1] \o objects[n].members
  IN first[Len(objects)]

BytesOf(entries) == Sum([n \in DOMAIN entries |-> entries[n].bytes], Len(entries))

\* After the archive at i: all that was expanded so far to all that came compressed.
RatioAllowed(objects, i) ==
  LET packed == Sum([n \in 1 .. i |-> objects[n].compressed], i)
  IN packed > 0 =>
       BytesOf(Members(SubSeq(objects, 1, i))) <= MaxRatio * packed

\* The folder hint of an entry, or the first segment of its path.
HintOf(entry) ==
  IF entry.hint # NoHint THEN entry.hint
  ELSE LET path == NormalPath(entry.path) IN IF path = <<>> THEN NoHint ELSE path[1]

FilesOf(objects) ==
  LET all == Members(objects)
  IN [n \in 1 .. Len(all) |->
        [path |-> NormalPath(all[n].path), bytes |-> all[n].bytes, hint |-> HintOf(all[n])]]

\* "unicode-collision"
Collides(objects) ==
  LET files == FilesOf(objects)
  IN \E m, n \in DOMAIN files : m # n /\ files[m].path = files[n].path

-----------------------------------------------------------------------------
\* mapSafeGroups.  A reference is a path; one segment may also be a file's name.

ByPath(files, ref) == {n \in DOMAIN files : files[n].path = ref}

ByName(files, ref) ==
  {n \in DOMAIN files : files[n].path # <<>> /\ ref = <<Basename(files[n].path)>>}

Hits(files, ref) ==
  IF ByPath(files, ref) # {} THEN ByPath(files, ref) ELSE ByName(files, ref)

\* The first of the files that a reference can mean.
FileIdOf(files, ref) ==
  CHOOSE n \in Hits(files, ref) : \A m \in Hits(files, ref) : n <= m

\* Without groups of its own an upload gets one for each hint.
Hints(files) == {files[n].hint : n \in DOMAIN files}

GroupsMap(files, groups) ==
  IF groups = <<>> THEN Cardinality(Hints(files)) >= 2
  ELSE \A g \in DOMAIN groups : \A r \in DOMAIN groups[g] : Hits(files, groups[g][r]) # {}

\* The files of each group, by its label or its number.
MapSafeGroups(files, groups) ==
  IF groups = <<>> THEN [h \in Hints(files) |-> {n \in DOMAIN files : files[n].hint = h}]
  ELSE [g \in DOMAIN groups |->
          {FileIdOf(files, groups[g][r]) : r \in DOMAIN groups[g]}]

-----------------------------------------------------------------------------
Accepted(objects, groups) ==
  LET all == Members(objects) IN
  /\ \A n \in DOMAIN all : Acceptable(all[n])
  /\ BytesOf(all) <= MaxBytes /\ Len(all) <= MaxEntries
  /\ \A i \in DOMAIN objects : objects[i].archive => RatioAllowed(objects, i)
  /\ ~Collides(objects)
  /\ GroupsMap(FilesOf(objects), groups)

Manifest(objects, groups) ==
  [files |-> FilesOf(objects), groups |-> MapSafeGroups(FilesOf(objects), groups)]

NoManifest == [files |-> <<>>, groups |-> <<>>]

\* What the workers rely on when they take a manifest as it is: no two of its files
\* would be written to one place, and its groups name files it has.
Sound(manifest) ==
  /\ \A m, n \in DOMAIN manifest.files :
       manifest.files[m].path = manifest.files[n].path => m = n
  /\ \A g \in DOMAIN manifest.groups : manifest.groups[g] \subseteq DOMAIN manifest.files
=============================================================================
