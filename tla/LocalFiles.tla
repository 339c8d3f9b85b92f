----------------------------- MODULE LocalFiles -----------------------------
(***************************************************************************)
(* What the window makes of a picked selection: intake, grouping and       *)
(* preflight (packages/ui/intake, file-selection, grouping, preflight and  *)
(* base-code).  Pure operators over the files of the device.               *)
(*                                                                         *)
(* A key is a display name with a size; what a file is follows from it:    *)
(*   "code"  an accepted extension and size                                *)
(*   "zip"   an archive that preflight calls binary (.zip, .tar, .tar.gz)  *)
(*   "tgz"   an archive that it does not                                   *)
(*   "bad"   empty, too large, or of no accepted type                      *)
(* Two files of one folder tree may have the same key.                     *)
(***************************************************************************)
EXTENDS Integers, Sequences, FiniteSets, SequencesExt

CONSTANTS
  DeviceFiles, \* the files on the device
  Keys,
  Labels,     \* names of folders, and of archives without their extension
  NoLabel,
  KeyOf,      \* DeviceFiles -> Keys
  Top,        \* DeviceFiles -> Labels: the folder a directory picker names
  Sort,       \* Keys -> {"code", "zip", "tgz", "bad"}
  NameOf,     \* Keys -> the display name
  Stem,       \* Keys -> Labels
  Languages, NoLanguage,
  Speaks,     \* Languages -> SUBSET Keys: files with an extension of its list
  Lists,      \* sets of keys: the files an extension list lets through
  BadList,    \* a list that is refused
  Lowest, Highest  \* BOUNDS of the number settings

\* isApprovedArchiveName
Archives == {k \in Keys : Sort[k] \in {"zip", "tgz"}}

\* A set of positions in their order, and what a sequence has at them.
Ranked(S) ==
  [n \in 1 .. Cardinality(S) |-> CHOOSE i \in S : Cardinality({j \in S : j <= i}) = n]
Those(seq, S) == LET at == Ranked(S) IN [n \in DOMAIN at |-> seq[at[n]]]

KeysOf(items) == {items[i].key : i \in DOMAIN items}

\* A selection is a sequence of files out of a file or a directory picker.
\* detectSourceType: one archive is an archive, whatever it was picked with.
AsFolder(sel, dir) == dir /\ ~(Len(sel) = 1 /\ KeyOf[sel[1]] \in Archives)

\* Inside a folder an archive is a file of no accepted type.
Readable(k, folder) == Sort[k] = "code" \/ (~folder /\ k \in Archives)

\* groupingHint, read through topLevelFolder.
LabelOf(f, folder) ==
  IF folder THEN Top[f]
  ELSE IF KeyOf[f] \in Archives THEN Stem[KeyOf[f]] ELSE NoLabel

Item(f, folder) == [file |-> f, key |-> KeyOf[f], label |-> LabelOf(f, folder)]

\* ingestSelection: the accepted items, in the order they were picked; the same
\* key again is a duplicate, of an existing file or of an earlier one.
TakenIn(sel, i, folder, existing) ==
  /\ Readable(KeyOf[sel[i]], folder) /\ KeyOf[sel[i]] \notin existing
  /\ \A j \in 1 .. i - 1 : KeyOf[sel[j]] # KeyOf[sel[i]]

IngestSelection(sel, dir, existing) ==
  LET folder == AsFolder(sel, dir) IN
  Those([i \in DOMAIN sel |-> Item(sel[i], folder)],
        {i \in DOMAIN sel : TakenIn(sel, i, folder, existing)})

-----------------------------------------------------------------------------
\* The settings: the files that are let through, and a number for the threshold
\* and the result count.
DefaultSettings == [filter |-> Keys, number |-> Highest]

\* parseExtensionAllowlist and the bounds: what updateSetting takes.
Allowed(key, value) ==
  IF key = "filter" THEN value \in Lists ELSE value \in Lowest .. Highest

UpdateSetting(settings, key, value) ==
  IF Allowed(key, value) THEN [settings EXCEPT ![key] = value] ELSE settings

\* resolveManualSelection: the languages of the capabilities.
Resolves(l) == l \in Languages

-----------------------------------------------------------------------------
\* Groups are sets of keys here, a draft's groups a sequence of them.

\* Folders and archives in the order they were first seen, then the flat files.
Flat(items)  == {i \in DOMAIN items : items[i].label = NoLabel}
Named(items) == {i \in DOMAIN items \ Flat(items) :
                   \A j \in 1 .. i - 1 : items[j].label # items[i].label}

Suggested(items) ==
  LET named == Those(items, Named(items))
      flat  == Those(items, Flat(items))
  IN [n \in DOMAIN named |-> {it.key : it \in {i \in ToSet(items) : i.label = named[n].label}}]
     \o [n \in DOMAIN flat |-> {flat[n].key}]

\* suggestGroups: a pair with nothing or one group, and a batch, are filled up to
\* two groups with empty ones.
SuggestGroups(items) ==
  LET groups == Suggested(items) IN
  groups \o [n \in 1 .. (IF Len(groups) < 2 THEN 2 - Len(groups) ELSE 0) |-> {}]

\* The groups that hold something.
Filled(groups) == Those(groups, {n \in DOMAIN groups : groups[n] # {}})

\* validateGrouping
GroupingOK(groups, mode) ==
  /\ IF mode = "pair" THEN Len(groups) = 2 ELSE Len(groups) >= 2
  /\ \A n \in DOMAIN groups : groups[n] # {}

\* runPreflight: what blocks, and what has to be acknowledged.
CanProceed(groups, mode, lang) ==
  /\ GroupingOK(groups, mode) /\ lang # NoLanguage
  /\ \A n \in DOMAIN groups : \A k \in groups[n] : Sort[k] # "zip"

Warned(groups) ==
  LET all == UNION {groups[n] : n \in DOMAIN groups} IN
  \/ \E k \in all : k \in Archives
  \/ \E k, l \in all : k # l /\ NameOf[k] = NameOf[l]

\* Mutation: base files are checked against base files only.
BaseExistingOnly(groups, base) == ToSet(base)

\* addBaseFiles: what a base file may not be again.
BaseExisting(groups, base) == (UNION {groups[n] : n \in DOMAIN groups}) \cup ToSet(base)

\* validateBaseLanguage
FitsLanguage(k, lang) == lang = NoLanguage \/ k \in Speaks[lang]

\* addBaseFiles: the keys that are added.
AddedBase(sel, dir, groups, base, lang) ==
  LET items == IngestSelection(sel, dir, BaseExisting(groups, base))
      keys  == [n \in DOMAIN items |-> items[n].key]
  IN Those(keys, {n \in DOMAIN keys : FitsLanguage(keys[n], lang)})
=============================================================================
