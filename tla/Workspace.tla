------------------------------ MODULE Workspace ------------------------------
(***************************************************************************)
(* The workspace of a window (WorkflowApp.tsx) from picking files to the   *)
(* upload of a check: sources and the file objects beside them, groups,    *)
(* base files, language, settings, the consents, and the start that is     *)
(* under way while the customer goes on editing.                           *)
(*                                                                         *)
(* tryStartJob works on the state of the render it was clicked in.  The    *)
(* awaits between the click and the upload are one gap here; PairRun has   *)
(* the calls of it.                                                        *)
(***************************************************************************)
EXTENDS LocalFiles

CONSTANTS
  BatchMax,  \* files of a run on the batch plan
  MaxPick,   \* bound: files in one selection
  MaxActs    \* bound: things the customer does

ASSUME WorkspaceAssumption ==
  /\ KeyOf \in [DeviceFiles -> Keys]
  /\ Top \in [DeviceFiles -> Labels] /\ Stem \in [Keys -> Labels]
  /\ NoLabel \notin Labels
  /\ BatchMax \in Nat \ {0, 1} /\ MaxPick \in Nat

VARIABLES
  plan,      \* "none", or the package: "pair" (and the trial) or "batch"
  moss,      \* a Moss ID is connected
  sources,   \* sourceItems
  files,     \* sourceFiles
  base,      \* baseItems, by key
  groups,
  lang,      \* languageCode
  confirmed, \* languageConfirmed
  settings,
  consent,   \* the boxes that are ticked
  start,     \* what tryStartJob was clicked with, until its upload
  discarding,
  acts,
  \* History.
  agreed,    \* the draft when the second consent was given
  uploaded   \* the last upload: its rows, and the draft agreed to for it

draftVars == <<sources, files, base, groups, lang, confirmed, settings>>
workspaceVars ==
  <<plan, moss, draftVars, consent, start, discarding, acts, agreed, uploaded>>

Boxes == {"ownership", "sensitiveLink", "warningsAck"}
Both  == {"ownership", "sensitiveLink"}

Draft == [sources |-> sources, base |-> base, lang |-> lang,
          settings |-> settings]
NotStarted == [on |-> FALSE]
NothingSent == [rows |-> {}, of |-> {}, plan |-> "none", draft |-> Draft]

FilesOf(p) == IF p = "batch" THEN BatchMax ELSE 2

Act == acts < MaxActs /\ acts' = acts + 1
ResetConsent == consent' = {}

WorkspaceInit ==
  /\ plan \in {"none", "pair", "batch"} /\ moss \in BOOLEAN
  /\ sources = <<>> /\ files = <<>> /\ base = <<>> /\ groups = <<>>
  /\ lang = NoLanguage /\ confirmed = FALSE /\ settings = DefaultSettings
  /\ consent = {} /\ agreed = {} /\ start = NotStarted /\ discarding = "no"
  /\ uploaded = NothingSent /\ acts = 0

-----------------------------------------------------------------------------
\* Getting in: unlockPlan, the Moss ID.

Unlock(p) ==
  /\ plan = "none" /\ Act
  /\ plan' = p /\ sources' = <<>> /\ files' = <<>> /\ groups' = <<>>
  /\ UNCHANGED <<moss, base, lang, confirmed, settings, consent, start, discarding, agreed, uploaded>>

\* Saving and disconnecting the Moss ID leave the draft and the consents alone.
SetMoss ==
  /\ Act /\ moss' = ~moss /\ plan # "none"
  /\ UNCHANGED <<plan, draftVars, consent, start, discarding, agreed, uploaded>>

-----------------------------------------------------------------------------
\* Choosing files.

\* What a picker can hand over: files of one directory, with different names, or
\* files below one directory.
Selections(most, dir) ==
  {s \in UNION {[1 .. n -> DeviceFiles] : n \in 1 .. most} :
     /\ IsInjective(s)
     /\ \A i, j \in DOMAIN s :
          IF dir THEN Top[s[i]] = Top[s[j]]
          ELSE i # j => NameOf[KeyOf[s[i]]] # NameOf[KeyOf[s[j]]]}

OnePick     == Selections(1, FALSE)
FilePicks   == Selections(MaxPick, FALSE)
FolderPicks == Selections(MaxPick, TRUE)

\* The items kept while a selection is taken in; slot 0 is no slot.
Others(slot) == [i \in 1 .. Len(sources) - 1 |-> sources[IF i < slot THEN i ELSE i + 1]]

Replaces(slot) == slot \in 1 .. Len(sources)
RoomFor(slot) == FilesOf(plan) - Len(sources) + (IF Replaces(slot) THEN 1 ELSE 0)

\* Only the first files with room are looked at.
Capped(sel, room) == SubSeq(sel, 1, IF Len(sel) < room THEN Len(sel) ELSE room)

\* The items of a selection that are accepted and pass the extension setting.
Passing(sel, dir, existing) ==
  LET items == IngestSelection(sel, dir, existing) IN
  Those(items, {n \in DOMAIN items : items[n].key \in settings.filter})

\* The file object of an item: the first file of the selection with its key.
Matched(sel, key) ==
  CHOOSE i \in DOMAIN sel : KeyOf[sel[i]] = key /\ \A j \in 1 .. i - 1 : KeyOf[sel[j]] # key

\* The parallel sequences after items and their files were taken in.
Placed(old, new, slot) == IF Replaces(slot) THEN ReplaceAt(old, slot, new[1]) ELSE old \o new

OnSourceFiles(sel, dir, slot) ==
  /\ plan # "none" /\ moss /\ Act
  /\ LET room  == RoomFor(slot)
         first == Capped(sel, room)
         existing == KeysOf(IF Replaces(slot) THEN Others(slot) ELSE sources) \cup ToSet(base)
         items == Passing(first, dir, existing)
         objects == [n \in DOMAIN items |-> first[Matched(first, items[n].key)]]
     IN
     /\ room > 0 /\ items # <<>>
     /\ sources' = Placed(sources, items, slot)
     /\ files' = Placed(files, objects, slot)
     /\ groups' = SuggestGroups(sources')
  /\ ResetConsent
  /\ UNCHANGED <<plan, moss, base, lang, confirmed, settings, start, discarding, uploaded>>

RemoveSource(i) ==
  /\ plan = "batch" /\ i \in DOMAIN sources /\ Act
  /\ sources' = RemoveAt(sources, i) /\ files' = RemoveAt(files, i)
  /\ groups' = SuggestGroups(sources')
  /\ ResetConsent
  /\ UNCHANGED <<plan, moss, base, lang, confirmed, settings, start, discarding, uploaded>>

ClearSources ==
  /\ plan = "pair" /\ sources # <<>> /\ Act
  /\ sources' = <<>> /\ files' = <<>> /\ groups' = SuggestGroups(<<>>)
  /\ ResetConsent
  /\ UNCHANGED <<plan, moss, base, lang, confirmed, settings, start, discarding, uploaded>>

\* Base files: an intake that adds nothing resets the consents too.
OnBaseFiles(sel, dir) ==
  /\ plan # "none" /\ moss /\ Act
  /\ base' = base \o AddedBase(sel, dir, groups, base, lang)
  /\ ResetConsent
  /\ UNCHANGED <<plan, moss, sources, files, groups, lang, confirmed, settings, start, discarding, uploaded>>

RemoveBase(i) ==
  /\ i \in DOMAIN base /\ Act
  /\ base' = RemoveAt(base, i) /\ ResetConsent
  /\ UNCHANGED <<plan, moss, sources, files, groups, lang, confirmed, settings, start, discarding, uploaded>>

-----------------------------------------------------------------------------
\* Language, settings, consents.

\* Mutation: choosing another language keeps the ticks.
AfterLanguageKept(ticks) == ticks

\* applyLanguage resets the consents.
AfterLanguage(ticks) == {}

\* A language that is picked is confirmed by that; the list begins with none.
ApplyLanguage(l) ==
  /\ Act /\ lang' = l /\ confirmed' = Resolves(l) /\ consent' = AfterLanguage(consent)
  /\ UNCHANGED <<plan, moss, sources, files, base, groups, settings, start, discarding,
                 uploaded>>

\* refreshState finds the draft that was saved: its language has to be confirmed
\* again, and the consents stay.
RecoverLanguage(l) ==
  /\ Act /\ lang' = l /\ confirmed' = FALSE
  /\ UNCHANGED <<plan, moss, sources, files, base, groups, settings, consent, start,
                 discarding, uploaded>>

\* patchSetting: a refused value leaves the consents, too.
PatchSetting(key, value) ==
  /\ settings' = UpdateSetting(settings, key, value)
  /\ IF Allowed(key, value) THEN Act /\ ResetConsent ELSE UNCHANGED <<acts, consent>>
  /\ UNCHANGED <<plan, moss, sources, files, base, groups, lang, confirmed, start,
                 discarding, uploaded>>

\* "Reset to defaults" sets the settings and nothing else.
ResetSettings ==
  /\ Act /\ settings' = DefaultSettings
  /\ UNCHANGED <<plan, moss, sources, files, base, groups, lang, confirmed, consent,
                 start, discarding, uploaded>>

\* The box for the warnings is there while there are some.
Tick(b) ==
  /\ Act /\ (b = "warningsAck" => Warned(groups))
  /\ consent' = IF b \in consent THEN consent \ {b} ELSE consent \cup {b}
  /\ UNCHANGED <<plan, moss, draftVars, start, discarding, uploaded>>

\* discard: the worker is told, then everything is emptied, then, after the run
\* was cleared, the consents are reset.  Signing out discards as well.
Discard ==
  /\ discarding = "no" /\ Act /\ discarding' = "asked"
  /\ UNCHANGED <<plan, moss, draftVars, consent, start, uploaded>>

Empty ==
  /\ discarding = "asked" /\ discarding' = "emptied"
  /\ sources' = <<>> /\ files' = <<>> /\ base' = <<>> /\ groups' = <<>>
  /\ lang' = NoLanguage /\ confirmed' = FALSE /\ settings' = DefaultSettings
  /\ UNCHANGED <<plan, moss, consent, start, acts, uploaded>>

Discarded ==
  /\ discarding = "emptied" /\ discarding' = "no" /\ ResetConsent
  /\ UNCHANGED <<plan, moss, draftVars, start, acts, uploaded>>

-----------------------------------------------------------------------------
\* Starting.

EnoughGroups ==
  IF plan = "pair" THEN Len(Filled(groups)) = 2 ELSE Len(Filled(groups)) >= 2

\* startBlocker: the button is offered when nothing of this is missing.
FilesReady    == IF plan = "pair" THEN Len(sources) = FilesOf(plan) ELSE Len(sources) >= 2
ConsentsReady == Both \subseteq consent
WarningsReady == Warned(groups) => "warningsAck" \in consent
StartOffered  ==
  /\ plan # "none" /\ moss /\ FilesReady /\ confirmed /\ ConsentsReady /\ WarningsReady
  /\ ~start.on

\* tryStartJob's further guards; the package in storage may be another one, bought in
\* another window, or used up.
Start(found) ==
  /\ StartOffered /\ Act
  /\ EnoughGroups /\ Len(files) = Len(sources)
  /\ CanProceed(groups, plan, lang)
  /\ plan' = found
  /\ start' = [on |-> TRUE, sources |-> sources, files |-> files,
               groups |-> Filled(groups), plan |-> plan, of |-> agreed,
               draft |-> Draft]
  /\ UNCHANGED <<moss, draftVars, consent, discarding, uploaded>>

\* Mutation: the groups are counted from zero.
NumberOfFromZero(s, key) == (CHOOSE n \in DOMAIN s.groups : key \in s.groups[n]) - 1

\* submissionByKey
NumberOf(s, key) == CHOOSE n \in DOMAIN s.groups : key \in s.groups[n]

\* The rows of uploadPairFiles: a file object under an item's name, with the
\* number of the item's group.
Upload ==
  /\ start.on
  /\ start' = NotStarted
  /\ uploaded' = [of |-> start.of, plan |-> start.plan, draft |-> start.draft,
       rows |-> {[item |-> start.sources[i], file |-> start.files[i],
                  number |-> NumberOf(start, start.sources[i].key)] :
                    i \in DOMAIN start.sources}]
  /\ UNCHANGED <<plan, moss, draftVars, consent, discarding, acts>>

\* Or a call before it fails, or its answer shows another package.
StartFails ==
  /\ start.on /\ start' = NotStarted
  /\ UNCHANGED <<plan, moss, draftVars, consent, discarding, acts, uploaded>>

-----------------------------------------------------------------------------
\* What the cards of the run window offer: two tiles, or pickers for files and for
\* a folder while there is room.
FilesCard ==
  \/ plan = "pair" /\ \E slot \in 1 .. 2, sel \in OnePick :
       OnSourceFiles(sel, FALSE, slot)
  \/ plan = "batch" /\ Len(sources) < BatchMax /\
       \/ \E sel \in FilePicks : OnSourceFiles(sel, FALSE, 0)
       \/ \E sel \in FolderPicks : OnSourceFiles(sel, TRUE, 0)
  \/ \E i \in DOMAIN sources : RemoveSource(i)
  \/ ClearSources

LanguageCard == \E l \in Languages \cup {NoLanguage} : ApplyLanguage(l)

ReviewCard ==
  \/ \E b \in Boxes : Tick(b)
  \/ \E found \in {"none", "pair", "batch"} : Start(found)

AdvancedCard ==
  \/ \E list \in Lists \cup {BadList} : PatchSetting("filter", list)
  \/ \E n \in Lowest - 1 .. Highest : PatchSetting("number", n)
  \/ ResetSettings
  \/ \E sel \in OnePick : OnBaseFiles(sel, FALSE)
  \/ \E i \in DOMAIN base : RemoveBase(i)

Step ==
  \/ \E p \in {"pair", "batch"} : Unlock(p)
  \/ SetMoss
  \/ FilesCard \/ LanguageCard \/ ReviewCard \/ AdvancedCard
  \/ \E l \in Languages : RecoverLanguage(l)
  \/ Discard \/ Empty \/ Discarded
  \/ Upload \/ StartFails

\* The draft that is agreed to is the one on screen when the second box is
\* ticked.
WorkspaceNext ==
  /\ Step
  /\ agreed' = IF ~(Both \subseteq consent') THEN {}
               ELSE IF Both \subseteq consent THEN agreed ELSE {Draft'}

WorkspaceSpec == WorkspaceInit /\ [][WorkspaceNext]_workspaceVars

-----------------------------------------------------------------------------
\* What is on screen fits together: each item has its own file object beside
\* it, no key is chosen twice, no base file is a source as well, and the groups
\* are those of the sources.
DraftIsOne ==
  /\ plan \in {"none", "pair", "batch"} /\ consent \subseteq Boxes
  /\ Len(sources) <= BatchMax /\ Len(files) = Len(sources)
  /\ \A i \in DOMAIN sources : files[i] = sources[i].file
  /\ \A i, j \in DOMAIN sources : sources[i].key = sources[j].key => i = j
  /\ KeysOf(sources) \cap ToSet(base) = {} /\ IsInjective(base)
  /\ UNION ToSet(groups) = KeysOf(sources)

\* What the files and base files of a draft are, and their language.
Content(d) == [sources |-> d.sources, base |-> d.base, lang |-> d.lang]

\* Nothing leaves the device that was not on screen when the second consent was
\* given: whatever was picked, replaced, removed, recovered or discarded since, and
\* while the start was under way, the upload holds the files of the draft that was
\* agreed to, with its language and base files.
OnlyAgreedIsSent ==
  uploaded.rows # {} =>
    /\ {Content(d) : d \in uploaded.of} = {Content(uploaded.draft)}
    /\ {r.file : r \in uploaded.rows} = {it.file : it \in ToSet(uploaded.draft.sources)}

\* The same of the settings: "Acknowledgements reset after material changes".  They
\* do not when the settings are reset to their defaults.
SettingsAreAgreed == uploaded.rows # {} => uploaded.of = {uploaded.draft}

\* The submissions of an upload are the groups that were shown: each file goes
\* out under its own name, two files have the same number only if one folder or
\* archive name holds both, the numbers leave no gap, there are two at least,
\* and no more files than the plan allows.
SubmissionsAreGroups ==
  LET rows == uploaded.rows
      numbers == {r.number : r \in rows}
  IN rows # {} =>
       /\ \A r \in rows : r.file = r.item.file
       /\ \A r, q \in rows :
            r.number = q.number <=> r = q \/ (r.item.label = q.item.label
                                              /\ r.item.label # NoLabel)
       /\ numbers = 1 .. Cardinality(numbers) /\ Cardinality(numbers) >= 2
       /\ Cardinality(rows) <= FilesOf(uploaded.plan)
=============================================================================
