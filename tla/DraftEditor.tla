---------------------------- MODULE DraftEditor ----------------------------
(***************************************************************************)
(* The editors of the creator that keep a draft in the page: the preview   *)
(* assembly (usePreviewWorkbenchController) and the audio timeline         *)
(* (useAudioWorkbenchController).  The user adds, moves and removes items; *)
(* saving sends the whole draft and shows the server's reply instead of    *)
(* it.  Loads and saves land after the user has edited on, has switched    *)
(* the language, or has opened another project.                            *)
(*                                                                         *)
(* An item is a shot (preview) or an audio clip.  What matters of it is    *)
(* its id, the project its shot or asset belongs to (home), its position   *)
(* and, in the preview, the language its title is shown in, in the audio   *)
(* editor the value of its time fields.                                    *)
(***************************************************************************)
EXTENDS ScreenRequests, FiniteSets, SequencesExt

CONSTANTS
    Locales,    \* the languages of the page
    MaxItems,   \* bound: items of a draft
    MaxEdits,   \* bound: edits and saves of the user, together
    MaxChanges  \* bound: what the user opens or switches, what other users
                \* save and what fails, together

Untitled == "untitled"      \* no summary of the item is known
ServerTitle == "server"     \* the reply to a save is in no language

ASSUME LocalesAssumption ==
    /\ Locales # {} /\ Untitled \notin Locales /\ ServerTitle \notin Locales
    /\ Off # Blank

VARIABLES
    editor,     \* "preview" or "audio"
    project,    \* the project the route names, or Off
    locale,     \* the language of the page
    workbench,  \* the project of the data loaded, or Blank
    drafts,     \* the items shown
    hydrated,   \* preview: the project whose draft the page holds
    options,    \* the shots (audio: assets) on offer: whose, in which language
    draftId,    \* the next id of an item that is not saved yet
    jobs,       \* the loads and saves on their way
    saved,      \* server: the items of each project
    nextItemId, \* server: the next id of an item
    edits, changes,  \* how many bounded edits and moves there were
    wanted,     \* what the user made of the draft: home and value of each item,
                \* or Blank when a failed load has cleared the page
    mishaps     \* what a late or failed answer did to the draft since

editorVars == <<editor, project, locale, workbench, drafts, hydrated, options,
                draftId, jobs, saved, nextItemId, edits, changes, wanted, mishaps>>

NoOptions == [of |-> Blank, in |-> Untitled]

IsPreview == editor = "preview"

-----------------------------------------------------------------------------
(* Helpers of previewWorkbench.ts and audioWorkbench.ts.                   *)

(* The items, numbered in the order they have.                             *)
buildOrderedDraftItems(items) ==
    [i \in DOMAIN items |-> [items[i] EXCEPT !.sequence = i]]

resequenceAudioClips(items) == buildOrderedDraftItems(items)

(* The server's items in the order of their sequence numbers, and among    *)
(* equals in the order they came.                                          *)
Place(items, i) ==
    Cardinality({j \in DOMAIN items :
                    \/ items[j].sequence < items[i].sequence
                    \/ items[j].sequence = items[i].sequence /\ j <= i})

InSequence(items) ==
    [k \in DOMAIN items |-> items[CHOOSE i \in DOMAIN items : Place(items, i) = k]]

normalizePreviewWorkbench(items) == buildOrderedDraftItems(InSequence(items))

normalizeAudioWorkbench(items) == normalizePreviewWorkbench(items)
seedDraftTracks(items) == resequenceAudioClips(items)

(* The title an item gets: that of the same item, of another item of the   *)
(* shot, of the shot's option, or the one it has.                          *)
TitleIn(item, localized, offered) ==
    LET sameItem == {i \in DOMAIN localized :
                        localized[i].id = item.id /\ localized[i].home = item.home}
        sameShot == {i \in DOMAIN localized : localized[i].home = item.home}
        from == IF sameItem # {} THEN sameItem ELSE sameShot
        first == IF from = {} THEN Untitled
                 ELSE localized[CHOOSE i \in from : \A j \in from : i <= j].title
    IN  CASE first # Untitled -> first
          [] first = Untitled /\ offered.of = item.home -> offered.in
          [] OTHER -> item.title

(* Mutant: the localized items replace those of the draft.                 *)
hydrateLocalizedItems(items, localized, offered) == buildOrderedDraftItems(localized)

(* Mutant: only an item without a title gets one.                          *)
hydrateUntitledOnly(items, localized, offered) ==
    buildOrderedDraftItems(
        [i \in DOMAIN items |->
            IF items[i].title = Untitled
            THEN [items[i] EXCEPT !.title = TitleIn(items[i], localized, offered)]
            ELSE items[i]])

(* The draft stays what it is, with the titles of another language.        *)
hydratePreviewDraftItemsFromLocale(items, localized, offered) ==
    buildOrderedDraftItems(
        [i \in DOMAIN items |->
            [items[i] EXCEPT !.title = TitleIn(items[i], localized, offered)]])

Made(items) == [i \in DOMAIN items |-> <<items[i].home, items[i].value>>]

-----------------------------------------------------------------------------
(* The user opens a project, closes the page, or switches the language,    *)
(* which loads the project again: the effect depends on the translator.    *)

Job(kind, p, items) ==
    [kind |-> kind, of |-> p, in |-> locale, state |-> "sent", items |-> items,
     drafts |-> drafts, options |-> options]

(* A load that the effect's clean-up cancelled is dropped when it lands.   *)
Saves == Cancel(jobs, "load")

Moves == changes < MaxChanges /\ changes' = changes + 1

OpenProject(p) ==
    /\ Moves /\ p # project
    /\ project' = p
    /\ jobs' = Append(Saves, Job("load", p, <<>>))
    /\ UNCHANGED <<editor, locale, workbench, drafts, hydrated, options, draftId,
                   saved, nextItemId, edits, wanted, mishaps>>

CloseEditor ==
    /\ Moves /\ project # Off
    /\ project' = Off
    /\ workbench' = Blank /\ drafts' = <<>> /\ hydrated' = Off
    /\ options' = NoOptions /\ wanted' = <<>> /\ mishaps' = {}
    /\ jobs' = Saves
    /\ UNCHANGED <<editor, locale, draftId, saved, nextItemId, edits>>

SwitchLocale(l) ==
    /\ Moves /\ project # Off /\ l # locale
    /\ locale' = l
    /\ jobs' = Append(Saves, [Job("load", project, <<>>) EXCEPT !.in = l])
    /\ UNCHANGED <<editor, project, workbench, drafts, hydrated, options, draftId,
                   saved, nextItemId, edits, wanted, mishaps>>

-----------------------------------------------------------------------------
(* The user edits the draft.  Nothing is locked while a save is under way. *)

(* The mishaps that leave something else than the user's draft.            *)
Replacements == {"replied", "reseeded", "emptied"}

Edit(items) ==
    /\ project # Off
    /\ edits < MaxEdits /\ edits' = edits + 1
    /\ drafts' = buildOrderedDraftItems(items)
    /\ wanted' = Made(items) /\ mishaps' = mishaps \ Replacements
    /\ UNCHANGED <<editor, project, locale, workbench, hydrated, options, jobs,
                   saved, nextItemId, changes>>

NewItem(home, title) ==
    [id |-> <<"draft", draftId>>, home |-> home, title |-> title, value |-> 1,
     sequence |-> Len(drafts) + 1]

Add(item) ==
    /\ Len(drafts) < MaxItems
    /\ Edit(Append(drafts, item))
    /\ draftId' = draftId + 1

(* Preview: a shot on offer.  Audio: an asset of the pool.                 *)
handleAddItemFromChooser ==
    /\ options.of # Blank /\ workbench # Blank
    /\ Add(NewItem(options.of, options.in))

(* Preview: the id of any shot, typed in.                                  *)
handleAddManualItem(home) ==
    /\ IsPreview /\ workbench # Blank
    /\ Add(NewItem(home, Untitled))

handleRemoveItem(i) == Edit(RemoveAt(drafts, i)) /\ UNCHANGED draftId

handleMoveItem(i) ==
    /\ i < Len(drafts)
    /\ Edit([drafts EXCEPT ![i] = drafts[i + 1], ![i + 1] = drafts[i]])
    /\ UNCHANGED draftId

(* Mutant: a time below zero is kept.                                      *)
handleClipFieldChangeRaw(i, input) ==
    /\ ~IsPreview
    /\ Edit([drafts EXCEPT ![i].value = input])
    /\ UNCHANGED draftId

(* Audio: a time field of a clip, never below zero.                        *)
handleClipFieldChange(i, input) ==
    /\ ~IsPreview
    /\ Edit([drafts EXCEPT ![i].value = IF input < 0 THEN 0 ELSE input])
    /\ UNCHANGED draftId

(* The draft is sent to the project the route names.                       *)
Save ==
    /\ edits < MaxEdits /\ edits' = edits + 1
    /\ project # Off /\ workbench # Blank
    /\ jobs' = Append(jobs, Job("save", project, drafts))
    /\ UNCHANGED <<editor, project, locale, workbench, drafts, hydrated, options,
                   draftId, saved, nextItemId, changes, wanted, mishaps>>

-----------------------------------------------------------------------------
(* The server.  Saving replaces all items of the project, under new ids;   *)
(* an item of another project is refused.                                  *)

Numbered(items, first) ==
    [i \in DOMAIN items |-> [items[i] EXCEPT !.id = <<"item", first + i - 1>>,
                                            !.title = ServerTitle]]

Accepts(p, items) == \A i \in DOMAIN items : items[i].home = p

UpsertItems(p, items) ==
    /\ Accepts(p, items)
    /\ saved' = [saved EXCEPT ![p] = Numbered(items, nextItemId)]
    /\ nextItemId' = nextItemId + Len(items)

Fail(k) ==
    /\ jobs' = [jobs EXCEPT ![k] = [jobs[k] EXCEPT !.state = "failed"]]
    /\ UNCHANGED <<saved, nextItemId>>

AnswerSave(k) ==
    LET j == jobs[k] IN
    /\ j.kind = "save"
    /\ \/ /\ UpsertItems(j.of, j.items)
          /\ jobs' = [jobs EXCEPT ![k] = [j EXCEPT !.state = "done",
                                                  !.items = saved'[j.of]]]
          /\ UNCHANGED changes
       \/ ~Accepts(j.of, j.items) /\ Fail(k) /\ UNCHANGED changes
       \/ Moves /\ Fail(k)

(* The items in the language asked for; the shots (assets) on offer, whose *)
(* list may be missing; or nothing.                                        *)
AnswerLoad(k) ==
    LET j == jobs[k]
        items == [i \in DOMAIN saved[j.of] |-> [saved[j.of][i] EXCEPT !.title = j.in]]
        done(offered) == [jobs EXCEPT ![k] = [j EXCEPT !.state = "done", !.items = items,
                                                       !.options = offered]]
    IN  /\ j.kind = "load"
        /\ \/ /\ jobs' = done([of |-> j.of, in |-> j.in])
              /\ UNCHANGED <<saved, nextItemId, changes>>
           \/ Moves /\ jobs' = done(NoOptions) /\ UNCHANGED <<saved, nextItemId>>
           \/ Moves /\ Fail(k)

AnswerJob(k) ==
    /\ jobs[k].state = "sent"
    /\ AnswerSave(k) \/ AnswerLoad(k)
    /\ UNCHANGED <<editor, project, locale, workbench, drafts, hydrated, options,
                   draftId, edits, wanted, mishaps>>

(* One item of the project, under the first of its ids.                    *)
FirstItem(p) == <<[id |-> <<"item", 0>>, home |-> p, title |-> ServerTitle,
                   value |-> 1, sequence |-> 1]>>

(* Another user saves the project with one item.                           *)
OtherUserSaves(p) ==
    /\ Moves
    /\ UpsertItems(p, FirstItem(p))
    /\ UNCHANGED <<editor, project, locale, workbench, drafts, hydrated, options,
                   draftId, jobs, edits, wanted, mishaps>>

-----------------------------------------------------------------------------
(* An answer reaches the page.                                             *)

(* The page already holds the draft of this project.                       *)
isHydratingExistingScope(p) == IsPreview /\ hydrated = p

(* Unless the page holds the draft of this project, the server's items     *)
(* become the draft.  An audio draft is always replaced.                   *)
LandLoaded(j) ==
    LET kept == isHydratingExistingScope(j.of)
        again == ~IsPreview /\ workbench = j.of
    IN
    /\ workbench' = j.of
    /\ hydrated' = IF IsPreview THEN j.of ELSE hydrated
    /\ drafts' = CASE kept -> hydratePreviewDraftItemsFromLocale(
                                 drafts, normalizePreviewWorkbench(j.items), j.options)
                   [] ~kept /\ IsPreview -> normalizePreviewWorkbench(j.items)
                   [] OTHER -> seedDraftTracks(normalizeAudioWorkbench(j.items))
    /\ options' = IF kept /\ j.options = NoOptions THEN options ELSE j.options
    /\ wanted' = IF (kept \/ again) /\ wanted # Blank THEN wanted
                 ELSE Made(j.items)
    /\ mishaps' =
         (CASE kept -> (mishaps \cap Replacements)
                       \cup (IF wanted = Blank THEN {"emptied"} ELSE {})
            [] ~kept /\ again -> {"reseeded"}
            [] OTHER -> {})
         \cup (IF j.options = NoOptions THEN {"untranslated"} ELSE {})

(* A draft of this project survives a load that fails, any other page is   *)
(* cleared.  Which project's draft it held is not forgotten.               *)
LandLoadFailed(j) ==
    IF isHydratingExistingScope(j.of) /\ workbench # Blank
    THEN /\ mishaps' = mishaps \cup {"untranslated"}
         /\ UNCHANGED <<workbench, drafts, options, wanted, hydrated>>
    ELSE /\ workbench' = Blank /\ drafts' = <<>> /\ options' = NoOptions
         /\ wanted' = Blank /\ mishaps' = {}
         /\ UNCHANGED hydrated

(* The reply to a save becomes the draft, whatever the user has edited or  *)
(* opened since.  Its titles are those of the draft that was sent.         *)
LandSaved(j) ==
    /\ workbench' = j.of
    /\ drafts' = IF IsPreview
                 THEN hydratePreviewDraftItemsFromLocale(
                          normalizePreviewWorkbench(j.items), j.drafts, j.options)
                 ELSE seedDraftTracks(normalizeAudioWorkbench(j.items))
    /\ LET crossed == project # j.of \/ workbench # j.of
           foreign == Locales \ {locale}
       IN
       mishaps' = mishaps
         \cup (IF wanted # Made(j.drafts) THEN {"replied"} ELSE {})
         \cup (IF crossed \/ j.options.in \in foreign
                   \/ \E i \in DOMAIN j.drafts : j.drafts[i].title \in foreign
                THEN {"untranslated"} ELSE {})
    /\ UNCHANGED <<hydrated, options, wanted>>

LandJob(k) ==
    LET j == jobs[k] IN
    /\ j.state # "sent"
    /\ jobs' = RemoveAt(jobs, k)
    /\ CASE j.kind = "load" /\ j.state = "done" -> LandLoaded(j)
         [] j.kind = "load" /\ j.state = "failed" -> LandLoadFailed(j)
         [] j.kind = "save" /\ j.state = "done" -> LandSaved(j)
         [] OTHER -> UNCHANGED <<workbench, drafts, hydrated, options, wanted, mishaps>>
    /\ UNCHANGED <<editor, project, locale, draftId, saved, nextItemId, edits, changes>>

-----------------------------------------------------------------------------
EditorInit ==
    /\ editor \in {"preview", "audio"}
    /\ project = (CHOOSE p \in Owners : TRUE) /\ locale = (CHOOSE l \in Locales : TRUE)
    /\ workbench = Blank /\ drafts = <<>> /\ hydrated = Off /\ options = NoOptions
    /\ draftId = 1 /\ nextItemId = 1
    /\ jobs = <<Job("load", project, <<>>)>>
    /\ saved = [p \in Owners |-> FirstItem(p)]
    /\ edits = 0 /\ changes = 0 /\ wanted = Blank /\ mishaps = {}

EditorNext ==
    \/ \E p \in Owners : OpenProject(p) \/ OtherUserSaves(p) \/ handleAddManualItem(p)
    \/ CloseEditor
    \/ \E l \in Locales : SwitchLocale(l)
    \/ handleAddItemFromChooser \/ Save
    \/ \E i \in DOMAIN drafts :
         handleRemoveItem(i) \/ handleMoveItem(i)
         \/ \E input \in {-1, 2} : handleClipFieldChange(i, input)
    \/ \E k \in DOMAIN jobs : AnswerJob(k) \/ LandJob(k)

EditorSpec == EditorInit /\ [][EditorNext]_editorVars

-----------------------------------------------------------------------------
Items == [id : {"item", "draft"} \X Nat, home : Owners,
          title : Locales \cup {Untitled, ServerTitle}, value : Nat, sequence : Nat]

EditorTypeOK ==
    /\ editor \in {"preview", "audio"}
    /\ project \in Owners \cup {Off} /\ locale \in Locales
    /\ workbench \in Owners \cup {Blank} /\ hydrated \in Owners \cup {Off}
    /\ drafts \in Seq(Items) /\ saved \in [Owners -> Seq(Items)]
    /\ options.of \in Owners \cup {Blank}
    /\ \A k \in DOMAIN jobs : jobs[k].kind \in {"load", "save"}
                              /\ jobs[k].state \in {"sent", "done", "failed"}
    /\ mishaps \subseteq Replacements \cup {"untranslated"}

(* What the user made of the draft stays until the user changes it: loads  *)
(* and replies keep every item, in order.  Only these lose it: a reply to  *)
(* a save that was sent before the last edit, or for another project; an   *)
(* audio page that is loaded again; and a preview page that a failed load  *)
(* of another project has cleared.                                         *)
WorkIsKept ==
    workbench = project /\ mishaps \cap Replacements = {} => Made(drafts) = wanted

(* When nothing is on its way, every title the preview shows of a shot of  *)
(* the project is in the page's language, also that of an item added or    *)
(* saved before the language was switched; the exceptions are a load of    *)
(* the page or of the shots on offer that failed and a save sent before    *)
(* the page had the new language.                                          *)
TitlesFollowLocale ==
    IsPreview /\ jobs = <<>> /\ "untranslated" \notin mishaps =>
        \A i \in DOMAIN drafts :
            drafts[i].home = project /\ drafts[i].title \in Locales
                => drafts[i].title = locale
=============================================================================
