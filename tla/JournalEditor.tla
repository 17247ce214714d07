--------------------------- MODULE JournalEditor ---------------------------
(***************************************************************************)
(* The screens of a signed-in user: JournalList with its search field,     *)
(* ViewJournal, and the sheet EditView with its text view MultiLineTF.     *)
(*                                                                         *)
(* A sheet edits three @State variables of the screen below it through     *)
(* bindings, so what a sheet leaves behind is there when the next one      *)
(* opens.  The documents move on while a sheet is open: the user's writes  *)
(* reach docs, Firestore's own view, at once, other devices write to it,   *)
(* and the list (datas) follows later (Feed; JournalFeed and JournalSync   *)
(* model how).                                                             *)
(***************************************************************************)
CONSTANTS
  Ids,          \* document ids
  NoId,         \* docID = ""
  Texts,        \* titles, descriptions and queries
  Blank,        \* ""
  Placeholder,  \* "Type Something" as makeUIView writes it
  Contains,     \* the pairs <<title, query>> for which contains is true
  NoJournal     \* not in the list, or no such document

ASSUME EditorAssumption ==
  /\ NoId \notin Ids
  /\ Blank \in Texts /\ Placeholder \notin Texts
  /\ Contains \subseteq Texts \X Texts
  /\ NoJournal \notin [title : Texts, description : Texts]

VARIABLES
  docs,         \* the documents, with the user's own writes
  datas,        \* getData.datas
  show, txt,    \* JournalList: the search field is open; its query
  pushed,       \* the id of ViewJournal.journal, NoId without a ViewJournal
  journal,      \* the texts of ViewJournal.journal
  sheet,        \* the screen whose show2 is true
  draft,        \* title, description and docID of the two screens
  field,        \* UITextView.text
  editing,      \* the text view is the first responder
  (* History variables. *)
  opened,       \* what the sheet was opened with
  typed,        \* what the user has typed in since
  overtaken,    \* the document is not what the sheet was opened with
  stranded      \* the row of the ViewJournal has left the list

listVars == <<show, txt>>
viewVars == <<pushed, journal, stranded>>
sheetVars == <<sheet, field, editing, opened, typed, overtaken>>
vars == <<docs, datas, listVars, viewVars, draft, sheetVars>>

Screens == {"JournalList", "ViewJournal"}
Journals == [title : Texts, description : Texts]
Drafts == [title : Texts, description : Texts, docID : Ids \cup {NoId}]

BlankDraft == [title |-> Blank, description |-> Blank, docID |-> NoId]

TextsOf(d) == [title |-> d.title, description |-> d.description]

(* Every variable has its type: no draft ever holds the placeholder. *)
TypeOK ==
  /\ docs \in [Ids -> Journals \cup {NoJournal}]
  /\ datas \in [Ids -> Journals \cup {NoJournal}]
  /\ show \in BOOLEAN /\ txt \in Texts
  /\ pushed \in Ids \cup {NoId}
  /\ journal \in Journals
  /\ sheet \in Screens \cup {"none"}
  /\ draft \in [Screens -> Drafts]
  /\ field \in Texts \cup {Placeholder}
  /\ editing \in BOOLEAN
  /\ opened \in Drafts
  /\ typed \in SUBSET {"title", "description"}
  /\ overtaken \in BOOLEAN /\ stranded \in BOOLEAN

Init ==
  /\ docs \in [Ids -> Journals \cup {NoJournal}]
  /\ datas = [i \in Ids |-> NoJournal]
  /\ show = FALSE /\ txt = Blank
  /\ pushed = NoId /\ journal = TextsOf(BlankDraft) /\ stranded = FALSE
  /\ sheet = "none" /\ field = Blank /\ editing = FALSE
  /\ draft = [s \in Screens |-> BlankDraft]
  /\ opened = BlankDraft /\ typed = {} /\ overtaken = FALSE

(* The rows of a list: all journals, or those whose title has the query. *)
RowsOf(list, query) ==
  {i \in Ids : /\ list[i] # NoJournal
               /\ query = Blank \/ <<list[i].title, query>> \in Contains}

Rows == RowsOf(datas, txt)

-----------------------------------------------------------------------------
(* JournalList *)

ListOnTop == sheet = "none" /\ pushed = NoId

OpenSearch ==
  /\ ListOnTop /\ ~ show
  /\ show' = TRUE
  /\ UNCHANGED <<docs, datas, txt, viewVars, draft, sheetVars>>

TypeQuery(query) ==
  /\ ListOnTop /\ show
  /\ txt' = query
  /\ UNCHANGED <<docs, datas, show, viewVars, draft, sheetVars>>

(* Mutant: the query outlives its field. *)
CloseSearchKeeps ==
  /\ ListOnTop /\ show
  /\ show' = FALSE
  /\ UNCHANGED <<docs, datas, txt, viewVars, draft, sheetVars>>

CloseSearch ==
  /\ ListOnTop /\ show
  /\ txt' = Blank
  /\ show' = FALSE
  /\ UNCHANGED <<docs, datas, viewVars, draft, sheetVars>>

(* The delete button of a row, which the trash button shows and hides. *)
Delete(i) ==
  /\ ListOnTop /\ i \in Rows
  /\ docs' = [docs EXCEPT ![i] = NoJournal]
  /\ UNCHANGED <<datas, listVars, viewVars, draft, sheetVars>>

(* Mutant: the placeholder whatever the text. *)
MakeUIViewAnew(text) == Placeholder

(* MultiLineTF.makeUIView: the text, or the placeholder for none *)
MakeUIView(text) == IF text # Blank THEN text ELSE Placeholder

(***************************************************************************)
(* show2.toggle() presents EditView for the draft of the screen.  The text *)
(* view is made once; updateUIView does nothing.                           *)
(***************************************************************************)
Present(screen, d) ==
  /\ draft' = [draft EXCEPT ![screen] = d]
  /\ sheet' = screen
  /\ field' = MakeUIView(d.description)
  /\ editing' = FALSE
  /\ opened' = d
  /\ typed' = {}
  /\ UNCHANGED <<docs, datas, listVars, viewVars>>

(* Mutant: description is not cleared, as Save has done so. *)
PlusKeepsDescription ==
  /\ ListOnTop
  /\ Present("JournalList",
             [BlankDraft EXCEPT !.description = draft["JournalList"].description])
  /\ overtaken' = FALSE

(* The + button clears the three variables. *)
Plus ==
  /\ ListOnTop
  /\ Present("JournalList", BlankDraft)
  /\ overtaken' = FALSE

-----------------------------------------------------------------------------
(* ViewJournal *)

ViewOnTop == sheet = "none" /\ pushed # NoId

(***************************************************************************)
(* NavigationLink: a tap on a row.  Whether SwiftUI keeps the @State of an *)
(* earlier ViewJournal is up to SwiftUI.                                   *)
(***************************************************************************)
Push(i) ==
  /\ ListOnTop /\ i \in Rows
  /\ pushed' = i
  /\ journal' = datas[i]
  /\ stranded' = FALSE
  /\ \E d \in {draft["ViewJournal"], BlankDraft} :
       draft' = [draft EXCEPT !["ViewJournal"] = d]
  /\ UNCHANGED <<docs, datas, listVars, sheetVars>>

Pop ==
  /\ pushed' = NoId
  /\ journal' = TextsOf(BlankDraft)
  /\ stranded' = FALSE

(* presentationMode.wrappedValue.dismiss() *)
Back ==
  /\ ViewOnTop
  /\ Pop
  /\ UNCHANGED <<docs, datas, listVars, draft, sheetVars>>

(* The pencil copies the journal as it is shown. *)
Pencil ==
  /\ ViewOnTop
  /\ Present("ViewJournal", [title       |-> journal.title,
                             description |-> journal.description,
                             docID       |-> pushed])
  /\ overtaken' = (stranded \/ docs[pushed] # datas[pushed])

-----------------------------------------------------------------------------
(* EditView and MultiLineTF *)

(* TextField("Enter Title", text: self.$title) *)
TypeTitle(text) ==
  /\ sheet # "none"
  /\ draft' = [draft EXCEPT ![sheet].title = text]
  /\ typed' = typed \cup {"title"}
  /\ UNCHANGED <<docs, datas, listVars, viewVars, sheet, field, editing, opened,
                 overtaken>>

(* Mutant: the placeholder is not taken away. *)
BeginEditingKeeps ==
  /\ sheet # "none" /\ ~ editing
  /\ editing' = TRUE
  /\ UNCHANGED <<docs, datas, listVars, viewVars, draft, sheet, field, opened, typed,
                 overtaken>>

(* textViewDidBeginEditing *)
BeginEditing ==
  /\ sheet # "none" /\ ~ editing
  /\ editing' = TRUE
  /\ field' = IF draft[sheet].description = Blank THEN Blank ELSE field
  /\ UNCHANGED <<docs, datas, listVars, viewVars, draft, sheet, opened, typed, overtaken>>

(* A tap outside the text view: resignFirstResponder *)
EndEditing ==
  /\ sheet # "none" /\ editing
  /\ editing' = FALSE
  /\ UNCHANGED <<docs, datas, listVars, viewVars, draft, sheet, field, opened, typed,
                 overtaken>>

(* Typing makes any text of a text, but it leaves a placeholder in it. *)
Typed(old, text) == IF old = Placeholder THEN Placeholder ELSE text

(* textViewDidChange *)
TypeText(text) ==
  /\ sheet # "none" /\ editing
  /\ field' = Typed(field, text)
  /\ draft' = [draft EXCEPT ![sheet].description = field']
  /\ typed' = typed \cup {"description"}
  /\ UNCHANGED <<docs, datas, listVars, viewVars, sheet, editing, opened, overtaken>>

(* The sheet goes, and its text view with it. *)
Close ==
  /\ sheet' = "none"
  /\ field' = Blank
  /\ editing' = FALSE
  /\ opened' = BlankDraft
  /\ typed' = {}
  /\ overtaken' = FALSE

(* The sheet is swiped away. *)
Dismiss ==
  /\ sheet # "none"
  /\ Close
  /\ UNCHANGED <<docs, datas, listVars, viewVars, draft>>

(***************************************************************************)
(* SaveData, as far as docs shows it at once: updateData of a document     *)
(* that is gone changes nothing, setData makes a document with a new id.   *)
(***************************************************************************)
SaveData(d) ==
  \/ /\ d.docID # NoId
     /\ docs' = [docs EXCEPT ![d.docID] = IF @ = NoJournal THEN @ ELSE TextsOf(d)]
  \/ /\ d.docID = NoId
     /\ \E i \in Ids : /\ docs[i] = NoJournal /\ datas[i] = NoJournal
                       /\ docs' = [docs EXCEPT ![i] = TextsOf(d)]

(* Save: show.toggle(), SaveData() and description = "" *)
Save ==
  /\ sheet # "none"
  /\ SaveData(draft[sheet])
  /\ draft' = [draft EXCEPT ![sheet].description = Blank]
  /\ Close
  /\ UNCHANGED <<datas, listVars, viewVars>>

-----------------------------------------------------------------------------
(* What happens elsewhere. *)

(* Another device saves or deletes a journal, or a write is rejected. *)
DocumentMoves(i, j) ==
  /\ docs[i] # j
  /\ docs' = [docs EXCEPT ![i] = j]
  /\ overtaken' = (overtaken \/ (sheet # "none" /\ opened.docID = i))
  /\ UNCHANGED <<datas, listVars, viewVars, draft, sheet, field, editing, opened, typed>>

(* Mutant: ViewJournal keeps the journal it was made with. *)
RefreshNever(i) ==
  /\ UNCHANGED <<viewVars, draft, sheetVars>>

(***************************************************************************)
(* SwiftUI renders the rows again.  A ViewJournal whose row is there gets  *)
(* the new journal.  If the row is gone, SwiftUI pops it, with its sheet,  *)
(* or leaves it as it is; a row that comes back may find it again.         *)
(***************************************************************************)
Refresh(i) ==
  \/ i # pushed /\ UNCHANGED <<viewVars, draft, sheetVars>>
  \/ /\ i = pushed /\ i \in RowsOf(datas', txt)
     /\ journal' = datas'[i]
     /\ UNCHANGED <<pushed, stranded, draft, sheetVars>>
  \/ /\ i = pushed /\ (i \notin RowsOf(datas', txt) \/ stranded)
     /\ stranded' = TRUE
     /\ UNCHANGED <<pushed, journal, draft, sheetVars>>
  \/ /\ i = pushed /\ i \notin RowsOf(datas', txt)
     /\ Pop
     /\ Close
     /\ UNCHANGED draft

(* The closure of getData brings a document into the list. *)
Feed(i) ==
  /\ datas[i] # docs[i]
  /\ datas' = [datas EXCEPT ![i] = docs[i]]
  /\ Refresh(i)
  /\ UNCHANGED <<docs, listVars>>

Next ==
  \/ OpenSearch \/ CloseSearch \/ Plus
  \/ Back \/ Pencil
  \/ BeginEditing \/ EndEditing \/ Dismiss \/ Save
  \/ \E text \in Texts : TypeQuery(text) \/ TypeTitle(text) \/ TypeText(text)
  \/ \E i \in Ids : Delete(i) \/ Push(i) \/ Feed(i)
  \/ \E i \in Ids, j \in Journals \cup {NoJournal} : DocumentMoves(i, j)

Spec == Init /\ [][Next]_vars

-----------------------------------------------------------------------------
(* Properties. *)

(***************************************************************************)
(* What Save will write is what the sheet shows, the placeholder standing  *)
(* for an empty text, although the text view is never updated from the     *)
(* binding.                                                                *)
(***************************************************************************)
SheetShowsDraft ==
  sheet # "none" =>
    draft[sheet].description = (IF field = Placeholder THEN Blank ELSE field)

(***************************************************************************)
(* What the user has not typed since the sheet opened is what it opened    *)
(* with: nothing of a draft that was dismissed or saved, on either screen, *)
(* gets into another journal, and the document Save writes is the one      *)
(* whose pencil was tapped, a new one after +.                             *)
(***************************************************************************)
NothingLeaks ==
  sheet # "none" =>
    /\ draft[sheet].docID = opened.docID
    /\ draft[sheet].docID = (IF sheet = "ViewJournal" THEN pushed ELSE NoId)
    /\ "title" \notin typed => draft[sheet].title = opened.title
    /\ "description" \notin typed => draft[sheet].description = opened.description
    /\ sheet = "JournalList" => TextsOf(opened) = TextsOf(BlankDraft)

(***************************************************************************)
(* Save replaces a text the user has had before his eyes, unless the       *)
(* document changed while the sheet was open, the list lagged behind when  *)
(* the pencil was tapped, or the row had left the list: the texts of       *)
(* updateData are those of the pencil, with no check of what is there now. *)
(***************************************************************************)
SavesOverWhatWasRead ==
  sheet = "ViewJournal" /\ ~ overtaken =>
    docs[draft[sheet].docID] = TextsOf(opened)

(***************************************************************************)
(* A search that is not on the screen hides no journal: the query goes     *)
(* away with its field, in whatever order the screens were visited.        *)
(***************************************************************************)
NoHiddenFilter == ~ show => Rows = {i \in Ids : datas[i] # NoJournal}

-----------------------------------------------------------------------------
(* The inductive invariant. *)

(* A ViewJournal whose row is in the list shows the journal of the row. *)
ViewShowsRow == pushed # NoId /\ ~ stranded => journal = datas[pushed]

(* The two screens: the pencil is reached through a pushed ViewJournal. *)
SheetOverScreen == sheet = "ViewJournal" => pushed # NoId

(* Nobody types into the placeholder. *)
PlaceholderGone == editing => field # Placeholder

(***************************************************************************)
(* Why the properties hold: SavesOverWhatWasRead needs that the pencil     *)
(* copies the row, NoHiddenFilter that the query is blank, not only that   *)
(* all rows are there.  TypeOK needs PlaceholderGone, which in turn rests  *)
(* on SheetShowsDraft: the delegate looks at the binding to find out what  *)
(* the text view shows.                                                    *)
(***************************************************************************)
EditorInv ==
  /\ SheetShowsDraft /\ NothingLeaks /\ SavesOverWhatWasRead
  /\ ViewShowsRow /\ SheetOverScreen /\ PlaceholderGone
  /\ ~ show => txt = Blank

=============================================================================
