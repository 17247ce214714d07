------------------------ MODULE JournalEditorProofs ------------------------
(***************************************************************************)
(* Proofs about JournalEditor, for every set of document ids and texts and *)
(* every relation Contains.                                                *)
(***************************************************************************)
EXTENDS JournalEditor, TLAPS

(* The blank draft and what is shown of drafts have their types. *)
LEMMA DraftTypes ==
  /\ BlankDraft \in Drafts
  /\ \A d \in Drafts : TextsOf(d) \in Journals
  /\ \A j \in Journals, i \in Ids :
       [title |-> j.title, description |-> j.description, docID |-> i] \in Drafts
BY EditorAssumption DEF BlankDraft, Drafts, Journals, TextsOf

(* A journal of the list is the record of its texts. *)
LEMMA RowTypes ==
  ASSUME NEW list \in [Ids -> Journals \cup {NoJournal}], NEW query,
         NEW i \in RowsOf(list, query)
  PROVE  i \in Ids /\ list[i] \in Journals
BY DEF RowsOf

(* An open sheet is the sheet of a screen, and typing keeps it a draft. *)
LEMMA TypingTypes ==
  ASSUME TypeOK, sheet # "none", NEW text \in Texts
  PROVE  /\ sheet \in Screens
         /\ [draft EXCEPT ![sheet].title = text] \in [Screens -> Drafts]
         /\ [draft EXCEPT ![sheet].description = text] \in [Screens -> Drafts]
<1>1. sheet \in Screens /\ draft[sheet] \in Drafts
  BY DEF TypeOK
<1>2. /\ [draft[sheet] EXCEPT !.title = text] \in Drafts
      /\ [draft[sheet] EXCEPT !.description = text] \in Drafts
  BY <1>1 DEF Drafts
<1> QED
  BY <1>1, <1>2 DEF TypeOK

(* The sheet of a screen opens with a draft. *)
LEMMA PresentTypes ==
  ASSUME TypeOK, NEW screen \in Screens, NEW d \in Drafts, Present(screen, d),
         overtaken' \in BOOLEAN
  PROVE  TypeOK'
<1>1. MakeUIView(d.description) \in Texts \cup {Placeholder}
  BY DEF MakeUIView, Drafts
<1> QED
  BY <1>1 DEF TypeOK, Present, listVars, viewVars

(* SaveData leaves documents and no documents. *)
LEMMA SaveDataTypes ==
  ASSUME TypeOK, NEW d \in Drafts, SaveData(d)
  PROVE  docs' \in [Ids -> Journals \cup {NoJournal}]
<1>1. TextsOf(d) \in Journals
  BY DraftTypes
<1>2. CASE d.docID # NoId
  BY <1>1, <1>2 DEF SaveData, TypeOK
<1>3. CASE d.docID = NoId
  BY <1>1, <1>3 DEF SaveData, TypeOK
<1> QED
  BY <1>2, <1>3

(* Rendering the rows again keeps the types. *)
LEMMA FeedTypes ==
  ASSUME TypeOK, NEW i \in Ids, Feed(i)
  PROVE  TypeOK'
<1>1. datas' \in [Ids -> Journals \cup {NoJournal}]
  BY DEF TypeOK, Feed
<1>2. UNCHANGED <<docs, show, txt>>
  BY DEF Feed, listVars
<1>3. CASE UNCHANGED <<viewVars, draft, sheetVars>>
  BY <1>1, <1>2, <1>3 DEF TypeOK, viewVars, sheetVars
<1>4. CASE i \in RowsOf(datas', txt) /\ journal' = datas'[i]
             /\ UNCHANGED <<pushed, stranded, draft, sheetVars>>
  <2>1. journal' \in Journals
    BY <1>1, <1>4, RowTypes
  <2> QED
    BY <1>1, <1>2, <1>4, <2>1 DEF TypeOK, sheetVars
<1>5. CASE stranded' = TRUE /\ UNCHANGED <<pushed, journal, draft, sheetVars>>
  BY <1>1, <1>2, <1>5 DEF TypeOK, sheetVars
<1>6. CASE Pop /\ Close /\ UNCHANGED draft
  BY <1>1, <1>2, <1>6, DraftTypes, EditorAssumption DEF TypeOK, Pop, Close
<1> QED
  BY <1>3, <1>4, <1>5, <1>6 DEF Feed, Refresh

(* Every step keeps the types, as long as nobody types into the placeholder. *)
LEMMA TypeStep == TypeOK /\ PlaceholderGone /\ [Next]_vars => TypeOK'
<1> SUFFICES ASSUME TypeOK, PlaceholderGone, [Next]_vars PROVE TypeOK'
  OBVIOUS
<1> USE EditorAssumption
<1>1. CASE OpenSearch
  BY <1>1 DEF TypeOK, OpenSearch, viewVars, sheetVars
<1>2. CASE CloseSearch
  BY <1>2 DEF TypeOK, CloseSearch, viewVars, sheetVars
<1>3. ASSUME NEW text \in Texts, TypeQuery(text) PROVE TypeOK'
  BY <1>3 DEF TypeOK, TypeQuery, viewVars, sheetVars
<1>4. CASE Plus
  BY <1>4, PresentTypes, DraftTypes DEF Plus, Screens
<1>5. CASE Back
  BY <1>5, DraftTypes DEF TypeOK, Back, Pop, listVars, sheetVars
<1>6. CASE Pencil
  <2>1. pushed \in Ids /\ journal \in Journals
    BY <1>6 DEF TypeOK, Pencil, ViewOnTop
  <2> QED
    BY <1>6, <2>1, PresentTypes, DraftTypes DEF Pencil, Screens
<1>7. CASE BeginEditing
  BY <1>7 DEF TypeOK, BeginEditing, listVars, viewVars
<1>8. CASE EndEditing
  BY <1>8 DEF TypeOK, EndEditing, listVars, viewVars
<1>9. CASE Dismiss
  BY <1>9, DraftTypes DEF TypeOK, Dismiss, Close, listVars, viewVars
<1>10. CASE Save
  <2>1. sheet \in Screens /\ draft[sheet] \in Drafts
    BY <1>10 DEF TypeOK, Save
  <2>2. docs' \in [Ids -> Journals \cup {NoJournal}]
    BY <1>10, <2>1, SaveDataTypes DEF Save
  <2>3. draft' \in [Screens -> Drafts]
    BY <1>10, TypingTypes DEF Save
  <2> QED
    BY <1>10, <2>2, <2>3, DraftTypes DEF TypeOK, Save, Close, listVars, viewVars
<1>11. ASSUME NEW text \in Texts, TypeTitle(text) PROVE TypeOK'
  <2>1. draft' \in [Screens -> Drafts]
    BY <1>11, TypingTypes DEF TypeTitle
  <2> QED
    BY <1>11, <2>1 DEF TypeOK, TypeTitle, listVars, viewVars
<1>12. ASSUME NEW text \in Texts, TypeText(text) PROVE TypeOK'
  <2>1. field' = text
    BY <1>12 DEF TypeText, Typed, PlaceholderGone
  <2>2. draft' \in [Screens -> Drafts]
    BY <1>12, <2>1, TypingTypes DEF TypeText
  <2> QED
    BY <1>12, <2>1, <2>2 DEF TypeOK, TypeText, listVars, viewVars
<1>13. ASSUME NEW i \in Ids, Delete(i) PROVE TypeOK'
  BY <1>13 DEF TypeOK, Delete, listVars, viewVars, sheetVars
<1>14. ASSUME NEW i \in Ids, Push(i) PROVE TypeOK'
  <2>1. journal' \in Journals
    BY <1>14, RowTypes DEF TypeOK, Push, Rows
  <2>2. draft' \in [Screens -> Drafts]
    BY <1>14, DraftTypes DEF TypeOK, Push, Screens
  <2> QED
    BY <1>14, <2>1, <2>2 DEF TypeOK, Push, listVars, sheetVars
<1>15. ASSUME NEW i \in Ids, Feed(i) PROVE TypeOK'
  BY <1>15, FeedTypes
<1>16. ASSUME NEW i \in Ids, NEW j \in Journals \cup {NoJournal}, DocumentMoves(i, j)
       PROVE  TypeOK'
  BY <1>16 DEF TypeOK, DocumentMoves, listVars, viewVars
<1>17. CASE UNCHANGED vars
  BY <1>17 DEF TypeOK, vars, listVars, viewVars, sheetVars
<1> QED
  BY <1>1, <1>2, <1>3, <1>4, <1>5, <1>6, <1>7, <1>8, <1>9, <1>10, <1>11, <1>12, <1>13,
     <1>14, <1>15, <1>16, <1>17 DEF Next

(* A closed sheet has nothing to answer for. *)
LEMMA ClosedInv ==
  ASSUME sheet' = "none", ViewShowsRow', PlaceholderGone', ~ show' => txt' = Blank
  PROVE  EditorInv'
BY DEF EditorInv, SheetShowsDraft, NothingLeaks, SavesOverWhatWasRead, SheetOverScreen

(* A sheet that opens shows its draft, and the draft is what was asked for. *)
LEMMA PresentInv ==
  ASSUME TypeOK, EditorInv, NEW screen \in Screens, NEW d \in Drafts, Present(screen, d),
         d.docID = (IF screen = "ViewJournal" THEN pushed ELSE NoId),
         screen = "JournalList" => d = BlankDraft,
         screen = "ViewJournal" => pushed # NoId,
         screen = "ViewJournal" /\ ~ overtaken' => docs[pushed] = TextsOf(d)
  PROVE  EditorInv'
<1>1. draft'[screen] = d /\ sheet' = screen /\ opened' = d /\ ~ editing'
  BY DEF Present, TypeOK
<1>2. UNCHANGED <<docs, datas, show, txt, pushed, journal, stranded>>
  BY DEF Present, listVars, viewVars
<1>3. SheetShowsDraft'
  <2>1. d.description \in Texts
    BY DEF Drafts
  <2> QED
    BY <1>1, <2>1, EditorAssumption DEF SheetShowsDraft, Present, MakeUIView
<1>4. NothingLeaks'
  BY <1>1, <1>2 DEF NothingLeaks
<1>5. SavesOverWhatWasRead'
  BY <1>1, <1>2 DEF SavesOverWhatWasRead
<1> QED
  BY <1>1, <1>2, <1>3, <1>4, <1>5
  DEF EditorInv, ViewShowsRow, SheetOverScreen, PlaceholderGone

(* Typing changes the field it says. *)
LEMMA TypingInv ==
  ASSUME TypeOK, EditorInv, sheet # "none", NEW text \in Texts,
         UNCHANGED <<docs, datas, listVars, viewVars, sheet, editing, opened, overtaken>>,
         \/ /\ draft' = [draft EXCEPT ![sheet].title = text]
            /\ typed' = typed \cup {"title"}
            /\ UNCHANGED field
         \/ /\ draft' = [draft EXCEPT ![sheet].description = text]
            /\ typed' = typed \cup {"description"}
            /\ field' = text
  PROVE  EditorInv'
<1>1. sheet \in Screens /\ draft[sheet] \in Drafts
  BY DEF TypeOK
<1>2. draft'[sheet].docID = draft[sheet].docID
  BY <1>1 DEF TypeOK, Drafts
<1>3. SheetShowsDraft'
  BY <1>1, EditorAssumption DEF EditorInv, SheetShowsDraft, TypeOK, Drafts
<1>4. NothingLeaks'
  <2>1. "title" \notin typed' => draft'[sheet].title = draft[sheet].title
    BY <1>1 DEF TypeOK, Drafts
  <2>2. "description" \notin typed' => draft'[sheet].description = draft[sheet].description
    BY <1>1 DEF TypeOK, Drafts
  <2>3. typed \subseteq typed'
    OBVIOUS
  <2> QED
    BY <1>2, <2>1, <2>2, <2>3 DEF EditorInv, NothingLeaks, viewVars
<1>5. SavesOverWhatWasRead'
  BY <1>2 DEF EditorInv, SavesOverWhatWasRead
<1>6. PlaceholderGone'
  BY EditorAssumption DEF EditorInv, PlaceholderGone
<1> QED
  BY <1>3, <1>4, <1>5, <1>6
  DEF EditorInv, ViewShowsRow, SheetOverScreen, listVars, viewVars

(* The list moves under the screens. *)
LEMMA FeedInvStep ==
  ASSUME TypeOK, EditorInv, NEW i \in Ids, Feed(i)
  PROVE  EditorInv'
<1>1. datas' = [datas EXCEPT ![i] = docs[i]] /\ UNCHANGED <<docs, show, txt>>
  BY DEF Feed, listVars
<1> DEFINE SheetKept == UNCHANGED <<pushed, draft, sheetVars>>
<1>2. SheetKept /\ ViewShowsRow' => EditorInv'
  BY <1>1 DEF EditorInv, SheetShowsDraft, NothingLeaks, SavesOverWhatWasRead,
              SheetOverScreen, PlaceholderGone, sheetVars
<1>3. CASE i # pushed /\ UNCHANGED <<viewVars, draft, sheetVars>>
  <2>1. ViewShowsRow'
    BY <1>1, <1>3 DEF EditorInv, ViewShowsRow, TypeOK, viewVars
  <2> QED
    BY <1>2, <1>3, <2>1 DEF viewVars
<1>4. CASE i = pushed /\ journal' = datas'[i]
             /\ UNCHANGED <<pushed, stranded, draft, sheetVars>>
  BY <1>2, <1>4 DEF ViewShowsRow
<1>5. CASE stranded' = TRUE /\ UNCHANGED <<pushed, journal, draft, sheetVars>>
  BY <1>2, <1>5 DEF ViewShowsRow
<1>6. CASE Pop /\ Close /\ UNCHANGED draft
  BY <1>1, <1>6, ClosedInv DEF Pop, Close, ViewShowsRow, PlaceholderGone, EditorInv
<1> QED
  BY <1>3, <1>4, <1>5, <1>6 DEF Feed, Refresh

(* EditorInv holds at first. *)
LEMMA EditorInvInit == Init => TypeOK /\ EditorInv
<1> SUFFICES ASSUME Init PROVE TypeOK /\ EditorInv
  OBVIOUS
<1>1. TypeOK
  BY DraftTypes, EditorAssumption DEF Init, TypeOK, Drafts
<1>2. EditorInv
  BY DEF Init, EditorInv, SheetShowsDraft, NothingLeaks, SavesOverWhatWasRead,
         ViewShowsRow, SheetOverScreen, PlaceholderGone
<1> QED
  BY <1>1, <1>2

(* Every step keeps EditorInv. *)
LEMMA EditorInvStep == TypeOK /\ EditorInv /\ [Next]_vars => EditorInv'
<1> SUFFICES ASSUME TypeOK, EditorInv, [Next]_vars PROVE EditorInv'
  OBVIOUS
<1> DEFINE SheetKept == UNCHANGED <<docs, datas, viewVars, draft, sheetVars>>
<1>0. ASSUME SheetKept, ~ show' => txt' = Blank PROVE EditorInv'
  BY <1>0 DEF EditorInv, SheetShowsDraft, NothingLeaks, SavesOverWhatWasRead,
              ViewShowsRow, SheetOverScreen, PlaceholderGone, viewVars, sheetVars
<1>1. CASE OpenSearch
  BY <1>0, <1>1 DEF OpenSearch
<1>2. CASE CloseSearch
  BY <1>0, <1>2 DEF CloseSearch
<1>3. ASSUME NEW text \in Texts, TypeQuery(text) PROVE EditorInv'
  BY <1>0, <1>3 DEF TypeQuery
<1>4. CASE Plus
  <2>1. BlankDraft \in Drafts /\ BlankDraft.docID = NoId
    BY DraftTypes DEF BlankDraft
  <2> QED
    BY <1>4, <2>1, PresentInv DEF Plus, Screens
<1>5. CASE Back
  BY <1>5, ClosedInv
  DEF EditorInv, Back, Pop, ViewOnTop, ViewShowsRow, PlaceholderGone, listVars, sheetVars
<1>6. CASE Pencil
  <2> DEFINE d == [title |-> journal.title, description |-> journal.description,
                   docID |-> pushed]
  <2>1. pushed \in Ids /\ journal \in Journals /\ pushed # NoId
    BY <1>6 DEF TypeOK, Pencil, ViewOnTop
  <2>2. d \in Drafts /\ d.docID = pushed
    BY <2>1, DraftTypes
  <2>3. TextsOf(d) = journal
    BY <2>1 DEF TextsOf, Journals
  <2>4. ~ overtaken' => docs[pushed] = TextsOf(d)
    BY <1>6, <2>1, <2>3 DEF Pencil, EditorInv, ViewShowsRow
  <2>5. Present("ViewJournal", d)
    BY <1>6 DEF Pencil
  <2> HIDE DEF d
  <2> QED
    BY <2>1, <2>2, <2>4, <2>5, PresentInv DEF Screens
<1>7. CASE BeginEditing
  <2>1. draft[sheet].description = (IF field = Placeholder THEN Blank ELSE field)
    BY <1>7 DEF BeginEditing, EditorInv, SheetShowsDraft
  <2>2. SheetShowsDraft' /\ PlaceholderGone'
    BY <1>7, <2>1, EditorAssumption DEF BeginEditing, SheetShowsDraft, PlaceholderGone
  <2> QED
    BY <1>7, <2>2 DEF BeginEditing, EditorInv, NothingLeaks, SavesOverWhatWasRead,
                      ViewShowsRow, SheetOverScreen, listVars, viewVars
<1>8. CASE EndEditing
  BY <1>8 DEF EndEditing, EditorInv, SheetShowsDraft, NothingLeaks, SavesOverWhatWasRead,
              ViewShowsRow, SheetOverScreen, PlaceholderGone, listVars, viewVars
<1>9. CASE Dismiss
  BY <1>9, ClosedInv
  DEF EditorInv, Dismiss, Close, ViewShowsRow, PlaceholderGone, listVars, viewVars
<1>10. CASE Save
  BY <1>10, ClosedInv
  DEF EditorInv, Save, Close, ViewShowsRow, PlaceholderGone, listVars, viewVars
<1>11. ASSUME NEW text \in Texts, TypeTitle(text) PROVE EditorInv'
  BY <1>11, TypingInv DEF TypeTitle
<1>12. ASSUME NEW text \in Texts, TypeText(text) PROVE EditorInv'
  <2>1. field' = text
    BY <1>12 DEF TypeText, Typed, EditorInv, PlaceholderGone
  <2> QED
    BY <1>12, <2>1, TypingInv DEF TypeText
<1>13. ASSUME NEW i \in Ids, Delete(i) PROVE EditorInv'
  BY <1>13, ClosedInv
  DEF EditorInv, Delete, ListOnTop, ViewShowsRow, PlaceholderGone, listVars, viewVars,
      sheetVars
<1>14. ASSUME NEW i \in Ids, Push(i) PROVE EditorInv'
  BY <1>14, ClosedInv
  DEF EditorInv, Push, ListOnTop, ViewShowsRow, PlaceholderGone, listVars, sheetVars
<1>15. ASSUME NEW i \in Ids, Feed(i) PROVE EditorInv'
  BY <1>15, FeedInvStep
<1>16. ASSUME NEW i \in Ids, NEW j \in Journals \cup {NoJournal}, DocumentMoves(i, j)
       PROVE  EditorInv'
  <2>1. UNCHANGED <<datas, listVars, viewVars, draft, sheet, field, editing, opened, typed>>
    BY <1>16 DEF DocumentMoves
  <2>2. SavesOverWhatWasRead'
    <3> SUFFICES ASSUME sheet = "ViewJournal", ~ overtaken'
                 PROVE  docs'[draft[sheet].docID] = TextsOf(opened)
      BY <2>1 DEF SavesOverWhatWasRead
    <3>1. ~ overtaken /\ opened.docID # i
      BY <1>16 DEF DocumentMoves
    <3>2. draft[sheet].docID = opened.docID
      BY DEF EditorInv, NothingLeaks
    <3>3. docs[draft[sheet].docID] = TextsOf(opened)
      BY <3>1 DEF EditorInv, SavesOverWhatWasRead
    <3> QED
      BY <1>16, <3>1, <3>2, <3>3 DEF DocumentMoves, TypeOK
  <2> QED
    BY <2>1, <2>2 DEF EditorInv, SheetShowsDraft, NothingLeaks, ViewShowsRow,
                      SheetOverScreen, PlaceholderGone, listVars, viewVars
<1>17. CASE UNCHANGED vars
  BY <1>0, <1>17 DEF vars, listVars, EditorInv
<1> QED
  BY <1>1, <1>2, <1>3, <1>4, <1>5, <1>6, <1>7, <1>8, <1>9, <1>10, <1>11, <1>12, <1>13,
     <1>14, <1>15, <1>16, <1>17 DEF Next

-----------------------------------------------------------------------------
(* The theorems. *)

(***************************************************************************)
(* The inductive invariant of the screens: types and what the properties   *)
(* rest on.                                                                *)
(***************************************************************************)
THEOREM EditorCorrect == Spec => [](TypeOK /\ EditorInv)
<1>1. TypeOK /\ EditorInv /\ [Next]_vars => (TypeOK /\ EditorInv)'
  BY TypeStep, EditorInvStep DEF EditorInv
<1> QED
  BY EditorInvInit, <1>1, PTL DEF Spec

(* The placeholder of MultiLineTF never gets into a draft or a document. *)
THEOREM TypeCorrect == Spec => []TypeOK
BY EditorCorrect, PTL

(* Save writes what the sheet shows. *)
THEOREM SheetCorrect == Spec => []SheetShowsDraft
<1>1. EditorInv => SheetShowsDraft
  BY DEF EditorInv
<1> QED
  BY <1>1, EditorCorrect, PTL

(***************************************************************************)
(* Nothing of a dismissed or saved draft gets into another journal, and    *)
(* Save writes the journal whose pencil was tapped.                        *)
(***************************************************************************)
THEOREM LeaksCorrect == Spec => []NothingLeaks
<1>1. EditorInv => NothingLeaks
  BY DEF EditorInv
<1> QED
  BY <1>1, EditorCorrect, PTL

(* Save replaces an unseen text only in the cases that overtaken records. *)
THEOREM OverwriteCorrect == Spec => []SavesOverWhatWasRead
<1>1. EditorInv => SavesOverWhatWasRead
  BY DEF EditorInv
<1> QED
  BY <1>1, EditorCorrect, PTL

(* A search that is not on the screen hides no journal. *)
THEOREM FilterCorrect == Spec => []NoHiddenFilter
<1>1. EditorInv => NoHiddenFilter
  BY DEF EditorInv, NoHiddenFilter, Rows, RowsOf
<1> QED
  BY <1>1, EditorCorrect, PTL

=============================================================================
