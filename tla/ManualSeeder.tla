---------------------------- MODULE ManualSeeder ----------------------------
(***************************************************************************)
(* The manual news seeder of the dashboard: a list of boxes for each page, *)
(* edited in a sheet, with pictures read from files in their own time, and *)
(* the rows sent to the server when a full newspaper is generated          *)
(* (app/(publisher)/dashboard/page.tsx).  Dashboard is the rest of that    *)
(* page; the names the two would share begin with Seeder here.             *)
(***************************************************************************)
EXTENDS Integers, Sequences, FiniteSets

CONSTANTS
    LastPage, \* defaultPages
    MaxBoxes, \* bound: boxes created in a behaviour
    MaxReads  \* bound: files being read at once

ASSUME SeederBounds ==
    /\ LastPage \in Nat \ {0}
    /\ MaxBoxes \in Nat
    /\ MaxReads \in Nat

VARIABLES
    sheet,   \* "closed", "pages", or the page whose boxes are shown
    entries, \* manualPageEntries: the boxes of each page
    ids,     \* boxes created so far
    reads    \* files being read

seederVars == <<sheet, entries, ids, reads>>

SeederPages == 1..LastPage
Ids == 0..MaxBoxes
\* of: the box a picture was chosen for; moved: whether a box of its page was
\* removed between the choice and the picture.
Picture == [of: Ids, moved: BOOLEAN]
NoPicture == [of |-> 0, moved |-> FALSE]
\* ready: it has a headline and a body.
Box == [id: Ids, ready: BOOLEAN, image: Picture, portrait: Picture]
NewBox(id) ==
    [id |-> id, ready |-> FALSE, image |-> NoPicture, portrait |-> NoPicture]

SeederTypeOK ==
    /\ sheet \in [open: {"closed", "pages", "boxes"}, page: SeederPages]
    /\ entries \in [SeederPages -> Seq(Box)]
    /\ ids \in Ids
    /\ reads \subseteq [page: SeederPages, slot: 0..2, picture: Picture]
    /\ \A p, q \in SeederPages : \A i \in 1..Len(entries[p]), j \in 1..Len(entries[q]) :
          entries[p][i].id = entries[q][j].id => p = q /\ i = j
-----------------------------------------------------------------------------
SeederInit ==
    /\ sheet = [open |-> "closed", page |-> 1]
    /\ entries = [p \in SeederPages |-> <<>>]
    /\ ids = 0
    /\ reads = {}

OpenPages ==
    /\ sheet.open = "closed"
    /\ sheet' = [sheet EXCEPT !.open = "pages"]
    /\ UNCHANGED <<entries, ids, reads>>

Close ==
    /\ sheet.open # "closed"
    /\ sheet' = [sheet EXCEPT !.open = "closed"]
    /\ UNCHANGED <<entries, ids, reads>>

\* Mutant of AddBox: the new box has the id of the newest.
AddBoxOfOldId(p) ==
    /\ ids < MaxBoxes
    /\ ids' = IF ids = 0 THEN 1 ELSE ids
    /\ entries' = [entries EXCEPT ![p] = Append(@, NewBox(ids'))]

AddBox(p) ==
    /\ ids < MaxBoxes
    /\ ids' = ids + 1
    /\ entries' = [entries EXCEPT ![p] = Append(@, NewBox(ids + 1))]

\* openManualSeederForPage: a page without a box gets one.
OpenSeeder(p) ==
    /\ sheet.open = "pages"
    /\ sheet' = [open |-> "boxes", page |-> p]
    /\ IF entries[p] = <<>> THEN AddBox(p) ELSE UNCHANGED <<entries, ids>>
    /\ UNCHANGED reads

\* addManualBoxForPage
AddManualBox ==
    /\ sheet.open = "boxes"
    /\ AddBox(sheet.page)
    /\ UNCHANGED <<sheet, reads>>

\* updateManualEntry: the headline and the body are completed or spoiled.
TypeBox(i) ==
    /\ sheet.open = "boxes"
    /\ entries' = [entries EXCEPT ![sheet.page][i].ready = ~@]
    /\ UNCHANGED <<sheet, ids, reads>>

RemoveBox(i) ==
    /\ sheet.open = "boxes"
    /\ entries' = [entries EXCEPT ![sheet.page] =
                     SubSeq(@, 1, i - 1) \o SubSeq(@, i + 1, Len(@))]
    /\ reads' = {[r EXCEPT !.picture.moved = @ \/ r.page = sheet.page] : r \in reads}
    /\ UNCHANGED <<sheet, ids>>

\* slot 0 is the image of the box named; slots 1 and 2 are the portraits of an
\* editorial page.
ChooseFile(slot, id) ==
    /\ sheet.open = "boxes"
    /\ Cardinality(reads) < MaxReads
    /\ reads' = reads \union
          {[page |-> sheet.page, slot |-> slot,
            picture |-> [of |-> id, moved |-> FALSE]]}
    /\ UNCHANGED <<sheet, entries, ids>>

ChooseImage(i) == ChooseFile(0, entries[sheet.page][i].id)

\* The portraits belong to the first two boxes, which need not be there yet.
ChoosePortrait(slot) ==
    ChooseFile(slot, IF slot <= Len(entries[sheet.page])
                     THEN entries[sheet.page][slot].id ELSE 0)

\* Mutant of TakesImage: the image, too, goes to a place in the list.
TakesImageByPlace(r, i) == i = 1

TakesImage(r, i) == entries[r.page][i].id = r.picture.of

\* handleManualEntryImageUpload: to the box named; to none if it is gone.
ImageRead(r) ==
    /\ r.slot = 0
    /\ entries' = [entries EXCEPT ![r.page] =
          [i \in 1..Len(@) |-> IF TakesImage(r, i)
                               THEN [@[i] EXCEPT !.image = r.picture]
                               ELSE @[i]]]
    /\ UNCHANGED ids

\* handleManualEntryPortraitUpload: to a place in the list, which is padded
\* with new boxes up to it.
PortraitRead(r) ==
    LET list == entries[r.page]
        missing == {n \in 1..r.slot : n > Len(list)}
        padded == list \o [n \in 1..Cardinality(missing) |-> NewBox(ids + n)]
    IN  /\ r.slot # 0
        /\ ids + Cardinality(missing) <= MaxBoxes
        /\ entries' = [entries EXCEPT ![r.page] =
                         [padded EXCEPT ![r.slot].portrait = r.picture]]
        /\ ids' = ids + Cardinality(missing)

FileRead(r) ==
    /\ ImageRead(r) \/ PortraitRead(r)
    /\ reads' = reads \ {r}
    /\ UNCHANGED sheet

SeederNext ==
    \/ OpenPages
    \/ Close
    \/ \E p \in SeederPages : OpenSeeder(p)
    \/ AddManualBox
    \/ \E i \in 1..Len(entries[sheet.page]) :
          TypeBox(i) \/ RemoveBox(i) \/ ChooseImage(i)
    \/ \E slot \in 1..2 : ChoosePortrait(slot)
    \/ \E r \in reads : FileRead(r)

SeederSpec == SeederInit /\ [][SeederNext]_seederVars
-----------------------------------------------------------------------------
\* manualEntriesFlat: the boxes of all pages, page after page.
Tagged(p) == [i \in 1..Len(entries[p]) |-> [page |-> p, box |-> entries[p][i]]]
Flat == LET upTo[p \in 0..LastPage] ==
                IF p = 0 THEN <<>> ELSE upTo[p - 1] \o Tagged(p)
        IN  upTo[LastPage]

\* Those sent: the boxes nobody finished are left out.
Sent == {k \in 1..Len(Flat) : Flat[k].box.ready}

\* Mutant of SlotIndex: the plain index of the list that is sent.
GlobalIndex(k) == Cardinality({j \in Sent : j < k})

\* slotIndexByPage: how many boxes of its page came before.
SlotIndex(k) == Cardinality({j \in Sent : j < k /\ Flat[j].page = Flat[k].page})

\* What debitFullNewspaperAndOpen sends and SaaSSaveManualBoxContent stores.
Rows == {[page |-> Flat[k].page, slot |-> SlotIndex(k), id |-> Flat[k].box.id] :
            k \in Sent}

\* However long a file is read and whatever is removed meanwhile, an image is
\* on the box it was chosen for; a portrait too, if no box was removed.
PicturesStayWithTheirBox ==
    \A p \in SeederPages : \A i \in 1..Len(entries[p]) :
        LET box == entries[p][i]
        IN  /\ box.image.of \in {0, box.id}
            /\ ~box.portrait.moved => box.portrait.of \in {0, box.id}

\* The comment at dashboard/page.tsx:560: the slot index counts per page.  The
\* finished boxes of every page have the slots 0, 1, ... in the order of its
\* sheet, whatever is on the pages before and however many are unfinished.
SlotsFollowThePage ==
    \A p \in SeederPages :
        LET ready == {i \in 1..Len(entries[p]) : entries[p][i].ready}
        IN  {r \in Rows : r.page = p} =
               {[page |-> p, slot |-> Cardinality({j \in ready : j < i}),
                 id |-> entries[p][i].id] : i \in ready}
=============================================================================
