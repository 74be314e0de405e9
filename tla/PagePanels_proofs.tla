------------------------- MODULE PagePanels_proofs -------------------------
(***************************************************************************)
(* What holds of PagePanels for any number of slots, texts and saves: the  *)
(* types, that typed text stays, and that the stored rows are those of one *)
(* save or of saves that ran at once.                                      *)
(***************************************************************************)
EXTENDS PagePanels, FiniteSetTheorems, TLAPS

-----------------------------------------------------------------------------
\* Types.

ServerOK ==
    /\ stored \in [Kinds -> SUBSET Row]
    /\ saves \in Seq(Save)
    /\ overlaps \subseteq SUBSET (1..Len(saves))

SetupOK ==
    /\ setup \in [kind: Kinds \union {"none"}, saving: 0..Len(saves)]
    /\ setup.saving # 0 => saves[setup.saving].stage # "over"

LocalOK ==
    /\ slots \in [Slots -> Content]
    /\ load \in [stage: {"none", "asked", "read"}, got: SUBSET Row]
    /\ news \in [fetching: BOOLEAN, here: BOOLEAN]
    /\ filling \in Seq(Slots)
    /\ reading \subseteq [slot: Slots, image: 1..edits]
    /\ typed \in [Slots -> 0..edits]
    /\ edits \in 0..MaxEdits

LEMMA Parts == TypeOK <=> ServerOK /\ SetupOK /\ LocalOK
  BY DEF TypeOK, ServerOK, SetupOK, LocalOK

LEMMA NextParts == ServerOK' /\ SetupOK' /\ LocalOK' => TypeOK'
  BY DEF TypeOK, ServerOK, SetupOK, LocalOK

-----------------------------------------------------------------------------
\* The inductive invariant.

\* What loads is an open panel, and nothing is typed into it meanwhile.
QuietLoad ==
    load # NoLoad => setup.kind \in Kinds /\ \A s \in Slots : typed[s] = 0

\* Each save that has rows here has one for every slot.
Whole(rows) ==
    \A r \in rows, s \in Slots :
        \E q \in rows :
            /\ q.slot = s /\ q.by = r.by
            /\ \A p \in rows : p.slot = s /\ p.by = r.by => p = q

Committed(n) == n \in 1..Len(saves) /\ saves[n].stage \in {"stored", "over"}

\* A save under way carries whole rows of its own.
SavesOK ==
    \A n \in 1..Len(saves) :
        saves[n].stage \in {"sent", "deleted"} =>
           Whole(saves[n].rows) /\ \A r \in saves[n].rows : r.by = n

RowsOK ==
    \A k \in Kinds : Whole(stored[k]) /\ \A r \in stored[k] : Committed(r.by)

\* What a save has deleted are all the rows of the saves it saw.
OldOK ==
    \A n \in 1..Len(saves) :
        saves[n].stage = "deleted" =>
           \A r \in saves[n].old :
              /\ Committed(r.by)
              /\ \A q \in stored[saves[n].kind] : q.by = r.by => q \in saves[n].old

TogetherOK ==
    \A k \in Kinds : \A r, q \in stored[k] :
        r.by = q.by \/ (k = "teasers" /\ {r.by, q.by} \in overlaps)

TableOK == SavesOK /\ RowsOK /\ OldOK /\ TogetherOK

IInv == TypeOK /\ QuietLoad /\ TypedTextStays /\ TableOK

LEMMA Facts ==
  ASSUME ServerOK
  PROVE  /\ Len(saves) \in Nat
         /\ \A n \in 1..Len(saves) : saves[n] \in Save
  BY DEF ServerOK

LEMMA Blanks ==
  /\ Blank \in [Slots -> Content]
  /\ 0 \in 0..MaxEdits
  /\ \A s \in Slots : Blank[s] = [text |-> 0, image |-> 0]
  /\ NoLoad \in [stage: {"none", "asked", "read"}, got: SUBSET Row]
  /\ \A n \in Nat : 0 \in 0..n
  <1>1. 0 \in 0..MaxEdits
    BY BoundsAssumption
  <1>2. [text |-> 0, image |-> 0] \in Content
    BY <1>1 DEF Content
  <1> QED BY <1>1, <1>2 DEF Blank, NoLoad

LEMMA InitIInv == Init => IInv
  <1> SUFFICES ASSUME Init PROVE IInv
    OBVIOUS
  <1>1. saves = <<>> /\ Len(saves) = 0 /\ saves \in Seq(Save)
    BY DEF Init
  <1>2. ServerOK
    BY <1>1 DEF Init, ServerOK
  <1>3. SetupOK
    BY <1>1 DEF Init, SetupOK
  <1>4. LocalOK
    BY Blanks, BoundsAssumption DEF Init, LocalOK
  <1>5. QuietLoad /\ TypedTextStays
    BY DEF Init, QuietLoad, TypedTextStays
  <1>6. TableOK
    BY <1>1 DEF Init, TableOK, SavesOK, RowsOK, OldOK, TogetherOK, Whole
  <1> QED BY <1>2, <1>3, <1>4, <1>5, <1>6, Parts DEF IInv

-----------------------------------------------------------------------------
\* Steps of the panel: the rows and the saves stay as they are.

LEMMA TableStays ==
  ASSUME TableOK, UNCHANGED server
  PROVE  TableOK'
  BY DEF TableOK, server, SavesOK, RowsOK, OldOK, TogetherOK, Committed

\* A panel that opens or closes starts anew.
LEMMA FreshPanel ==
  ASSUME ServerOK, LocalOK, Fresh, UNCHANGED edits,
         load' \in [stage: {"none", "asked", "read"}, got: SUBSET Row],
         load' = NoLoad \/ setup'.kind \in Kinds
  PROVE  LocalOK' /\ QuietLoad' /\ TypedTextStays'
  <1>1. edits \in Nat
    BY BoundsAssumption DEF LocalOK
  <1>2. typed' \in [Slots -> 0..edits] /\ \A s \in Slots : typed'[s] = 0
    BY <1>1, Blanks DEF Fresh
  <1>3. LocalOK'
    BY <1>1, <1>2, Blanks DEF Fresh, LocalOK
  <1> QED BY <1>2, <1>3 DEF QuietLoad, TypedTextStays

LEMMA SetupSteps ==
  ASSUME IInv, (\E k \in Kinds : OpenSetup(k)) \/ CloseSetup
  PROVE  IInv'
  <1>0. ServerOK /\ SetupOK /\ LocalOK
    BY Parts DEF IInv
  <1>1. Fresh /\ UNCHANGED <<server, edits>>
    BY DEF OpenSetup, CloseSetup, Close
  <1>2. ServerOK' /\ Len(saves') \in Nat
    BY <1>0, <1>1 DEF server, ServerOK
  <1>3. /\ setup' \in [kind: Kinds \union {"none"}, saving: {0}]
        /\ load' \in [stage: {"none", "asked", "read"}, got: SUBSET Row]
        /\ load' = NoLoad \/ setup'.kind \in Kinds
    BY Blanks DEF OpenSetup, CloseSetup, Close, NoLoad
  <1>4. SetupOK'
    BY <1>2, <1>3 DEF SetupOK
  <1>5. LocalOK' /\ QuietLoad' /\ TypedTextStays'
    BY <1>0, <1>1, <1>3, FreshPanel
  <1>6. TableOK'
    BY <1>1, TableStays DEF IInv
  <1> QED BY <1>2, <1>4, <1>5, <1>6, NextParts DEF IInv

LEMMA LoadSteps ==
  ASSUME IInv, ReadStored \/ ShowLoaded \/ LoadFails
  PROVE  IInv'
  <1>0. ServerOK /\ SetupOK /\ LocalOK /\ \A s \in Slots : Blank[s] \in Content
    BY Parts, Blanks DEF IInv
  <1>1. load # NoLoad
    BY DEF ReadStored, ShowLoaded, LoadFails, NoLoad
  <1>2. setup.kind \in Kinds /\ \A s \in Slots : typed[s] = 0
    BY <1>1 DEF IInv, QuietLoad
  <1>3. UNCHANGED <<server, setup, news, filling, reading, typed, edits>>
    BY DEF ReadStored, ShowLoaded, LoadFails
  <1>4. slots' \in [Slots -> Content]
    <2>1. CASE ShowLoaded
      <3>1. {r.content : r \in load.got} \union {Blank[s] : s \in Slots} \subseteq Content
        BY <1>0 DEF LocalOK, Row
      <3> QED BY <2>1, <3>1 DEF ShowLoaded
    <2>2. CASE ReadStored \/ LoadFails
      BY <1>0, <2>2, Blanks DEF ReadStored, LoadFails, LocalOK
    <2> QED BY <2>1, <2>2
  <1>5. load' \in [stage: {"none", "asked", "read"}, got: SUBSET Row]
    <2>1. CASE ReadStored
      <3>1. setup.kind \in Kinds => stored[setup.kind] \in SUBSET Row
        BY <1>0 DEF ServerOK
      <3>2. setup.kind \in Kinds
        BY <1>2
      <3> QED BY <2>1, <3>1, <3>2 DEF ReadStored
    <2> QED BY <2>1, Blanks DEF ShowLoaded, LoadFails
  <1>6. ServerOK' /\ SetupOK' /\ LocalOK'
    BY <1>0, <1>3, <1>4, <1>5 DEF server, ServerOK, SetupOK, LocalOK
  <1>7. QuietLoad' /\ TypedTextStays'
    BY <1>2, <1>3 DEF QuietLoad, TypedTextStays
  <1>8. TableOK'
    BY <1>3, TableStays DEF IInv
  <1> QED BY <1>6, <1>7, <1>8, NextParts DEF IInv

\* What an edit of the panel leaves alone.
LEMMA EditFrame ==
  ASSUME IInv, UNCHANGED <<server, setup, load>>, LocalOK',
         \A s \in Slots : load = NoLoad \/ typed'[s] = 0 \/ typed'[s] = typed[s],
         TypedTextStays'
  PROVE  IInv'
  <1>1. ServerOK' /\ SetupOK'
    BY Parts DEF IInv, server, ServerOK, SetupOK
  <1>2. QuietLoad'
    BY DEF IInv, QuietLoad
  <1>3. TableOK'
    BY TableStays DEF IInv
  <1> QED BY <1>1, <1>2, <1>3, NextParts DEF IInv

\* A text or a picture more keeps the earlier ones in range.
LEMMA MoreEdits ==
  ASSUME LocalOK, New
  PROVE  /\ edits' \in 1..MaxEdits /\ edits' \in 1..edits'
         /\ typed \in [Slots -> 0..edits'] /\ 0 \in 0..edits' /\ edits' \in 0..edits'
         /\ reading \subseteq [slot: Slots, image: 1..edits']
  <1>1. edits \in Nat /\ MaxEdits \in Nat /\ edits < MaxEdits /\ edits' = edits + 1
    BY BoundsAssumption DEF LocalOK, New
  <1>2. 0..edits \subseteq 0..edits' /\ 1..edits \subseteq 1..edits'
    BY <1>1
  <1> QED BY <1>1, <1>2 DEF LocalOK

LEMMA WriteSteps ==
  ASSUME IInv, NEW s \in Slots, TypeText(s) \/ ChooseImage(s)
  PROVE  IInv'
  <1>0. LocalOK /\ New /\ Editable /\ slots[s] \in Content
    BY Parts DEF IInv, TypeText, ChooseImage, LocalOK
  <1>1. edits' \in 0..MaxEdits
    BY <1>0, MoreEdits, BoundsAssumption
  <1>2. CASE TypeText(s)
    <2> DEFINE new == [slots[s] EXCEPT !.text = edits']
    <2>1. new \in Content /\ new.text = edits'
      BY <1>0, <1>1 DEF Content
    <2>2. slots' = [slots EXCEPT ![s] = new] /\ typed' = [typed EXCEPT ![s] = edits']
      BY <1>2 DEF TypeText, Put
    <2>3. UNCHANGED <<server, setup, load, news, filling, reading>>
      BY <1>2 DEF TypeText
    <2> HIDE DEF new
    <2>4. LocalOK'
      BY <1>0, <1>1, <2>1, <2>2, <2>3, MoreEdits DEF LocalOK
    <2>5. TypedTextStays'
      BY <1>0, <2>1, <2>2 DEF IInv, TypedTextStays, LocalOK
    <2> QED BY <1>0, <2>3, <2>4, <2>5, EditFrame DEF Editable
  <1>3. CASE ChooseImage(s)
    <2>1. UNCHANGED <<server, setup, slots, load, news, filling, typed>>
      BY <1>3 DEF ChooseImage
    <2>2. reading' \subseteq [slot: Slots, image: 1..edits']
      BY <1>0, <1>3, MoreEdits DEF ChooseImage
    <2>3. LocalOK'
      BY <1>0, <1>1, <2>1, <2>2, MoreEdits DEF LocalOK
    <2>4. TypedTextStays'
      BY <2>1 DEF IInv, TypedTextStays
    <2> QED BY <2>1, <2>3, <2>4, EditFrame
  <1> QED BY <1>2, <1>3

LEMMA ReadStep ==
  ASSUME IInv, NEW file \in reading, ImageRead(file)
  PROVE  IInv'
  <1>0. LocalOK /\ file.slot \in Slots /\ file.image \in 0..MaxEdits
    <2>1. LocalOK
      BY Parts DEF IInv
    <2>2. file \in [slot: Slots, image: 1..edits] /\ edits \in 0..MaxEdits
      BY <2>1 DEF LocalOK
    <2>3. file.image \in 1..edits
      BY <2>2
    <2> QED BY <2>1, <2>2, <2>3, BoundsAssumption
  <1> DEFINE new == [slots[file.slot] EXCEPT !.image = file.image]
  <1>1. new \in Content /\ new.text = slots[file.slot].text
    <2>1. slots[file.slot] \in Content
      BY <1>0 DEF LocalOK
    <2> QED BY <1>0, <2>1 DEF Content
  <1>2. /\ slots' = [slots EXCEPT ![file.slot] = new] /\ reading' \subseteq reading
        /\ UNCHANGED <<server, setup, load, news, filling, typed, edits>>
    BY DEF ImageRead, Put
  <1> HIDE DEF new
  <1>3. LocalOK'
    BY <1>0, <1>1, <1>2 DEF LocalOK
  <1>4. TypedTextStays'
    BY <1>0, <1>1, <1>2 DEF IInv, TypedTextStays, LocalOK
  <1> QED BY <1>2, <1>3, <1>4, EditFrame

LEMMA NewsSteps ==
  ASSUME IInv, FetchArticles \/ ArticlesAnswered \/ AutoFill \/ \E s \in Slots : Apply(s)
  PROVE  IInv'
  <1>0. LocalOK /\ UNCHANGED <<server, setup, slots, load, reading, typed, edits>>
    BY Parts DEF IInv, FetchArticles, ArticlesAnswered, AutoFill, Apply, StartFilling
  <1>1. news' \in [fetching: BOOLEAN, here: BOOLEAN]
    <2>1. news \in [fetching: BOOLEAN, here: BOOLEAN]
      BY <1>0 DEF LocalOK
    <2>2. CASE FetchArticles
      BY <2>1, <2>2 DEF FetchArticles
    <2>3. CASE ArticlesAnswered
      <3>1. PICK here \in {TRUE, news.here} : news' = [fetching |-> FALSE, here |-> here]
        BY <2>3 DEF ArticlesAnswered
      <3>2. here \in BOOLEAN
        BY <2>1, <3>1
      <3> QED BY <3>1, <3>2
    <2>4. CASE AutoFill \/ \E s \in Slots : Apply(s)
      BY <2>1, <2>4 DEF AutoFill, Apply, StartFilling
    <2> QED BY <2>2, <2>3, <2>4
  <1>2. filling' \in Seq(Slots)
    <2>1. [s \in Slots |-> s] \in Seq(Slots)
      BY BoundsAssumption DEF Slots
    <2>2. CASE AutoFill
      BY <2>1, <2>2 DEF AutoFill, StartFilling
    <2>3. ASSUME NEW s \in Slots, Apply(s) PROVE filling' \in Seq(Slots)
      <3>1. <<s>> \in Seq(Slots)
        OBVIOUS
      <3> QED BY <2>3, <3>1 DEF Apply, StartFilling
    <2>4. CASE FetchArticles \/ ArticlesAnswered
      BY <1>0, <2>4 DEF FetchArticles, ArticlesAnswered, LocalOK
    <2> QED BY <2>2, <2>3, <2>4
  <1>3. LocalOK'
    BY <1>0, <1>1, <1>2 DEF LocalOK
  <1>4. TypedTextStays'
    BY <1>0 DEF IInv, TypedTextStays
  <1> QED BY <1>0, <1>3, <1>4, EditFrame

LEMMA FillStep ==
  ASSUME IInv, Applied
  PROVE  IInv'
  <1>0. LocalOK /\ New /\ Head(filling) \in Slots /\ Tail(filling) \in Seq(Slots)
    BY Parts DEF IInv, Applied, LocalOK
  <1> DEFINE s == Head(filling)
             new == [text |-> edits', image |-> edits']
  <1>1. new \in Content /\ edits' \in 0..MaxEdits
    BY <1>0, MoreEdits, BoundsAssumption DEF Content
  <1>2. /\ slots' = [slots EXCEPT ![s] = new]
        /\ typed' = [typed EXCEPT ![s] = 0]
        /\ filling' = Tail(filling)
        /\ UNCHANGED <<server, setup, load, news, reading>>
    BY DEF Applied, Put
  <1> HIDE DEF new
  <1>3. LocalOK'
    BY <1>0, <1>1, <1>2, MoreEdits DEF LocalOK
  <1>4. TypedTextStays'
    BY <1>0, <1>2 DEF IInv, TypedTextStays, LocalOK
  <1>5. \A u \in Slots : typed'[u] = 0 \/ typed'[u] = typed[u]
    BY <1>0, <1>2 DEF LocalOK
  <1> QED BY <1>2, <1>3, <1>4, <1>5, EditFrame

-----------------------------------------------------------------------------
\* Steps of the server's handlers and of their answers.

\* Save n goes on: the other saves stay, and what was committed remains so.
GoesOn(n) ==
    /\ saves' \in Seq(Save) /\ Len(saves') = Len(saves)
    /\ \A i \in 1..Len(saves) \ {n} : saves'[i] = saves[i]
    /\ saves'[n].kind = saves[n].kind
    /\ saves'[n].stage # "sent"
    /\ Committed(n) => saves'[n].stage \in {"stored", "over"}

LEMMA Deleting ==
  ASSUME ServerOK, NEW n \in 1..Len(saves), DeleteRows(n)
  PROVE  /\ GoesOn(n) /\ saves[n].stage = "sent" /\ saves'[n].stage = "deleted"
         /\ saves'[n].rows = saves[n].rows /\ saves'[n].old = stored[saves[n].kind]
  <1> DEFINE new == [saves[n] EXCEPT !.stage = "deleted", !.old = stored[saves[n].kind]]
  <1>1. saves[n] \in Save /\ saves \in Seq(Save)
    BY Facts DEF ServerOK
  <1>2. stored[saves[n].kind] \in SUBSET Row
    BY <1>1 DEF Save, ServerOK
  <1>3. /\ new \in Save /\ new.kind = saves[n].kind /\ new.rows = saves[n].rows
        /\ new.stage = "deleted" /\ new.old = stored[saves[n].kind]
    BY <1>1, <1>2 DEF Save
  <1>4. saves' = [saves EXCEPT ![n] = new] /\ saves[n].stage = "sent"
    BY <1>1 DEF DeleteRows
  <1> HIDE DEF new
  <1> QED BY <1>1, <1>3, <1>4 DEF GoesOn, Committed

LEMMA Inserting ==
  ASSUME ServerOK, NEW n \in 1..Len(saves), InsertRows(n)
  PROVE  GoesOn(n) /\ saves'[n].stage = "stored"
  <1> DEFINE new == [saves[n] EXCEPT !.stage = "stored", !.old = {}]
  <1>1. saves[n] \in Save /\ saves \in Seq(Save)
    BY Facts DEF ServerOK
  <1>2. new \in Save /\ new.kind = saves[n].kind /\ new.stage = "stored"
    BY <1>1 DEF Save
  <1>3. saves' = [saves EXCEPT ![n] = new] /\ saves[n].stage \in {"deleted"}
    BY <1>1 DEF InsertRows
  <1> HIDE DEF new
  <1> QED BY <1>1, <1>2, <1>3 DEF GoesOn, Committed

LEMMA Failing ==
  ASSUME ServerOK, NEW n \in 1..Len(saves), FailToStore(n)
  PROVE  GoesOn(n) /\ saves'[n].stage = "failed"
  <1> DEFINE new == [saves[n] EXCEPT !.stage = "failed", !.old = {}]
  <1>1. saves[n] \in Save /\ saves \in Seq(Save)
    BY Facts DEF ServerOK
  <1>2. new \in Save /\ new.kind = saves[n].kind /\ new.stage = "failed"
    BY <1>1 DEF Save
  <1>3. saves' = [saves EXCEPT ![n] = new] /\ saves[n].stage \in {"sent", "deleted"}
    BY <1>1 DEF FailToStore
  <1> HIDE DEF new
  <1> QED BY <1>1, <1>2, <1>3 DEF GoesOn, Committed

LEMMA Answering ==
  ASSUME ServerOK, NEW n \in 1..Len(saves), SaveAnswered(n) \/ AuthorsSaved(n)
  PROVE  GoesOn(n) /\ saves'[n].stage = "over"
  <1> DEFINE new == [saves[n] EXCEPT !.stage = "over", !.rows = {}]
  <1>1. saves[n] \in Save /\ saves \in Seq(Save)
    BY Facts DEF ServerOK
  <1>2. new \in Save /\ new.kind = saves[n].kind /\ new.stage = "over"
    BY <1>1 DEF Save
  <1>3. saves' = [saves EXCEPT ![n] = new] /\ saves[n].stage \in {"failed", "stored"}
    BY <1>1 DEF SaveAnswered, AuthorsSaved, Over
  <1> HIDE DEF new
  <1> QED BY <1>1, <1>2, <1>3 DEF GoesOn, Committed

\* A stage that neither reads nor writes the tables.
LEMMA StageStep ==
  ASSUME ServerOK, TableOK, NEW n \in 1..Len(saves), GoesOn(n),
         saves'[n].stage # "deleted", UNCHANGED <<stored, overlaps>>
  PROVE  ServerOK' /\ TableOK'
  <1>1. ServerOK'
    BY DEF ServerOK, GoesOn
  <1>2. \A i \in Nat : Committed(i) => Committed(i)'
    BY DEF GoesOn, Committed
  <1>3. SavesOK'
    BY DEF TableOK, SavesOK, GoesOn
  <1>4. RowsOK'
    BY <1>2 DEF TableOK, RowsOK, Committed
  <1>5. OldOK'
    BY <1>2 DEF TableOK, OldOK, GoesOn, Committed
  <1>6. TogetherOK'
    BY DEF TableOK, TogetherOK
  <1> QED BY <1>1, <1>3, <1>4, <1>5, <1>6 DEF TableOK

LEMMA DeleteStep ==
  ASSUME ServerOK, TableOK, NEW n \in 1..Len(saves), DeleteRows(n)
  PROVE  ServerOK' /\ TableOK'
  <1>0. /\ GoesOn(n) /\ saves[n].stage = "sent" /\ saves'[n].stage = "deleted"
        /\ saves'[n].rows = saves[n].rows /\ saves'[n].old = stored[saves[n].kind]
        /\ UNCHANGED <<stored, overlaps>> /\ saves[n].kind \in Kinds
    <2>1. saves[n].kind \in Kinds
      BY Facts DEF Save
    <2> QED BY <2>1, Deleting DEF DeleteRows
  <1>1. ServerOK'
    BY <1>0 DEF ServerOK, GoesOn
  <1>2. \A i \in Nat : Committed(i) => Committed(i)'
    BY <1>0 DEF GoesOn, Committed
  <1>3. SavesOK'
    BY <1>0 DEF TableOK, SavesOK, GoesOn
  <1>4. RowsOK'
    BY <1>0, <1>2 DEF TableOK, RowsOK, Committed
  <1>5. ASSUME NEW i \in 1..Len(saves), saves'[i].stage = "deleted", NEW r \in saves'[i].old
        PROVE  /\ Committed(r.by)'
               /\ \A q \in stored'[saves'[i].kind] : q.by = r.by => q \in saves'[i].old
    <2>1. CASE i = n
      <3>1. r \in stored[saves[n].kind] /\ saves'[n].kind = saves[n].kind
        BY <1>0, <1>5, <2>1 DEF GoesOn
      <3>2. Committed(r.by)
        BY <1>0, <3>1 DEF TableOK, RowsOK
      <3> QED BY <1>0, <1>2, <2>1, <3>1, <3>2 DEF Committed
    <2>2. CASE i # n
      <3>1. saves'[i] = saves[i]
        BY <1>0, <2>2 DEF GoesOn
      <3>2. /\ Committed(r.by)
            /\ \A q \in stored[saves[i].kind] : q.by = r.by => q \in saves[i].old
        BY <1>5, <3>1 DEF TableOK, OldOK
      <3> QED BY <1>0, <1>2, <3>1, <3>2 DEF Committed
    <2> QED BY <2>1, <2>2
  <1>6. OldOK'
    BY <1>0, <1>5 DEF OldOK, GoesOn
  <1>7. TogetherOK'
    BY <1>0 DEF TableOK, TogetherOK
  <1> QED BY <1>1, <1>3, <1>4, <1>6, <1>7 DEF TableOK

\* The rows of a save that ends replace those it saw, and stand beside those
\* of saves that ran at once.
LEMMA InsertStep ==
  ASSUME ServerOK, TableOK, NEW n \in 1..Len(saves), InsertRows(n)
  PROVE  ServerOK' /\ TableOK'
  <1> DEFINE k == saves[n].kind
             mine == saves[n].rows
             theirs == Others(n)
  <1>0. /\ GoesOn(n) /\ saves[n].stage = "deleted" /\ saves'[n].stage = "stored"
        /\ k \in Kinds /\ mine \in SUBSET Row /\ theirs = stored[k] \ saves[n].old
        /\ k = "authors" => theirs = {}
        /\ stored' = [stored EXCEPT ![k] = theirs \union mine]
        /\ overlaps' = overlaps \union {{n, r.by} : r \in theirs}
    <2>1. k \in Kinds /\ mine \in SUBSET Row
      BY Facts DEF Save
    <2> QED BY <2>1, Inserting DEF InsertRows, Others
  <1>1. /\ Whole(mine) /\ \A r \in mine : r.by = n
        /\ Whole(stored[k]) /\ \A r \in stored[k] : Committed(r.by)
        /\ \A r \in saves[n].old, q \in stored[k] : q.by = r.by => q \in saves[n].old
        /\ ~Committed(n)
    BY <1>0 DEF TableOK, SavesOK, RowsOK, OldOK, Committed
  <1>2. \A i \in Nat : Committed(i) => Committed(i)'
    BY <1>0 DEF GoesOn, Committed
  <1>3. /\ stored' \in [Kinds -> SUBSET Row] /\ stored'[k] = theirs \union mine
        /\ \A j \in Kinds \ {k} : stored'[j] = stored[j]
    BY <1>0 DEF ServerOK
  <1>4. \A r \in theirs : r \in stored[k] /\ r.by \in 1..Len(saves) /\ r.by # n
    BY <1>0, <1>1 DEF Committed
  <1> HIDE DEF k, mine, theirs
  <1>5. ServerOK'
    <2>1. ASSUME NEW r \in theirs PROVE {n, r.by} \in SUBSET (1..Len(saves))
      BY <1>4
    <2>2. overlaps' \subseteq SUBSET (1..Len(saves))
      <3> DEFINE sets == SUBSET (1..Len(saves))
                 more == {{n, r.by} : r \in theirs}
      <3>1. more \subseteq sets
        BY <2>1
      <3>2. overlaps \subseteq sets /\ overlaps' = overlaps \union more
        BY <1>0 DEF ServerOK
      <3> HIDE DEF sets, more
      <3>3. overlaps' \subseteq sets
        BY <3>1, <3>2
      <3> QED BY <3>3 DEF sets
    <2> QED BY <1>0, <1>3, <2>2 DEF ServerOK, GoesOn
  <1>6. SavesOK'
    BY <1>0 DEF TableOK, SavesOK, GoesOn
  <1>7. Whole(theirs)
    <2> SUFFICES ASSUME NEW r \in theirs, NEW s \in Slots
                 PROVE  \E q \in theirs :
                           /\ q.slot = s /\ q.by = r.by
                           /\ \A p \in theirs : p.slot = s /\ p.by = r.by => p = q
      BY DEF Whole
    <2>1. PICK q \in stored[k] :
             /\ q.slot = s /\ q.by = r.by
             /\ \A p \in stored[k] : p.slot = s /\ p.by = r.by => p = q
      BY <1>1, <1>4 DEF Whole
    <2>2. q \in theirs
      BY <1>0, <1>1, <1>4, <2>1
    <2> QED BY <1>4, <2>1, <2>2
  <1>8. Whole(theirs \union mine)
    <2>1. ASSUME NEW r \in theirs, NEW s \in Slots
          PROVE  \E q \in theirs \union mine :
                    /\ q.slot = s /\ q.by = r.by
                    /\ \A p \in theirs \union mine : p.slot = s /\ p.by = r.by => p = q
      BY <1>1, <1>4, <1>7 DEF Whole
    <2>2. ASSUME NEW r \in mine, NEW s \in Slots
          PROVE  \E q \in theirs \union mine :
                    /\ q.slot = s /\ q.by = r.by
                    /\ \A p \in theirs \union mine : p.slot = s /\ p.by = r.by => p = q
      BY <1>1, <1>4 DEF Whole
    <2> QED BY <2>1, <2>2 DEF Whole
  <1>9. RowsOK'
    <2>1. ASSUME NEW j \in Kinds, j # k
          PROVE  Whole(stored'[j]) /\ \A r \in stored'[j] : Committed(r.by)'
      BY <1>2, <1>3, <2>1 DEF TableOK, RowsOK, Committed
    <2>2. \A r \in theirs \union mine : Committed(r.by)'
      <3>1. Committed(n)'
        BY <1>0 DEF Committed, GoesOn
      <3>2. \A r \in theirs : Committed(r.by)'
        BY <1>1, <1>2, <1>4
      <3> QED BY <1>1, <3>1, <3>2
    <2>3. Whole(stored'[k]) /\ \A r \in stored'[k] : Committed(r.by)'
      BY <1>3, <1>8, <2>2
    <2> QED BY <2>1, <2>3 DEF RowsOK, Whole
  <1>10. ASSUME NEW i \in 1..Len(saves), saves'[i].stage = "deleted", NEW r \in saves'[i].old
         PROVE  /\ Committed(r.by)'
                /\ \A q \in stored'[saves'[i].kind] : q.by = r.by => q \in saves'[i].old
    <2>1. i # n /\ saves'[i] = saves[i] /\ saves[i].kind \in Kinds
      BY <1>0, <1>10, Facts DEF GoesOn, Save
    <2>2. /\ Committed(r.by) /\ r.by # n
          /\ \A q \in stored[saves[i].kind] : q.by = r.by => q \in saves[i].old
      BY <1>1, <1>10, <2>1 DEF TableOK, OldOK
    <2>3. Committed(r.by)'
      BY <1>2, <2>2 DEF Committed
    <2> QED BY <1>1, <1>3, <1>4, <2>1, <2>2, <2>3
  <1>11. OldOK'
    BY <1>0, <1>10 DEF OldOK, GoesOn
  <1>12. TogetherOK'
    <2>1. ASSUME NEW j \in Kinds, j # k, NEW r \in stored'[j], NEW q \in stored'[j]
          PROVE  r.by = q.by \/ (j = "teasers" /\ {r.by, q.by} \in overlaps')
      BY <1>0, <1>3, <2>1 DEF TableOK, TogetherOK
    <2>2. ASSUME NEW r \in theirs, NEW q \in theirs
          PROVE  r.by = q.by \/ (k = "teasers" /\ {r.by, q.by} \in overlaps')
      BY <1>0, <1>4 DEF TableOK, TogetherOK
    <2>3. ASSUME NEW r \in theirs
          PROVE  k = "teasers" /\ {n, r.by} \in overlaps' /\ {r.by, n} \in overlaps'
      <3>1. {n, r.by} \in overlaps'
        BY <1>0
      <3>2. {n, r.by} = {r.by, n}
        OBVIOUS
      <3>3. k = "teasers"
        BY <1>0 DEF Kinds
      <3> QED BY <3>1, <3>2, <3>3
    <2>4. ASSUME NEW r \in stored'[k], NEW q \in stored'[k]
          PROVE  r.by = q.by \/ (k = "teasers" /\ {r.by, q.by} \in overlaps')
      BY <1>1, <1>3, <2>2, <2>3
    <2> QED BY <2>1, <2>4 DEF TogetherOK
  <1> QED BY <1>5, <1>6, <1>9, <1>11, <1>12 DEF TableOK

\* The handlers, and the answers the panel gets.
LEMMA SaveSteps ==
  ASSUME IInv, NEW n \in 1..Len(saves),
         DeleteRows(n) \/ InsertRows(n) \/ FailToStore(n) \/ SaveAnswered(n) \/ AuthorsSaved(n)
  PROVE  IInv'
  <1>0. ServerOK /\ SetupOK /\ LocalOK /\ TableOK /\ Len(saves) \in Nat
    BY Parts, Facts DEF IInv
  <1>1. ServerOK' /\ TableOK' /\ GoesOn(n)
    <2>1. CASE DeleteRows(n)
      BY <1>0, <2>1, DeleteStep, Deleting
    <2>2. CASE InsertRows(n)
      BY <1>0, <2>2, InsertStep, Inserting
    <2>3. CASE FailToStore(n)
      BY <1>0, <2>3, Failing, StageStep DEF FailToStore
    <2>4. CASE SaveAnswered(n) \/ AuthorsSaved(n)
      BY <1>0, <2>4, Answering, StageStep DEF SaveAnswered, AuthorsSaved
    <2> QED BY <2>1, <2>2, <2>3, <2>4
  <1>2. CASE DeleteRows(n) \/ InsertRows(n) \/ FailToStore(n)
    <2>1. UNCHANGED <<setup, local, edits>> /\ saves'[n].stage # "over"
      BY <1>0, <1>2, Deleting, Inserting, Failing DEF DeleteRows, InsertRows, FailToStore, Elsewhere
    <2>2. SetupOK'
      BY <1>0, <1>1, <2>1 DEF SetupOK, GoesOn
    <2>3. LocalOK' /\ QuietLoad' /\ TypedTextStays'
      BY <1>0, <2>1 DEF IInv, local, LocalOK, QuietLoad, TypedTextStays
    <2> QED BY <1>1, <2>2, <2>3, NextParts DEF IInv
  <1>3. CASE SaveAnswered(n)
    <2>1. UNCHANGED <<local, edits>> /\ StopSaving(n)
      BY <1>3 DEF SaveAnswered
    <2>2. /\ setup' \in [kind: Kinds \union {"none"}, saving: 0..Len(saves)]
          /\ setup'.kind = setup.kind
          /\ setup'.saving # 0 => setup'.saving = setup.saving /\ setup.saving # n
      BY <1>0, <2>1 DEF StopSaving, SetupOK
    <2>3. SetupOK'
      BY <1>0, <1>1, <2>2 DEF SetupOK, GoesOn
    <2>4. LocalOK' /\ QuietLoad' /\ TypedTextStays'
      BY <1>0, <2>1, <2>2 DEF IInv, local, LocalOK, QuietLoad, TypedTextStays
    <2> QED BY <1>1, <2>3, <2>4, NextParts DEF IInv
  <1>4. CASE AuthorsSaved(n)
    <2>1. /\ Fresh /\ UNCHANGED edits /\ load' = NoLoad
          /\ setup' \in [kind: {"none"}, saving: {0}]
      BY <1>4 DEF AuthorsSaved, Close
    <2>2. SetupOK'
      BY <1>0, <1>1, <2>1 DEF SetupOK, GoesOn
    <2>3. LocalOK' /\ QuietLoad' /\ TypedTextStays'
      BY <1>0, <2>1, Blanks, FreshPanel
    <2> QED BY <1>1, <2>2, <2>3, NextParts DEF IInv
  <1> QED BY <1>2, <1>3, <1>4

\* A click on the button sends what the slots hold now.
LEMMA SendStep ==
  ASSUME IInv, SaveSlots
  PROVE  IInv'
  <1> DEFINE n == Len(saves) + 1
             rows == {[slot |-> s, content |-> slots[s], by |-> n] : s \in Slots}
             new == [kind |-> setup.kind, rows |-> rows, old |-> {}, stage |-> "sent"]
  <1>0. /\ ServerOK /\ SetupOK /\ LocalOK /\ TableOK /\ Len(saves) \in Nat
        /\ saves' = Append(saves, new) /\ setup' = [setup EXCEPT !.saving = n]
        /\ UNCHANGED <<stored, overlaps, local, edits>>
        /\ n \in 1..MaxSaves /\ setup.kind \in Kinds
    <2>1. ServerOK /\ SetupOK /\ LocalOK /\ TableOK /\ Len(saves) \in Nat
      BY Parts, Facts DEF IInv
    <2>2. setup.kind \in Kinds
      BY <2>1 DEF SaveSlots, Editable, SetupOK
    <2> QED BY <2>1, <2>2, BoundsAssumption DEF SaveSlots
  <1>1. rows \in SUBSET Row
    BY <1>0 DEF Row, LocalOK
  <1>2. Whole(rows) /\ \A r \in rows : r.by = n
    <2>1. \A r \in rows : r.by = n /\ r.slot \in Slots
      OBVIOUS
    <2>2. ASSUME NEW r \in rows, NEW s \in Slots
          PROVE  \E q \in rows :
                    /\ q.slot = s /\ q.by = r.by
                    /\ \A p \in rows : p.slot = s /\ p.by = r.by => p = q
      <3> DEFINE q == [slot |-> s, content |-> slots[s], by |-> n]
      <3>1. q \in rows /\ q.slot = s /\ q.by = r.by
        BY <2>1
      <3>2. ASSUME NEW p \in rows, p.slot = s PROVE p = q
        <4>1. PICK u \in Slots : p = [slot |-> u, content |-> slots[u], by |-> n]
          OBVIOUS
        <4> QED BY <3>2, <4>1
      <3> HIDE DEF q, rows
      <3> QED BY <3>1, <3>2
    <2> HIDE DEF rows
    <2> QED BY <2>1, <2>2 DEF Whole
  <1>3. new \in Save /\ new.stage = "sent" /\ new.rows = rows
    BY <1>0, <1>1 DEF Save
  <1> HIDE DEF new, rows
  <1>4. /\ saves' \in Seq(Save) /\ Len(saves') = n /\ saves'[n] = new
        /\ \A i \in 1..Len(saves) : saves'[i] = saves[i]
    BY <1>0, <1>3 DEF ServerOK
  <1>5. ServerOK'
    <2>1. 1..Len(saves) \subseteq 1..Len(saves')
      BY <1>0, <1>4
    <2> QED BY <1>0, <1>4, <2>1 DEF ServerOK
  <1>6. SetupOK'
    BY <1>0, <1>3, <1>4 DEF SetupOK
  <1>7. LocalOK' /\ QuietLoad' /\ TypedTextStays'
    BY <1>0 DEF IInv, local, LocalOK, QuietLoad, TypedTextStays, SetupOK
  <1>8. \A i \in Nat : Committed(i) => Committed(i)'
    BY <1>0, <1>4 DEF Committed
  <1>9. SavesOK'
    BY <1>0, <1>2, <1>3, <1>4 DEF TableOK, SavesOK
  <1>10. RowsOK'
    BY <1>0, <1>8 DEF TableOK, RowsOK, Committed
  <1>11. OldOK'
    BY <1>0, <1>3, <1>4, <1>8 DEF TableOK, OldOK, Committed
  <1>12. TogetherOK'
    BY <1>0 DEF TableOK, TogetherOK
  <1> QED BY <1>5, <1>6, <1>7, <1>9, <1>10, <1>11, <1>12, NextParts DEF IInv, TableOK

LEMMA NextIInv == IInv /\ [Next]_vars => IInv'
  <1> SUFFICES ASSUME IInv, [Next]_vars PROVE IInv'
    OBVIOUS
  <1>1. CASE UNCHANGED vars
    <2>1. LocalOK
      BY Parts DEF IInv
    <2>2. UNCHANGED <<server, setup, load>> /\ LocalOK'
      BY <1>1, <2>1 DEF vars, local, LocalOK
    <2>3. TypedTextStays' /\ \A s \in Slots : typed'[s] = typed[s]
      BY <1>1 DEF vars, local, IInv, TypedTextStays
    <2> QED BY <2>2, <2>3, EditFrame
  <1>2. CASE Edit
    BY <1>2, WriteSteps, ReadStep, NewsSteps, FillStep DEF Edit
  <1>3. CASE ReadStored \/ ShowLoaded \/ LoadFails
    BY <1>3, LoadSteps
  <1>4. CASE (\E k \in Kinds : OpenSetup(k)) \/ CloseSetup
    BY <1>4, SetupSteps
  <1>5. CASE SaveSlots
    BY <1>5, SendStep
  <1>6. ASSUME NEW n \in 1..Len(saves),
               DeleteRows(n) \/ InsertRows(n) \/ FailToStore(n) \/ SaveAnswered(n)
                 \/ AuthorsSaved(n)
        PROVE  IInv'
    BY <1>6, SaveSteps
  <1> QED BY <1>1, <1>2, <1>3, <1>4, <1>5, <1>6 DEF Next

\* The inductive invariant: whole rows, and what a save under way has deleted.
THEOREM Invariance == Spec => []IInv
  BY InitIInv, NextIInv, PTL DEF Spec

\* The types; in particular the panel's button waits for a save whose answer
\* is still to come, so that it is enabled again.
THEOREM TypeCorrect == Spec => []TypeOK
  <1>1. IInv => TypeOK
    BY DEF IInv
  <1> QED BY <1>1, Invariance, PTL

\* Typed text stays in its slot, for any number of slots, files and articles
\* on their way.
THEOREM TextStays == Spec => []TypedTextStays
  <1>1. IInv => TypedTextStays
    BY DEF IInv
  <1> QED BY <1>1, Invariance, PTL

\* The stored rows are those of one save, whole, or of teasers saved at once,
\* for any number of saves.
THEOREM RowsHold == Spec => []StoredRowsAreOneSave
  <1>1. ASSUME IInv PROVE StoredRowsAreOneSave
    <2>1. ASSUME NEW k \in Kinds, NEW r \in stored[k], NEW s \in Slots
          PROVE  Cardinality({q \in stored[k] : q.slot = s /\ q.by = r.by}) = 1
      <3>1. PICK q \in stored[k] :
               /\ q.slot = s /\ q.by = r.by
               /\ \A p \in stored[k] : p.slot = s /\ p.by = r.by => p = q
        BY <1>1 DEF IInv, TableOK, RowsOK, Whole
      <3>2. {p \in stored[k] : p.slot = s /\ p.by = r.by} = {q}
        BY <3>1
      <3> QED BY <3>2, FS_Singleton
    <2>2. \A k \in Kinds : \A r, q \in stored[k] :
             r.by = q.by \/ (k = "teasers" /\ {r.by, q.by} \in overlaps)
      BY <1>1 DEF IInv, TableOK, TogetherOK
    <2> QED BY <2>1, <2>2 DEF StoredRowsAreOneSave
  <1>2. IInv => StoredRowsAreOneSave
    BY <1>1
  <1> QED BY <1>2, Invariance, PTL
=============================================================================
