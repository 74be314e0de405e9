-------------------------- MODULE Overlays_proofs --------------------------
(***************************************************************************)
(* What holds of Overlays for a page of any height, any number of visits   *)
(* and any number of saves under way.                                      *)
(***************************************************************************)
EXTENDS Overlays, TLAPS

-----------------------------------------------------------------------------
\* Types.

Tour == [step: {"none", "card", "chip"}, cards: BOOLEAN, overflow: {"", "hidden"},
         shown: BOOLEAN, first: BOOLEAN]

LEMMA Zero == 0 \in Places /\ 0 \in 0..MaxVisits /\ 0 \in 0..MaxSaves
  BY BoundsAssumption DEF Places

LEMMA Constant == Locked \in Body /\ Free \in Body /\ NoTour \in Tour
  BY Zero DEF Locked, Free, Body, NoTour, Tour

\* What TypeOK says, part by part.
LayersOK ==
    /\ body \in Body
    /\ open \subseteq Sheets
    /\ found \in Body
    /\ tour \in Tour
    /\ over \in {"none", "sheets", "tour"}
    /\ over # "none" <=> open # {} /\ tour.step # "none"
    /\ left \in Places
    /\ crossed \in BOOLEAN
    /\ tangled \in BOOLEAN

PageOK ==
    /\ saves \in 0..MaxSaves
    /\ visit \in [count: 0..MaxVisits, here: BOOLEAN]
    /\ timers \subseteq {"auto", "delayed"}
    /\ stored \in [seen: BOOLEAN, enabled: BOOLEAN]
    /\ batch \in BOOLEAN

AwayOK ==
    ~visit.here => /\ open = {} /\ tour.step = "none" /\ saves = 0
                   /\ "auto" \notin timers

LEMMA Parts == TypeOK <=> LayersOK /\ PageOK /\ AwayOK
  BY DEF TypeOK, LayersOK, PageOK, AwayOK, Tour

LEMMA NextParts == LayersOK' /\ PageOK' /\ AwayOK' => TypeOK'
  BY DEF TypeOK, LayersOK, PageOK, AwayOK, Tour

-----------------------------------------------------------------------------
\* The inductive invariant.

\* The body is locked while a sheet is open; once tangled, every sheet finds
\* it pinned and leaves it so, and before that none does.  Only a tour that
\* runs is shown.
PinKept ==
    /\ open = {} => (body.fixed <=> tangled)
    /\ open # {} => body.fixed /\ (found.fixed <=> tangled)
    /\ tour.shown => TourRuns

\* Where the page is, and where the first of the open sheets remembers it was.
PlaceKept ==
    ~tangled => /\ open = {} /\ visit.here => body.y = left
                /\ open # {} => found.y = left

\* As long as the layers are taken away in order, the lower one found the
\* page free, and so does the user when both are gone.
LockKept ==
    ~crossed /\ ~tangled =>
       /\ open = {} /\ ~TourRuns => body.overflow = ""
       /\ open # {} /\ over # "sheets" => found.overflow = ""
       /\ TourRuns /\ over # "tour" => tour.overflow = ""

IInv == TypeOK /\ PinKept /\ PlaceKept /\ LockKept

LEMMA InitIInv == Init => IInv
  <1> SUFFICES ASSUME Init PROVE IInv
    OBVIOUS
  <1>1. LayersOK
    BY Zero, Constant DEF Init, LayersOK, NoTour
  <1>2. PageOK
    BY Zero DEF Init, PageOK
  <1>3. AwayOK
    BY DEF Init, AwayOK, NoTour
  <1>4. PinKept /\ PlaceKept /\ LockKept
    BY DEF Init, PinKept, PlaceKept, LockKept, NoTour, Free, TourRuns
  <1> QED BY <1>1, <1>2, <1>3, <1>4, Parts DEF IInv

\* The body after the cleanups is the one the first sheet found, unless that
\* is the moment when a sheet is cleaned up before one locked later.
LEMMA CleanedFacts ==
  ASSUME IInv, NEW k, NEW c, c = Cleaned(k),
         tangled' = (tangled \/ (open # {} /\ Nested(k)))
  PROVE  /\ c \in Body
         /\ tangled' \in BOOLEAN
         /\ open = {} => c = body /\ (tangled' <=> tangled)
         /\ open # {} => (c.fixed <=> tangled')
         /\ open # {} /\ ~tangled' => c = found
         /\ tangled => tangled'
  <1>0. LayersOK /\ PinKept
    BY Parts DEF IInv
  <1>1. tangled \in BOOLEAN /\ body \in Body /\ found \in Body
    BY <1>0 DEF LayersOK
  <1>2. CASE open = {}
    BY <1>1, <1>2 DEF Cleaned
  <1>3. CASE open # {} /\ Nested(k)
    <2>1. c = Locked /\ tangled'
      BY <1>3 DEF Cleaned
    <2> QED BY <1>1, <1>3, <2>1, Constant DEF Locked
  <1>4. CASE open # {} /\ ~Nested(k)
    <2>1. c = found /\ (tangled' <=> tangled)
      BY <1>4 DEF Cleaned
    <2> QED BY <1>0, <1>1, <1>4, <2>1 DEF PinKept
  <1> QED BY <1>2, <1>3, <1>4

-----------------------------------------------------------------------------
\* The sheets.

\* A render of the dashboard, whatever else it changes.
LEMMA RenderSteps ==
  ASSUME IInv, NEW s \in SUBSET Sheets, Render(s), PageOK', UNCHANGED <<visit, timers>>
  PROVE  IInv'
  <1>0. LayersOK /\ AwayOK /\ PinKept /\ PlaceKept /\ LockKept
    BY Parts DEF IInv
  <1>1. PICK c : c = Cleaned(CleanedLast(s))
    OBVIOUS
  <1>2. /\ open' = s /\ found' = IF s = {} THEN Free ELSE c
        /\ tangled' = (tangled \/ (open # {} /\ Nested(CleanedLast(s))))
        /\ body' = IF s = {} THEN c ELSE Locked
        /\ tour' = [tour EXCEPT !.first = TourRuns]
        /\ over' = IF s = {} \/ ~TourRuns THEN "none"
                   ELSE IF open = {} THEN "sheets" ELSE over
        /\ crossed' = (crossed \/ (over = "tour" /\ s = {}))
        /\ left' = left
        /\ visit.here
    BY <1>1 DEF Render, Relock
  <1>3. /\ c \in Body /\ tangled' \in BOOLEAN
        /\ open = {} => c = body /\ (tangled' <=> tangled)
        /\ open # {} => (c.fixed <=> tangled')
        /\ open # {} /\ ~tangled' => c = found
        /\ tangled => tangled'
    BY <1>1, <1>2, CleanedFacts
  <1>4. /\ tour' \in Tour /\ tour'.step = tour.step
        /\ tour'.overflow = tour.overflow /\ tour'.shown = tour.shown
    BY <1>0, <1>2 DEF LayersOK, Tour, TourRuns
  <1>5. TourRuns' <=> TourRuns
    BY <1>4 DEF TourRuns
  <1>6. LayersOK'
    <2>1. crossed' \in BOOLEAN
      BY <1>0, <1>2 DEF LayersOK
    <2>2. /\ over' \in {"none", "sheets", "tour"}
          /\ over' # "none" <=> s # {} /\ TourRuns
      BY <1>0, <1>2 DEF LayersOK, TourRuns
    <2>3. body' \in Body /\ found' \in Body
      BY <1>2, <1>3, Constant
    <2> QED BY <1>0, <1>2, <1>3, <1>4, <2>1, <2>2, <2>3 DEF LayersOK, TourRuns
  <1>7. AwayOK'
    BY <1>2 DEF AwayOK
  <1>8. PinKept'
    <2>1. c.fixed <=> tangled'
      BY <1>0, <1>3 DEF PinKept
    <2>2. tour'.shown => TourRuns'
      BY <1>0, <1>4, <1>5 DEF PinKept
    <2> QED BY <1>2, <2>1, <2>2 DEF PinKept, Locked
  <1>9. PlaceKept'
    <2>1. ~tangled' => c.y = left
      BY <1>0, <1>2, <1>3 DEF PlaceKept
    <2> QED BY <1>2, <2>1 DEF PlaceKept
  <1>10. LockKept'
    <2> SUFFICES ASSUME ~crossed', ~tangled'
                 PROVE  /\ s = {} /\ ~TourRuns => body'.overflow = ""
                        /\ s # {} /\ over' # "sheets" => found'.overflow = ""
                        /\ TourRuns /\ over' # "tour" => tour'.overflow = ""
      BY <1>2, <1>5 DEF LockKept
    <2>1. ~crossed /\ ~tangled /\ ~(over = "tour" /\ s = {})
      BY <1>2, <1>3
    <2>2. CASE open = {}
      BY <1>0, <1>2, <1>3, <1>4, <2>1, <2>2 DEF LockKept, LayersOK, TourRuns
    <2>3. CASE open # {}
      BY <1>0, <1>2, <1>3, <1>4, <2>1, <2>3 DEF LockKept, LayersOK, TourRuns
    <2> QED BY <2>2, <2>3
  <1> QED BY <1>6, <1>7, <1>8, <1>9, <1>10, NextParts DEF IInv

\* A step that leaves the layers alone.
LEMMA LayersStay ==
  ASSUME IInv, UNCHANGED <<layers, left>>, PageOK', AwayOK', visit'.here => visit.here
  PROVE  IInv'
  <1>1. /\ body' = body /\ open' = open /\ found' = found /\ tour' = tour
        /\ over' = over /\ crossed' = crossed /\ tangled' = tangled /\ left' = left
    BY DEF layers
  <1>2. LayersOK /\ PinKept /\ PlaceKept /\ LockKept
    BY Parts DEF IInv
  <1>3. LayersOK'
    BY <1>1, <1>2 DEF LayersOK
  <1>4. PinKept' /\ LockKept'
    BY <1>1, <1>2 DEF PinKept, LockKept, TourRuns
  <1>5. PlaceKept'
    BY <1>1, <1>2 DEF PlaceKept
  <1> QED BY <1>3, <1>4, <1>5, NextParts DEF IInv

LEMMA AfterCloseType == \A k : open \subseteq Sheets => AfterClose(k) \subseteq Sheets
  BY DEF AfterClose, Sheets, Tree

\* The actions of the sheets are renders, but for the saves.
LEMMA SheetSteps ==
  ASSUME IInv,
         \/ \E k \in Sheets : OpenSheet(k) \/ CloseSheet(k)
         \/ \E from, to \in Sheets : ChoosePage(from, to)
         \/ RenderAgain \/ SaveAuthors \/ AuthorsSaved \/ AuthorsFailed
         \/ BatchChanges \/ EscapeSheet
  PROVE  IInv'
  <1>0. LayersOK /\ PageOK /\ AwayOK
    BY Parts DEF IInv
  <1>1. open \subseteq Sheets /\ \A k : AfterClose(k) \subseteq Sheets
    BY <1>0, AfterCloseType DEF LayersOK
  <1>2. ASSUME NEW s \in SUBSET Sheets, Render(s), UNCHANGED <<saves, page>>
        PROVE  IInv'
    <2>1. PageOK'
      BY <1>0, <1>2 DEF PageOK, page
    <2> QED BY <1>2, <2>1, RenderSteps DEF page
  <1>3. ASSUME NEW k \in Sheets, OpenSheet(k) \/ CloseSheet(k)
        PROVE  IInv'
    BY <1>1, <1>2, <1>3 DEF OpenSheet, CloseSheet
  <1>4. ASSUME NEW from \in Sheets, NEW to \in Sheets, ChoosePage(from, to)
        PROVE  IInv'
    BY <1>1, <1>2, <1>4 DEF ChoosePage
  <1>5. CASE RenderAgain \/ EscapeSheet
    BY <1>1, <1>2, <1>5 DEF RenderAgain, EscapeSheet
  <1>7. CASE SaveAuthors
    <2>1. open # {} /\ saves' \in 0..MaxSaves /\ UNCHANGED page
      BY <1>0, <1>7, BoundsAssumption DEF SaveAuthors, PageOK
    <2>2. visit.here
      BY <1>0, <2>1 DEF AwayOK
    <2>3. PageOK' /\ AwayOK'
      BY <1>0, <2>1, <2>2 DEF PageOK, AwayOK, page
    <2> QED BY <1>7, <2>1, <2>2, <2>3, LayersStay DEF SaveAuthors, page
  <1>8. CASE AuthorsSaved \/ AuthorsFailed
    <2>1. saves' \in 0..MaxSaves /\ UNCHANGED page /\ saves # 0
      BY <1>0, <1>8, BoundsAssumption DEF AuthorsSaved, AuthorsFailed, PageOK
    <2>2. visit.here
      BY <1>0, <2>1 DEF AwayOK
    <2>3. PageOK' /\ AwayOK'
      BY <1>0, <2>1, <2>2 DEF PageOK, AwayOK, page
    <2>4. CASE UNCHANGED <<layers, left>>
      BY <2>1, <2>2, <2>3, <2>4, LayersStay DEF page
    <2>5. CASE Render(AfterClose("setup"))
      BY <1>1, <2>1, <2>3, <2>5, RenderSteps DEF page
    <2> QED BY <1>8, <2>4, <2>5 DEF AuthorsSaved, AuthorsFailed
  <1>9. CASE BatchChanges
    <2>1. PageOK'
      BY <1>0, <1>9 DEF BatchChanges, PageOK
    <2> QED BY <1>1, <1>9, <2>1, RenderSteps DEF BatchChanges
  <1> QED BY <1>3, <1>4, <1>5, <1>7, <1>8, <1>9

-----------------------------------------------------------------------------
\* The tour.

\* A tour that runs goes to another step, or is measured again.
LEMMA Moves ==
  ASSUME IInv, visit.here, TourRuns,
         NEW step \in {"card", "chip"}, NEW cards \in BOOLEAN, NEW shown \in BOOLEAN,
         NEW y \in Places,
         tour' = [tour EXCEPT !.step = step, !.cards = cards, !.shown = shown],
         \/ UNCHANGED <<body, left>>
         \/ ~body.fixed /\ body' = [body EXCEPT !.y = y] /\ left' = y,
         UNCHANGED <<open, found, over, crossed, tangled, saves, visit, stored, batch>>,
         timers' \subseteq timers
  PROVE  IInv'
  <1>0. LayersOK /\ PageOK /\ PinKept /\ PlaceKept /\ LockKept
    BY Parts DEF IInv
  <1>1. /\ body' \in Body /\ body'.fixed = body.fixed
        /\ body'.overflow = body.overflow /\ left' \in Places
        /\ \/ body'.y = body.y /\ left' = left
           \/ ~body.fixed /\ body'.y = left'
    BY <1>0 DEF LayersOK, Body
  <1>2. tour' \in Tour /\ tour'.step # "none" /\ tour'.overflow = tour.overflow
    BY <1>0 DEF LayersOK, Tour
  <1>3. LayersOK'
    BY <1>0, <1>1, <1>2 DEF LayersOK, TourRuns
  <1>4. PageOK' /\ AwayOK'
    BY <1>0 DEF PageOK, AwayOK
  <1>5. PinKept'
    BY <1>0, <1>1, <1>2 DEF PinKept, TourRuns
  <1>6. PlaceKept'
    BY <1>0, <1>1 DEF PinKept, PlaceKept
  <1>7. LockKept'
    BY <1>0, <1>1, <1>2 DEF LockKept, TourRuns
  <1> QED BY <1>3, <1>4, <1>5, <1>6, <1>7, NextParts DEF IInv

\* The layout effect is such a move.
LEMMA ShowMoves ==
  ASSUME IInv, visit.here, TourRuns,
         NEW step \in {"card", "chip"}, NEW cards \in BOOLEAN,
         ShowStep(step, cards),
         UNCHANGED <<open, found, over, crossed, tangled, saves, visit, stored, batch>>,
         timers' \subseteq timers
  PROVE  IInv'
  <1>0. LayersOK /\ PageOK
    BY Parts DEF IInv
  <1>1. There(step) \in BOOLEAN
    BY DEF There
  <1>2. PICK shown \in BOOLEAN : shown = There(step)
    BY <1>1
  <1>3. tour' = [tour EXCEPT !.step = step, !.cards = cards, !.shown = shown]
    BY <1>2 DEF ShowStep
  <1>4. CASE UNCHANGED <<body, left>>
    BY <1>3, <1>4, Moves, Zero
  <1>5. ASSUME NEW y \in Places, ~body.fixed,
               body' = [body EXCEPT !.y = y], left' = y
        PROVE  IInv'
    BY <1>3, <1>5, Moves
  <1> QED BY <1>4, <1>5 DEF ShowStep

\* begin
LEMMA BeginSteps ==
  ASSUME IInv, visit.here, Begin, UNCHANGED <<saves, visit, stored, batch>>,
         timers' \subseteq timers
  PROVE  IInv'
  <1>0. LayersOK /\ PageOK /\ PinKept /\ PlaceKept /\ LockKept
    BY Parts DEF IInv
  <1>1. batch \in BOOLEAN /\ FirstStep \in {"card", "chip"}
    BY <1>0 DEF PageOK, FirstStep
  <1>2. UNCHANGED <<open, found, crossed, tangled>>
    BY DEF Begin
  <1>3. ASSUME ~TourRuns
        PROVE  IInv'
    <2>0. FirstStep # "none"
      BY <1>1
    <2>1. PICK y \in IF body.fixed THEN {body.y} ELSE Places :
             /\ body' = [body EXCEPT !.overflow = "hidden", !.y = y]
             /\ left' = IF body.fixed THEN left ELSE y
      BY <1>3, <2>0 DEF Begin, TourRuns
    <2>2. /\ tour' = [step |-> FirstStep, cards |-> ~batch, overflow |-> body.overflow,
                      shown |-> TRUE, first |-> FALSE]
          /\ over' = IF open # {} THEN "tour" ELSE "none"
      BY <1>3, <2>0 DEF Begin, TourRuns
    <2>3. y \in Places
      BY <1>0, <2>1 DEF LayersOK, Body
    <2>4. /\ body' \in Body /\ body'.fixed = body.fixed /\ body'.y = y
          /\ left' \in Places
      BY <1>0, <2>1, <2>3 DEF LayersOK, Body
    <2>5. tour' \in Tour /\ tour'.step # "none" /\ tour'.overflow = body.overflow
      BY <1>0, <1>1, <2>0, <2>2 DEF LayersOK, Body, Tour
    <2>6. LayersOK'
      BY <1>0, <1>2, <2>2, <2>4, <2>5 DEF LayersOK
    <2>7. PageOK' /\ AwayOK'
      BY <1>0 DEF PageOK, AwayOK
    <2>8. PinKept'
      BY <1>0, <1>2, <2>4, <2>5 DEF PinKept, TourRuns
    <2>9. PlaceKept'
      BY <1>0, <1>2, <2>1, <2>4 DEF PinKept, PlaceKept
    <2>10. LockKept'
      BY <1>0, <1>2, <1>3, <2>2, <2>5 DEF LockKept, LayersOK, TourRuns
    <2> QED BY <2>6, <2>7, <2>8, <2>9, <2>10, NextParts DEF IInv
  <1>4. ASSUME TourRuns, ShowStep(FirstStep, ~batch), over' = over
        PROVE  IInv'
    BY <1>1, <1>2, <1>4, ShowMoves
  <1>5. ASSUME tour.step = FirstStep, tour' = [tour EXCEPT !.cards = ~batch],
               UNCHANGED <<body, over, left>>
        PROVE  IInv'
    <2>1. TourRuns /\ tour \in Tour
      BY <1>0, <1>1, <1>5 DEF TourRuns, LayersOK
    <2>2. tour' = [tour EXCEPT !.step = tour.step, !.cards = ~batch,
                               !.shown = tour.shown]
      BY <1>5, <2>1 DEF Tour
    <2>3. tour.step \in {"card", "chip"} /\ tour.shown \in BOOLEAN /\ (~batch) \in BOOLEAN
      BY <1>1, <1>5, <2>1 DEF Tour
    <2> QED BY <1>2, <1>5, <2>1, <2>2, <2>3, Moves, Zero
  <1> QED BY <1>3, <1>4, <1>5 DEF Begin

\* The end of the tour without a sheet that hears the same key.
LEMMA FinishSteps ==
  ASSUME IInv, TourRuns, NEW turnOff \in BOOLEAN, TourEnds(turnOff),
         body' = TourCleaned(body), UNCHANGED <<open, found, tangled>>,
         crossed' = (crossed \/ over = "sheets")
  PROVE  IInv'
  <1>0. LayersOK /\ PageOK /\ AwayOK /\ PinKept /\ PlaceKept /\ LockKept
    BY Parts DEF IInv
  <1>1. /\ tour' = NoTour /\ over' = "none" /\ left' = left
        /\ UNCHANGED <<saves, visit, timers, batch>>
        /\ stored' = [seen |-> TRUE, enabled |-> stored.enabled /\ ~turnOff]
    BY DEF TourEnds
  <1>2. /\ body' \in Body /\ body'.fixed = body.fixed /\ body'.y = body.y
        /\ body'.overflow = tour.overflow
    BY <1>0 DEF TourCleaned, LayersOK, Body, Tour
  <1>3. ~TourRuns' /\ ~tour'.shown
    BY <1>1 DEF TourRuns, NoTour
  <1>4. LayersOK'
    <2>1. crossed' \in BOOLEAN
      BY <1>0 DEF LayersOK
    <2> QED BY <1>0, <1>1, <1>2, <1>3, <2>1, Constant DEF LayersOK, TourRuns
  <1>5. PageOK'
    BY <1>0, <1>1 DEF PageOK
  <1>6. AwayOK'
    BY <1>0, <1>1, <1>3 DEF AwayOK, TourRuns
  <1>7. PinKept' /\ PlaceKept'
    BY <1>0, <1>1, <1>2, <1>3 DEF PinKept, PlaceKept
  <1>8. LockKept'
    <2> SUFFICES ASSUME ~crossed', ~tangled'
                 PROVE  /\ open = {} => body'.overflow = ""
                        /\ open # {} => found.overflow = ""
      BY <1>3 DEF LockKept
    <2>1. ~crossed /\ over # "sheets" /\ ~tangled
      OBVIOUS
    <2> QED BY <1>0, <1>2, <2>1 DEF LockKept, LayersOK, TourRuns
  <1> QED BY <1>4, <1>5, <1>6, <1>7, <1>8, NextParts DEF IInv

\* Escape with sheet and tour listening: whichever hears it first.
LEMMA EscapeBothStep ==
  ASSUME IInv, EscapeBoth
  PROVE  IInv'
  <1>0. LayersOK /\ PageOK /\ AwayOK /\ PinKept /\ PlaceKept /\ LockKept
    BY Parts DEF IInv
  <1>1. PICK s : s = AfterClose(FirstOf(open))
    OBVIOUS
  <1>2. PICK c : c = Cleaned(CleanedLast(s))
    OBVIOUS
  <1>3. /\ open # {} /\ TourRuns
        /\ open' = s /\ found' = IF s = {} THEN Free ELSE c
        /\ tangled' = (tangled \/ (open # {} /\ Nested(CleanedLast(s))))
        /\ tour' = NoTour /\ over' = "none" /\ left' = left
        /\ UNCHANGED <<saves, visit, timers, batch>>
        /\ stored' = [seen |-> TRUE, enabled |-> stored.enabled /\ ~FALSE]
        /\ crossed' = (crossed \/ over = "sheets" \/ (~tour.first /\ s = {}))
    BY <1>1, <1>2 DEF EscapeBoth, TourEnds, Relock
  <1> DEFINE b == IF s = {} THEN c ELSE Locked
  <1>4. body' = IF tour.first THEN b ELSE TourCleaned(b)
    BY <1>1, <1>2 DEF EscapeBoth
  <1>5. /\ c \in Body /\ tangled' \in BOOLEAN
        /\ c.fixed <=> tangled'
        /\ ~tangled' => c = found
        /\ tangled => tangled'
    BY <1>2, <1>3, CleanedFacts
  <1>6. s \subseteq Sheets
    BY <1>0, <1>1, AfterCloseType DEF LayersOK
  <1>7. b \in Body /\ (s = {} => b = c) /\ (s # {} => b.fixed)
    BY <1>5, Constant DEF Locked
  <1> HIDE DEF b
  <1>8. /\ body' \in Body /\ body'.fixed = b.fixed /\ body'.y = b.y
        /\ tour.first => body' = b
    BY <1>0, <1>4, <1>7 DEF TourCleaned, LayersOK, Body, Tour
  <1>9. ~TourRuns' /\ ~tour'.shown
    BY <1>3 DEF TourRuns, NoTour
  <1>10. LayersOK'
    <2>1. crossed' \in BOOLEAN
      BY <1>0, <1>3 DEF LayersOK
    <2>2. found' \in Body
      BY <1>3, <1>5, Constant
    <2> QED BY <1>0, <1>3, <1>5, <1>6, <1>8, <1>9, <2>1, <2>2, Constant
            DEF LayersOK, TourRuns
  <1>11. PageOK' /\ AwayOK'
    <2>1. PageOK'
      BY <1>0, <1>3 DEF PageOK
    <2>2. visit'.here
      BY <1>0, <1>3 DEF AwayOK
    <2> QED BY <2>1, <2>2 DEF AwayOK
  <1>12. PinKept'
    BY <1>3, <1>5, <1>7, <1>8, <1>9 DEF PinKept
  <1>13. PlaceKept'
    <2>1. ~tangled' => c.y = left
      BY <1>0, <1>3, <1>5 DEF PlaceKept
    <2> QED BY <1>3, <1>7, <1>8, <2>1 DEF PlaceKept
  <1>14. LockKept'
    <2> SUFFICES ASSUME ~crossed', ~tangled'
                 PROVE  /\ s = {} => body'.overflow = ""
                        /\ s # {} => found'.overflow = ""
      BY <1>3, <1>9 DEF LockKept
    <2>1. ~crossed /\ over # "sheets" /\ (s = {} => tour.first)
      BY <1>3
    <2>2. c.overflow = ""
      BY <1>0, <1>3, <1>5, <2>1 DEF LockKept
    <2> QED BY <1>3, <1>7, <1>8, <2>1, <2>2
  <1> QED BY <1>10, <1>11, <1>12, <1>13, <1>14, NextParts DEF IInv

\* The other actions of the tour reduce to these.
LEMMA TourSteps ==
  ASSUME IInv,
         \/ HelpButton
         \/ \E k \in timers : TimerFires(k)
         \/ \E step \in {"card", "chip"} : GoTo(step)
         \/ Resize
         \/ \E turnOff \in BOOLEAN : Finish(turnOff)
         \/ EscapeTour
         \/ EscapeBoth
  PROVE  IInv'
  <1>0. LayersOK /\ PageOK /\ AwayOK /\ PinKept
    BY Parts DEF IInv
  <1>1. TourRuns => visit.here
    BY <1>0 DEF AwayOK, TourRuns
  <1>2. CASE HelpButton
    BY <1>2, BeginSteps DEF HelpButton, page
  <1>3. ASSUME NEW k \in timers, TimerFires(k)
        PROVE  IInv'
    <2>1. timers' \subseteq timers /\ UNCHANGED <<saves, visit, stored, batch>>
      BY <1>3 DEF TimerFires
    <2>2. CASE visit.here /\ Begin
      BY <2>1, <2>2, BeginSteps
    <2>3. CASE ~visit.here /\ UNCHANGED <<layers, left>>
      <3>1. PageOK'
        BY <1>0, <2>1 DEF PageOK
      <3>2. AwayOK'
        BY <1>0, <2>1, <2>3 DEF AwayOK, layers
      <3> QED BY <2>1, <2>3, <3>1, <3>2, LayersStay
    <2> QED BY <1>3, <2>2, <2>3 DEF TimerFires
  <1>4. ASSUME NEW step \in {"card", "chip"}, GoTo(step)
        PROVE  IInv'
    <2>1. tour.cards \in BOOLEAN
      BY <1>0 DEF LayersOK, Tour
    <2>2. /\ TourRuns /\ ShowStep(step, tour.cards)
          /\ UNCHANGED <<open, found, over, crossed, tangled, saves, visit, stored, batch>>
          /\ timers' \subseteq timers
      BY <1>4 DEF GoTo, page
    <2> QED BY <1>1, <2>1, <2>2, ShowMoves
  <1>5. CASE Resize
    <2>1. TourRuns /\ tour \in Tour
      BY <1>0, <1>5 DEF Resize, LayersOK
    <2>2. There(tour.step) \in BOOLEAN
      BY DEF There
    <2>3. tour.step \in {"card", "chip"} /\ tour.cards \in BOOLEAN
      BY <2>1 DEF Tour, TourRuns
    <2>4. tour' = [tour EXCEPT !.step = tour.step, !.cards = tour.cards,
                               !.shown = There(tour.step)]
      BY <1>5, <2>1 DEF Resize, Tour
    <2>5. /\ UNCHANGED <<body, left>>
          /\ UNCHANGED <<open, found, over, crossed, tangled, saves, visit, stored, batch>>
          /\ timers' \subseteq timers
      BY <1>5 DEF Resize, page
    <2> QED BY <1>1, <2>1, <2>2, <2>3, <2>4, <2>5, Moves, Zero
  <1>6. ASSUME NEW turnOff \in BOOLEAN, Finish(turnOff)
        PROVE  IInv'
    <2>1. TourRuns
      BY <1>0, <1>6 DEF Finish, PinKept
    <2> QED BY <1>6, <2>1, FinishSteps DEF Finish
  <1>7. CASE EscapeTour
    <2>1. over # "sheets"
      BY <1>0, <1>7 DEF EscapeTour, LayersOK
    <2>2. crossed' = (crossed \/ over = "sheets")
      BY <1>0, <1>7, <2>1 DEF EscapeTour, LayersOK
    <2> QED BY <1>7, <2>2, FinishSteps DEF EscapeTour
  <1> QED BY <1>2, <1>3, <1>4, <1>5, <1>6, <1>7, EscapeBothStep

-----------------------------------------------------------------------------
\* The page.

LEMMA LeaveStep ==
  ASSUME IInv, Leave
  PROVE  IInv'
  <1>0. LayersOK /\ PageOK /\ PinKept /\ PlaceKept /\ LockKept
    BY Parts DEF IInv
  <1>1. PICK c : c = Cleaned(LastOf(open))
    OBVIOUS
  <1>2. /\ visit' = [visit EXCEPT !.here = FALSE] /\ timers' = timers \ {"auto"}
        /\ body' = TourCleaned(c)
        /\ open' = {} /\ found' = Free
        /\ tangled' = (tangled \/ (open # {} /\ Nested(LastOf(open))))
        /\ tour' = NoTour /\ over' = "none"
        /\ crossed' = (crossed \/ over = "tour")
        /\ saves' = 0 /\ batch' = FALSE /\ UNCHANGED <<stored, left>>
    BY <1>1 DEF Leave, LeftTimers
  <1>3. /\ c \in Body /\ tangled' \in BOOLEAN
        /\ open = {} => c = body /\ (tangled' <=> tangled)
        /\ open # {} => (c.fixed <=> tangled')
        /\ open # {} /\ ~tangled' => c = found
        /\ tangled => tangled'
    BY <1>1, <1>2, CleanedFacts
  <1>4. /\ body' \in Body /\ body'.fixed = c.fixed
        /\ TourRuns => body'.overflow = tour.overflow
        /\ ~TourRuns => body'.overflow = c.overflow
    BY <1>0, <1>2, <1>3 DEF TourCleaned, LayersOK, Body, Tour
  <1>5. ~TourRuns' /\ ~tour'.shown /\ tour'.step = "none"
    BY <1>2 DEF TourRuns, NoTour
  <1>6. ~visit'.here
    BY <1>0, <1>2 DEF PageOK
  <1>7. LayersOK'
    <2>1. crossed' \in BOOLEAN
      BY <1>0, <1>2 DEF LayersOK
    <2> QED BY <1>0, <1>2, <1>3, <1>4, <1>5, <2>1, Constant DEF LayersOK
  <1>8. PageOK' /\ AwayOK'
    BY <1>0, <1>2, <1>5, Zero DEF PageOK, AwayOK
  <1>9. PinKept' /\ PlaceKept'
    BY <1>0, <1>2, <1>3, <1>4, <1>5, <1>6 DEF PinKept, PlaceKept
  <1>10. LockKept'
    <2> SUFFICES ASSUME ~crossed', ~tangled'
                 PROVE  body'.overflow = ""
      BY <1>2, <1>5 DEF LockKept
    <2>1. ~crossed /\ ~tangled /\ over # "tour"
      BY <1>2, <1>3
    <2>2. CASE TourRuns
      BY <1>0, <1>4, <2>1, <2>2 DEF LockKept
    <2>3. CASE ~TourRuns
      BY <1>0, <1>2, <1>3, <1>4, <2>1, <2>3 DEF LockKept, LayersOK, TourRuns
    <2> QED BY <2>2, <2>3
  <1> QED BY <1>7, <1>8, <1>9, <1>10, NextParts DEF IInv

LEMMA PageSteps ==
  ASSUME IInv, Arrive \/ Switch \/ SeeNow \/ Scroll
  PROVE  IInv'
  <1>0. LayersOK /\ PageOK /\ AwayOK /\ PinKept /\ PlaceKept /\ LockKept
    BY Parts DEF IInv
  <1>1. CASE Arrive
    <2>1. /\ open = {} /\ tour.step = "none"
          /\ visit'.count \in 0..MaxVisits /\ visit'.here
          /\ visit' \in [count: 0..MaxVisits, here: BOOLEAN]
      BY <1>0, <1>1, BoundsAssumption DEF Arrive, AwayOK, PageOK
    <2>2. /\ body' \in Body /\ body'.fixed = body.fixed
          /\ body'.overflow = body.overflow /\ body'.y = 0 /\ left' = 0
      BY <1>0, <1>1, Zero DEF Arrive, LayersOK, Body
    <2>3. UNCHANGED <<open, found, tour, over, saves, stored, batch, crossed, tangled>>
      BY <1>1 DEF Arrive
    <2>4. LayersOK'
      BY <1>0, <2>2, <2>3, Zero DEF LayersOK
    <2>5. PageOK' /\ AwayOK'
      BY <1>0, <1>1, <2>1, <2>3 DEF Arrive, PageOK, AwayOK
    <2>6. PinKept' /\ PlaceKept' /\ LockKept'
      BY <1>0, <2>1, <2>2, <2>3 DEF PinKept, PlaceKept, LockKept, TourRuns
    <2> QED BY <2>4, <2>5, <2>6, NextParts DEF IInv
  <1>2. CASE Switch
    <2>1. /\ UNCHANGED <<layers, saves, visit, batch, left>>
          /\ stored' \in [seen: BOOLEAN, enabled: BOOLEAN]
          /\ timers' \subseteq timers \union {"delayed"}
      BY <1>0, <1>2 DEF Switch, PageOK
    <2>2. PageOK' /\ AwayOK'
      BY <1>0, <2>1 DEF PageOK, AwayOK, layers
    <2> QED BY <2>1, <2>2, LayersStay
  <1>3. CASE SeeNow
    <2>1. /\ UNCHANGED <<layers, saves, visit, stored, batch, left>>
          /\ timers' = timers \union {"delayed"}
      BY <1>3 DEF SeeNow
    <2>2. PageOK' /\ AwayOK'
      BY <1>0, <2>1 DEF PageOK, AwayOK, layers
    <2> QED BY <2>1, <2>2, LayersStay
  <1>4. CASE Scroll
    <2>1. PICK y \in Places : body' = [body EXCEPT !.y = y] /\ left' = y
      BY <1>4 DEF Scroll
    <2>2. /\ body' \in Body /\ body'.fixed = body.fixed
          /\ body'.overflow = body.overflow /\ body'.y = left' /\ left' \in Places
      BY <1>0, <2>1 DEF LayersOK, Body
    <2>3. /\ UNCHANGED <<open, found, tour, over, saves, page, crossed, tangled>>
          /\ visit.here /\ ~body.fixed
      BY <1>4 DEF Scroll
    <2>4. LayersOK'
      BY <1>0, <2>2, <2>3 DEF LayersOK
    <2>5. PageOK' /\ AwayOK'
      BY <1>0, <2>3 DEF PageOK, AwayOK, page
    <2>6. PinKept' /\ PlaceKept' /\ LockKept'
      BY <1>0, <2>2, <2>3 DEF PinKept, PlaceKept, LockKept, TourRuns
    <2> QED BY <2>4, <2>5, <2>6, NextParts DEF IInv
  <1> QED BY <1>1, <1>2, <1>3, <1>4

LEMMA NextIInv == IInv /\ [Next]_vars => IInv'
  <1> SUFFICES ASSUME IInv, [Next]_vars PROVE IInv'
    OBVIOUS
  <1>1. CASE UNCHANGED vars
    <2>1. PageOK' /\ AwayOK'
      BY <1>1, Parts DEF IInv, vars, layers, page, PageOK, AwayOK
    <2> QED BY <1>1, <2>1, LayersStay DEF vars, page
  <1> QED BY <1>1, SheetSteps, TourSteps, LeaveStep, PageSteps DEF Next

-----------------------------------------------------------------------------
\* The invariant of every reachable state.
THEOREM Invariance == Spec => []IInv
  <1>1. Init => IInv
    BY InitIInv
  <1>2. IInv /\ [Next]_vars => IInv'
    BY NextIInv
  <1> QED BY <1>1, <1>2, PTL DEF Spec

\* Every state is well typed; no sheet, tour or first start of the tour
\* outlives the dashboard that shows it.
THEOREM TypeCorrect == Spec => []TypeOK
  <1>1. IInv => TypeOK
    BY DEF IInv
  <1> QED BY <1>1, Invariance, PTL

\* With no sheet open the body is pinned exactly if a sheet was once cleaned
\* up before one locked later; else the page stands where it was, and it can
\* be scrolled unless the lower of sheets and tour was once taken away first.
THEOREM GivenBack == Spec => []PageIsGivenBack
  <1>1. IInv => PageIsGivenBack
    <2> SUFFICES ASSUME IInv PROVE PageIsGivenBack
      OBVIOUS
    <2>1. PinKept /\ PlaceKept /\ LockKept
      BY DEF IInv
    <2> QED BY <2>1 DEF PinKept, PlaceKept, LockKept, PageIsGivenBack
  <1> QED BY <1>1, Invariance, PTL
=============================================================================
