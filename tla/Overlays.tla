------------------------------ MODULE Overlays ------------------------------
(***************************************************************************)
(* What lies over the dashboard and locks the page behind it: four bottom  *)
(* sheets (components/BottomSheet.tsx) and the guided tour                 *)
(* (components/tour).  Each saves the styles of the body when its effect   *)
(* runs and puts them back when it is cleaned up.  They do not know of     *)
(* each other, all listen to Escape, and none keeps the focus: with Tab    *)
(* every control of the page is within reach.                              *)
(*                                                                         *)
(* A sheet's effect depends on onClose, a new function at every render of  *)
(* the dashboard: each render cleans up all open sheets, one after the     *)
(* other, and then locks all that are open, in the order of the tree.  So  *)
(* the open sheets have always been locked together, and what the first of *)
(* them found is what any of them puts back, or a locked body.  The tour   *)
(* renders on its own.  An effect runs with the render it belongs to.      *)
(*                                                                         *)
(* The tour has two kinds of targets: the cards, hidden while a batch      *)
(* runs, and the wallet chip, always there.                                *)
(***************************************************************************)
EXTENDS Integers

CONSTANTS
    Bottom,    \* the page can be scrolled to 0..Bottom
    MaxSaves,  \* bound: saves of inside authors under way at a time
    MaxVisits  \* bound: visits of the dashboard

ASSUME BoundsAssumption == Bottom \in Nat /\ MaxSaves \in Nat /\ MaxVisits \in Nat

VARIABLES
    body,     \* the styles of the body and where the window is scrolled to
    open,     \* the open sheets
    found,    \* the body that the first of them locked
    tour,     \* its step, what it saved, whether it shows, whether Escape gets
              \* to it before the sheets
    over,     \* which of sheets and tour came over the other
    saves,    \* saves of inside authors under way: onSaved is still to come
    visit,    \* the visits of the dashboard so far, and whether it is shown
    timers,   \* the starts of the tour that are due
    stored,   \* localStorage: whether the tour was seen and is enabled
    batch,    \* whether a batch hides the cards
    left,     \* history: where the page was scrolled to
    crossed,  \* history: whether the lower of sheets and tour went first
    tangled   \* history: whether a sheet was cleaned up before one locked later

layers == <<body, open, found, tour, over, crossed, tangled>>
page == <<visit, timers, stored, batch>>
vars == <<layers, saves, page, left>>

Places == 0..Bottom
Body == [overflow: {"", "hidden"}, fixed: BOOLEAN, y: Places]
Free == [overflow |-> "", fixed |-> FALSE, y |-> 0]
NoTour == [step |-> "none", cards |-> FALSE, overflow |-> "", shown |-> FALSE,
           first |-> FALSE]

\* The sheets in the order of the tree: the setup of a page, the choice of a
\* page, of a page to write for, and what is written for it.
Tree == [setup |-> 1, picker |-> 2, manual |-> 3, seeder |-> 4]
Sheets == DOMAIN Tree

\* These exist only while open; React cleans up what goes out of the tree
\* before what stays in it.
Mounted == {"setup", "seeder"}

TypeOK ==
    /\ body \in Body
    /\ open \subseteq Sheets
    /\ found \in Body
    /\ tour \in [step: {"none", "card", "chip"}, cards: BOOLEAN,
                overflow: {"", "hidden"}, shown: BOOLEAN, first: BOOLEAN]
    /\ over \in {"none", "sheets", "tour"}
    /\ over # "none" <=> open # {} /\ tour.step # "none"
    /\ saves \in 0..MaxSaves
    /\ visit \in [count: 0..MaxVisits, here: BOOLEAN]
    /\ timers \subseteq {"auto", "delayed"}
    /\ stored \in [seen: BOOLEAN, enabled: BOOLEAN]
    /\ batch \in BOOLEAN
    /\ left \in Places
    /\ crossed \in BOOLEAN
    /\ tangled \in BOOLEAN
    /\ ~visit.here => /\ open = {} /\ tour.step = "none" /\ saves = 0
                      /\ "auto" \notin timers
-----------------------------------------------------------------------------
Init ==
    /\ body = Free
    /\ open = {}
    /\ found = Free
    /\ tour = NoTour
    /\ over = "none"
    /\ saves = 0
    /\ visit = [count |-> 0, here |-> FALSE]
    /\ timers = {}
    /\ stored = [seen |-> FALSE, enabled |-> TRUE]
    /\ batch = FALSE
    /\ left = 0
    /\ crossed = FALSE
    /\ tangled = FALSE

TourRuns == tour.step # "none"

\* The effect of a sheet on the body, wherever that was.
Locked == [overflow |-> "hidden", fixed |-> TRUE, y |-> 0]

FirstOf(s) == CHOOSE k \in s : \A j \in s : Tree[k] <= Tree[j]
LastOf(s) == CHOOSE k \in s : \A j \in s : Tree[j] <= Tree[k]

\* It was locked when another one was.
Nested(k) == \E j \in open : Tree[j] < Tree[k]

\* The sheet cleaned up last when those of s stay or open.
CleanedLast(s) ==
    LET gone == (open \ s) \intersect Mounted
    IN  IF open \subseteq gone THEN LastOf(gone) ELSE LastOf(open \ gone)

\* Mutant of Cleaned: the effects run without the cleanups.
NotCleaned(k) == body

\* The body after the cleanups, of which that of k is the last; nothing of
\* what the others restored is left.
Cleaned(k) ==
    IF open = {} THEN body ELSE IF Nested(k) THEN Locked ELSE found

\* The cleanup of the tour.
TourCleaned(b) == IF TourRuns THEN [b EXCEPT !.overflow = tour.overflow] ELSE b

\* The sheets after a render: c is the body between cleanups and effects.
Relock(s, c) ==
    /\ open' = s
    /\ found' = IF s = {} THEN Free ELSE c
    /\ tangled' = (tangled \/ (open # {} /\ Nested(CleanedLast(s))))

\* A render of the dashboard with sheets s.  Its listeners to Escape are new,
\* those of a running tour are not.
Render(s) ==
    LET c == Cleaned(CleanedLast(s))
    IN  /\ visit.here
        /\ Relock(s, c)
        /\ body' = IF s = {} THEN c ELSE Locked
        /\ tour' = [tour EXCEPT !.first = TourRuns]
        /\ over' = IF s = {} \/ ~TourRuns THEN "none"
                   ELSE IF open = {} THEN "sheets" ELSE over
        /\ crossed' = (crossed \/ (over = "tour" /\ s = {}))
        /\ left' = left

\* Any other render, such as one for a letter typed into a sheet.
RenderAgain == open # {} /\ Render(open) /\ UNCHANGED <<saves, page>>

\* The buttons on the two cards.
OpenSheet(k) ==
    /\ k \in {"picker", "manual"} \ open
    /\ ~batch
    /\ Render(open \union {k})
    /\ UNCHANGED <<saves, page>>

\* choosePageNumber opens the setup of a page in place of the picker,
\* openManualSeederForPage the seeder in place of its picker.
ChoosePage(from, to) ==
    /\ <<from, to>> \in {<<"picker", "setup">>, <<"manual", "seeder">>}
    /\ from \in open
    /\ Render((open \ {from}) \union {to})
    /\ UNCHANGED <<saves, page>>

\* onClose of sheet k: the setup goes back to the picker (closePageSetup).
AfterClose(k) ==
    (open \ {k}) \union (IF k = "setup" THEN {"picker"} ELSE {})

\* By its buttons; and a click that has ended takes the picker with it.
CloseSheet(k) ==
    /\ k \in open
    /\ Render(AfterClose(k))
    /\ UNCHANGED <<saves, page>>

\* The setup of an inside page saves its authors ...
SaveAuthors ==
    /\ "setup" \in open
    /\ saves < MaxSaves
    /\ saves' = saves + 1
    /\ UNCHANGED <<layers, page, left>>

\* ... and calls onSaved, closePageSetup, when that is done, whichever sheets
\* are open by then.  Without a change there is no render.
AuthorsSaved ==
    /\ saves > 0
    /\ saves' = saves - 1
    /\ LET s == AfterClose("setup")
       IN  IF s = open THEN UNCHANGED <<layers, left>> ELSE Render(s)
    /\ UNCHANGED page

AuthorsFailed ==
    /\ saves > 0
    /\ saves' = saves - 1
    /\ UNCHANGED <<layers, page, left>>

BatchChanges ==
    /\ batch' = ~batch
    /\ Render(open)
    /\ UNCHANGED <<saves, visit, timers, stored>>
-----------------------------------------------------------------------------
There(step) == step = "chip" \/ ~batch

\* The layout effect: the target is scrolled into view, unless the body is
\* pinned, and measured a frame later.
ShowStep(step, cards) ==
    /\ tour' = [tour EXCEPT !.step = step, !.cards = cards, !.shown = There(step)]
    /\ IF There(step) /\ ~body.fixed
       THEN \E y \in Places :
               /\ body' = [body EXCEPT !.y = y]
               /\ left' = y
       ELSE UNCHANGED <<body, left>>

FirstStep == IF batch THEN "chip" ELSE "card"

\* begin: the steps are those whose targets are there.  A tour that runs goes
\* back to the first, and is neither locked nor, there already, measured again.
Begin ==
    /\ \/ /\ ~TourRuns
          /\ \E y \in IF body.fixed THEN {body.y} ELSE Places :
                /\ body' = [body EXCEPT !.overflow = "hidden", !.y = y]
                /\ left' = IF body.fixed THEN left ELSE y
          /\ tour' = [step |-> FirstStep, cards |-> ~batch, overflow |-> body.overflow,
                      shown |-> TRUE, first |-> FALSE]
          /\ over' = IF open # {} THEN "tour" ELSE "none"
       \/ /\ TourRuns
          /\ tour.step # FirstStep
          /\ ShowStep(FirstStep, ~batch)
          /\ over' = over
       \/ /\ tour.step = FirstStep
          /\ tour' = [tour EXCEPT !.cards = ~batch]
          /\ UNCHANGED <<body, over, left>>
    /\ UNCHANGED <<open, found, crossed, tangled>>

HelpButton ==
    /\ visit.here
    /\ Begin
    /\ UNCHANGED <<saves, page>>

\* autoStart after 1.2 s, or the start that follows a switch; without the
\* dashboard no one listens.
TimerFires(k) ==
    /\ k \in timers
    /\ timers' = timers \ {k}
    /\ IF visit.here THEN Begin ELSE UNCHANGED <<layers, left>>
    /\ UNCHANGED <<saves, visit, stored, batch>>

\* The next step or the one before it; the steps are those of the start.  The
\* arrow keys work even while nothing is shown.
GoTo(step) ==
    /\ TourRuns
    /\ step = "card" => tour.cards
    /\ ShowStep(step, tour.cards)
    /\ UNCHANGED <<open, found, over, saves, page, crossed, tangled>>

\* finish
TourEnds(turnOff) ==
    /\ tour' = NoTour
    /\ over' = "none"
    /\ stored' = [seen |-> TRUE, enabled |-> stored.enabled /\ ~turnOff]
    /\ UNCHANGED <<saves, visit, timers, batch, left>>

Finish(turnOff) ==
    /\ tour.shown
    /\ TourEnds(turnOff)
    /\ body' = TourCleaned(body)
    /\ crossed' = (crossed \/ over = "sheets")
    /\ UNCHANGED <<open, found, tangled>>

Resize ==
    /\ TourRuns
    /\ tour' = [tour EXCEPT !.shown = There(tour.step)]
    /\ UNCHANGED <<body, open, found, over, saves, page, left, crossed, tangled>>

\* Of several sheets Escape closes the first in the tree: its render takes
\* the listeners of the others away before the key gets to them.
EscapeSheet ==
    /\ open # {} /\ ~TourRuns
    /\ Render(AfterClose(FirstOf(open)))
    /\ UNCHANGED <<saves, page>>

EscapeTour ==
    /\ open = {} /\ TourRuns
    /\ TourEnds(FALSE)
    /\ body' = TourCleaned(body)
    /\ UNCHANGED <<open, found, crossed, tangled>>

\* Sheet and tour each hear the key in the order in which they began to
\* listen, and each renders before the other hears it.
EscapeBoth ==
    LET s == AfterClose(FirstOf(open))
        c == Cleaned(CleanedLast(s))
        b == IF s = {} THEN c ELSE Locked
    IN  /\ open # {} /\ TourRuns
        /\ TourEnds(FALSE)
        /\ Relock(s, c)
        /\ body' = IF tour.first THEN b ELSE TourCleaned(b)
        /\ crossed' = (crossed \/ over = "sheets" \/ (~tour.first /\ s = {}))
-----------------------------------------------------------------------------
Arrive ==
    /\ ~visit.here
    /\ visit.count < MaxVisits
    /\ visit' = [count |-> visit.count + 1, here |-> TRUE]
    /\ timers' = timers \union (IF ~stored.seen /\ stored.enabled THEN {"auto"} ELSE {})
    /\ body' = [body EXCEPT !.y = 0]
    /\ left' = 0
    /\ UNCHANGED <<open, found, tour, over, saves, stored, batch, crossed, tangled>>

\* Mutant of LeftTimers: the first start of the tour stays due.
AllTimers == timers

\* The timers that outlive the dashboard.
LeftTimers == timers \ {"auto"}

\* The dashboard is unmounted, and with it what is over it, in the order of
\* the tree; an onSaved that comes later finds nothing to set.
Leave ==
    LET c == Cleaned(LastOf(open))
    IN  /\ visit.here
        /\ visit' = [visit EXCEPT !.here = FALSE]
        /\ timers' = LeftTimers
        /\ body' = TourCleaned(c)
        /\ open' = {}
        /\ found' = Free
        /\ tangled' = (tangled \/ (open # {} /\ Nested(LastOf(open))))
        /\ tour' = NoTour
        /\ over' = "none"
        /\ crossed' = (crossed \/ over = "tour")
        /\ saves' = 0
        /\ batch' = FALSE
        /\ UNCHANGED <<stored, left>>

\* The switch of the dashboard starts the tour a little later, and so does
\* the button of the settings; the switch of the settings does not.
Switch ==
    /\ LET on == ~stored.enabled
       IN  /\ stored' = [seen |-> stored.seen /\ ~on, enabled |-> on]
           /\ timers' = IF on /\ visit.here THEN timers \union {"delayed"} ELSE timers
    /\ UNCHANGED <<layers, saves, visit, batch, left>>

SeeNow ==
    /\ ~visit.here
    /\ visit.count < MaxVisits
    /\ timers' = timers \union {"delayed"}
    /\ UNCHANGED <<layers, saves, visit, stored, batch, left>>

Scroll ==
    /\ visit.here
    /\ body.overflow = ""
    /\ ~body.fixed
    /\ \E y \in Places : body' = [body EXCEPT !.y = y] /\ left' = y
    /\ UNCHANGED <<open, found, tour, over, saves, page, crossed, tangled>>

Next ==
    \/ \E k \in Sheets : OpenSheet(k) \/ CloseSheet(k)
    \/ \E from, to \in Sheets : ChoosePage(from, to)
    \/ RenderAgain
    \/ SaveAuthors
    \/ AuthorsSaved
    \/ AuthorsFailed
    \/ BatchChanges
    \/ HelpButton
    \/ \E k \in timers : TimerFires(k)
    \/ \E step \in {"card", "chip"} : GoTo(step)
    \/ Resize
    \/ \E turnOff \in BOOLEAN : Finish(turnOff)
    \/ EscapeSheet
    \/ EscapeTour
    \/ EscapeBoth
    \/ Arrive
    \/ Leave
    \/ Switch
    \/ SeeNow
    \/ Scroll

Spec == Init /\ [][Next]_vars
-----------------------------------------------------------------------------
\* "Exactly where the user left it" (BottomSheet.tsx:35): with no sheet open
\* the body is pinned if and only if once two sheets were open and one was
\* cleaned up before the other, locked after it; until then the page is where
\* it was, however often the effects ran again and whatever the tour did
\* meanwhile.  When nothing is open the page scrolls, unless that happened or
\* the lower of sheets and tour was once taken away before the upper, which
\* put back the lock it had found.
PageIsGivenBack ==
    /\ IF open = {} THEN body.fixed <=> tangled ELSE found.fixed <=> tangled
    /\ ~tangled => IF open = {} THEN visit.here => body.y = left ELSE found.y = left
    /\ open = {} /\ ~TourRuns /\ ~tangled => body.overflow = "" \/ crossed

\* What BottomSheet.tsx:34-36 promises without these conditions.
NeverLeftPinned == open = {} => ~body.fixed
=============================================================================
