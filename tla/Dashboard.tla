----------------------------- MODULE Dashboard -----------------------------
(***************************************************************************)
(* The dashboard of one publisher, open in several tabs: the page plan it  *)
(* loads, the charge for a full newspaper and the panel that follows the   *)
(* generator's run (app/(publisher)/dashboard/page.tsx).                   *)
(*                                                                         *)
(* A click on the full card runs one asynchronous function, here a run:    *)
(* save the boxes, charge, ask for a launch token, open the panel.  All of *)
(* it uses the values the page showed at the click.  A link, or            *)
(* router.push, unmounts the page and keeps the JavaScript of the tab: the *)
(* run goes on, with no page to show anything on, and the tab may return   *)
(* to a new page whose button is enabled.  A reload, a closed tab or       *)
(* window.location ends the runs of the tab.  A request whose client has   *)
(* given up on it may still be served, at any later time.                  *)
(*                                                                         *)
(* The server replaces the publisher's boxes in a transaction that deletes *)
(* what it sees and inserts its own (SaaSSaveManualBoxContent): rows       *)
(* another transaction commits between the two stay.  Nothing reads the    *)
(* stored boxes back into the page.  The charge is one step here; Billing  *)
(* has its detail.                                                         *)
(*                                                                         *)
(* A click sends one box or none, whatever ManualSeeder made of it; the    *)
(* sheets over the cards are in Overlays.  The launch of a single page     *)
(* keeps nothing here: its token comes at some time, and the document goes *)
(* (Unload).  The generator is external: it answers for one page after the *)
(* other and then offers the download.                                     *)
(***************************************************************************)
EXTENDS Integers, Sequences, FiniteSets

CONSTANTS
    Tabs,
    Runs,          \* bound: the clicks on the full card in a behaviour
    FallbackPages, \* the page count before the profile has answered, 8
    ProfilePages,  \* the page count of the publisher's profile
    FirstBalance,  \* the wallet, in pages it can pay for
    MayFail        \* whether a request may fail or its answer be lost

ASSUME BoundsAssumption ==
    /\ IsFiniteSet(Runs)
    /\ Runs \subseteq Nat \ {0}
    /\ Tabs # {}
    /\ FallbackPages \in Nat \ {0}
    /\ ProfilePages \in Nat \ {0}
    /\ FirstBalance \in Nat
    /\ MayFail \in BOOLEAN

VARIABLES
    balance,  \* the server: the wallet,
    charges,  \* the charges made, in order,
    stored,   \* the manual boxes stored, each named by the run that sent it,
    saver,    \* and the run whose save committed last, or 0
    save,     \* how far the server is with the boxes of a run,
    bill,     \* and with its charge
    at,       \* how far the run itself is, in its tab
    click,    \* its tab and what it took from the page at the click
    live,     \* whether the page it was clicked on is still mounted
    place,    \* what a tab shows
    loaded,   \* its page: whether the profile has answered,
    checking, \* whether checking is "full", which disables the button,
    panel     \* and the batch panel

wallet == <<balance, charges>>
table == <<stored, saver>>
requests == <<save, bill>>
run == <<at, click, live>>
page == <<place, loaded, checking, panel>>
vars == <<wallet, table, requests, run, page>>

Pages == 1..(FallbackPages + ProfilePages)
\* after: the balance the charge left, balance_after_inr.
Charged == [run: Runs, pages: Pages, after: 0..FirstBalance]
\* old: the rows its DELETE saw.
Click == [tab: Tabs, pages: {0} \union Pages, boxes: SUBSET Runs, old: SUBSET Runs]
NoClick == [tab |-> CHOOSE t \in Tabs : TRUE, pages |-> 0, boxes |-> {}, old |-> {}]
\* pages: how many it waits for; answered: how many are ready or in error.
Panel == [run: {0} \union Runs, pages: {0} \union Pages,
          answered: {0} \union Pages,
          download: {"none", "offered", "running"}]
NoPanel == [run |-> 0, pages |-> 0, answered |-> 0, download |-> "none"]

TypeOK ==
    /\ balance \in 0..FirstBalance
    /\ charges \in Seq(Charged)
    /\ stored \subseteq Runs
    /\ saver \in {0} \union Runs
    /\ save \in [Runs -> {"unsent", "sent", "deleted", "stored"}]
    /\ bill \in [Runs -> {"unsent", "sent", "charged", "read"}]
    /\ at \in [Runs -> {"unused", "waiting", "token", "shown", "failed", "gone"}]
    /\ click \in [Runs -> Click]
    /\ live \in [Runs -> BOOLEAN]
    /\ place \in [Tabs -> {"dashboard", "leaving", "elsewhere"}]
    /\ loaded \in [Tabs -> BOOLEAN]
    /\ checking \in [Tabs -> BOOLEAN]
    /\ panel \in [Tabs -> Panel]
-----------------------------------------------------------------------------
Init ==
    /\ balance = FirstBalance
    /\ charges = <<>>
    /\ stored = {}
    /\ saver = 0
    /\ save = [r \in Runs |-> "unsent"]
    /\ bill = [r \in Runs |-> "unsent"]
    /\ at = [r \in Runs |-> "unused"]
    /\ click = [r \in Runs |-> NoClick]
    /\ live = [r \in Runs |-> FALSE]
    /\ place = [t \in Tabs |-> "dashboard"]
    /\ loaded = [t \in Tabs |-> FALSE]
    /\ checking = [t \in Tabs |-> FALSE]
    /\ panel = [t \in Tabs |-> NoPanel]

Mounted(t) == place[t] # "elsewhere"

\* defaultPages
DefaultPages(t) == IF loaded[t] THEN ProfilePages ELSE FallbackPages

\* The profile's answer; if none comes, the fallback stays.
Load(t) ==
    /\ Mounted(t)
    /\ ~loaded[t]
    /\ loaded' = [loaded EXCEPT ![t] = TRUE]
    /\ UNCHANGED <<wallet, table, requests, run, place, checking, panel>>
-----------------------------------------------------------------------------
TabOf(r) == click[r].tab

\* handleGenerate("full"), on a card that shows while no batch runs: checking
\* is set, the finished boxes are sent.
ClickFull(t, r) ==
    /\ at[r] = "unused"
    /\ \A s \in Runs : s < r => at[s] # "unused"
    /\ Mounted(t)
    /\ panel[t].run = 0
    /\ ~checking[t]
    /\ checking' = [checking EXCEPT ![t] = TRUE]
    /\ at' = [at EXCEPT ![r] = "waiting"]
    /\ live' = [live EXCEPT ![r] = TRUE]
    /\ \E boxes \in {{}, {r}} :
          click' = [click EXCEPT ![r] = [tab |-> t, pages |-> DefaultPages(t),
                                         boxes |-> boxes, old |-> {}]]
    /\ save' = [save EXCEPT ![r] = "sent"]
    /\ UNCHANGED <<wallet, table, bill, place, loaded, panel>>

\* The DELETE of SaaSSaveManualBoxContent sees what is committed now.
DeleteBoxes(r) ==
    /\ save[r] = "sent"
    /\ save' = [save EXCEPT ![r] = "deleted"]
    /\ click' = [click EXCEPT ![r].old = stored]
    /\ UNCHANGED <<wallet, table, bill, at, live, page>>

\* Its COMMIT.
InsertBoxes(r) ==
    /\ save[r] = "deleted"
    /\ save' = [save EXCEPT ![r] = "stored"]
    /\ stored' = (stored \ click[r].old) \union click[r].boxes
    /\ saver' = r
    /\ click' = [click EXCEPT ![r].old = {}]
    /\ UNCHANGED <<wallet, bill, at, live, page>>

\* Mutant of SaveAnswered: the charge does not wait for the answer.
SaveNotAwaited(r) ==
    /\ at[r] = "waiting"
    /\ bill[r] = "unsent"
    /\ bill' = [bill EXCEPT ![r] = "sent"]
    /\ UNCHANGED <<wallet, table, save, run, page>>

\* The answer of the save is good: the charge is asked for.
SaveAnswered(r) ==
    /\ at[r] = "waiting"
    /\ save[r] = "stored"
    /\ bill[r] = "unsent"
    /\ bill' = [bill EXCEPT ![r] = "sent"]
    /\ UNCHANGED <<wallet, table, save, run, page>>

\* Mutant of Charge: the update without its balance condition.
ChargeAnyway(r) ==
    /\ bill[r] = "sent"
    /\ bill' = [bill EXCEPT ![r] = "charged"]
    /\ balance' = balance - click[r].pages
    /\ charges' = Append(charges, [run |-> r, pages |-> click[r].pages, after |-> balance'])
    /\ UNCHANGED <<table, save, run, page>>

\* SaaSExecuteGeneration commits.
Charge(r) ==
    /\ bill[r] = "sent"
    /\ balance >= click[r].pages
    /\ bill' = [bill EXCEPT ![r] = "charged"]
    /\ balance' = balance - click[r].pages
    /\ charges' = Append(charges, [run |-> r, pages |-> click[r].pages, after |-> balance'])
    /\ UNCHANGED <<table, save, run, page>>

\* The answer of the charge is good: the launch token is asked for.
ChargeAnswered(r) ==
    /\ at[r] = "waiting"
    /\ bill[r] = "charged"
    /\ bill' = [bill EXCEPT ![r] = "read"]
    /\ at' = [at EXCEPT ![r] = "token"]
    /\ UNCHANGED <<wallet, table, save, click, live, page>>

\* Mutant of Finish: checking is not reset.
FinishChecking(r, end) ==
    /\ at' = [at EXCEPT ![r] = end]
    /\ checking' = checking
    /\ UNCHANGED <<wallet, table, requests, click, live, loaded>>

\* The finally of handleGenerate: checking is null, on the page of the run if
\* that is still mounted.
Finish(r, end) ==
    /\ at' = [at EXCEPT ![r] = end]
    /\ checking' = [checking EXCEPT ![TabOf(r)] = @ /\ ~live[r]]
    /\ UNCHANGED <<wallet, table, requests, click, live, loaded>>

Waits(r, pages) == [NoPanel EXCEPT !.run = r, !.pages = pages]

\* Mutant of OpenPanel: a page count read when the token is there.
OpenPanelOfNow(r) ==
    /\ at[r] = "token"
    /\ live[r]
    /\ panel' = [panel EXCEPT ![TabOf(r)] = Waits(r, DefaultPages(TabOf(r)))]
    /\ Finish(r, "shown")
    /\ UNCHANGED place

\* startBatchGeneration, with the launch token or without.
OpenPanel(r) ==
    /\ at[r] = "token"
    /\ live[r]
    /\ panel' = [panel EXCEPT ![TabOf(r)] = Waits(r, click[r].pages)]
    /\ Finish(r, "shown")
    /\ UNCHANGED place

\* The same on a page that is unmounted: nothing opens.
OpenNothing(r) ==
    /\ at[r] = "token"
    /\ ~live[r]
    /\ Finish(r, "gone")
    /\ UNCHANGED <<place, panel>>

\* Mutant of Fail: the run ends when no token is to be had.
FailWithoutToken(r) ==
    /\ MayFail
    /\ at[r] \in {"waiting", "token"}
    /\ Finish(r, "failed")
    /\ UNCHANGED <<place, panel>>

\* A request is refused or fails, or its answer is lost: an error is shown if
\* there is a page to show it on.  The server may have done what was asked, or
\* may still do it.
Fail(r) ==
    /\ MayFail
    /\ at[r] = "waiting"
    /\ Finish(r, "failed")
    /\ UNCHANGED <<place, panel>>

\* 402: router.push to the wallet, whichever page the tab shows by now.  It
\* goes in a step of its own, and until then the button is enabled.
Refuse(r) ==
    /\ at[r] = "waiting"
    /\ bill[r] = "sent"
    /\ balance < click[r].pages
    /\ Finish(r, "failed")
    /\ place' = [place EXCEPT ![TabOf(r)] = IF @ = "dashboard" THEN "leaving" ELSE @]
    /\ UNCHANGED panel
-----------------------------------------------------------------------------
\* Messages of the generator while the panel listens.
Listen(t, new) ==
    /\ panel[t].run # 0
    /\ panel' = [panel EXCEPT ![t] = new]
    /\ UNCHANGED <<wallet, table, requests, run, place, loaded, checking>>

\* page-ready, or batch-error of a page
PageMessage(t) ==
    /\ panel[t].answered < panel[t].pages
    /\ Listen(t, [panel[t] EXCEPT !.answered = @ + 1])

\* batch-complete
BatchComplete(t) ==
    /\ panel[t].answered = panel[t].pages
    /\ panel[t].download = "none"
    /\ Listen(t, [panel[t] EXCEPT !.download = "offered"])

TriggerDownload(t) ==
    panel[t].download = "offered" /\ Listen(t, [panel[t] EXCEPT !.download = "running"])

\* download-complete, or batch-error without a page
DownloadEnds(t) ==
    panel[t].download = "running" /\ Listen(t, [panel[t] EXCEPT !.download = "offered"])

CloseBatchPanel(t) == Listen(t, NoPanel)
-----------------------------------------------------------------------------
\* The state of a page goes with it.
Unmount(t) ==
    /\ place' = [place EXCEPT ![t] = "elsewhere"]
    /\ loaded' = [loaded EXCEPT ![t] = FALSE]
    /\ checking' = [checking EXCEPT ![t] = FALSE]
    /\ panel' = [panel EXCEPT ![t] = NoPanel]
    /\ live' = [r \in Runs |-> live[r] /\ TabOf(r) # t]
    /\ UNCHANGED <<wallet, table, requests, click>>

\* A link of the layout or of the cards, or the push of Refuse: the runs of the
\* tab go on.
Navigate(t) ==
    /\ Mounted(t)
    /\ Unmount(t)
    /\ UNCHANGED at

\* The document goes, whatever it shows, and the runs of the tab with it: a
\* reload, a closed tab, or openGenerator of a single page, which replaces it
\* when the launch token is there.
Unload(t) ==
    /\ Unmount(t)
    /\ at' = [r \in Runs |-> IF TabOf(r) = t /\ at[r] \in {"waiting", "token"}
                             THEN "gone" ELSE at[r]]

\* Back to the dashboard: a new page.
Return(t) ==
    /\ ~Mounted(t)
    /\ place' = [place EXCEPT ![t] = "dashboard"]
    /\ UNCHANGED <<wallet, table, requests, run, loaded, checking, panel>>

Serve(r) == DeleteBoxes(r) \/ InsertBoxes(r) \/ Charge(r)

Proceed(r) ==
    SaveAnswered(r) \/ ChargeAnswered(r) \/ Refuse(r) \/ OpenPanel(r) \/ OpenNothing(r)

Browse(t) ==
    \/ Load(t)
    \/ Navigate(t)
    \/ Unload(t)
    \/ Return(t)

Watch(t) ==
    \/ PageMessage(t)
    \/ BatchComplete(t)
    \/ TriggerDownload(t)
    \/ DownloadEnds(t)
    \/ CloseBatchPanel(t)

Next ==
    \/ \E r \in Runs : Serve(r) \/ Proceed(r) \/ Fail(r)
    \/ \E t \in Tabs : Browse(t) \/ Watch(t) \/ \E r \in Runs : ClickFull(t, r)

Spec == Init /\ [][Next]_vars

\* While a run waits, the server serves its request and the browser settles
\* it.  A request nobody waits for any more may be served or not.
Fairness ==
    \A r \in Runs : WF_vars(Proceed(r) \/ (at[r] = "waiting" /\ Serve(r)))

FairSpec == Spec /\ Fairness
-----------------------------------------------------------------------------
Running(r) == at[r] \in {"waiting", "token"}

\* A run that has read the good answer of its charge ends in its panel, and
\* only with the page it was clicked on can the panel be missed.  While that
\* page is mounted and the run goes on, its button is disabled, no panel is
\* open and no other run of the page is under way: the panel that opens is
\* this one, and nobody pays twice on one page for one newspaper.
PaidRunOpens ==
    \A r \in Runs :
        /\ bill[r] = "read" => at[r] \in {"token", "shown", "gone"}
        /\ at[r] = "gone" => ~live[r]
        /\ live[r] /\ Running(r) =>
              /\ checking[TabOf(r)]
              /\ panel[TabOf(r)].run = 0
              /\ \A s \in Runs \ {r} :
                    TabOf(s) = TabOf(r) => ~(live[s] /\ Running(s))

\* The panel waits for as many pages as its own charge paid for, whatever the
\* profile answered between the click and the panel.
PanelShowsTheChargedRun ==
    \A t \in Tabs :
        panel[t].run # 0 =>
           /\ TabOf(panel[t].run) = t
           /\ \E c \in 1..Len(charges) :
                 /\ charges[c].run = panel[t].run
                 /\ charges[c].pages = panel[t].pages

\* The comment at dashboard/page.tsx:555-557: never charged for a generation
\* whose manual content failed to save.  A run is charged only after its own
\* boxes were committed, and they are stored at that moment unless the save of
\* another run, of any tab and even of one that was given up, came after.
PaidContentIsStored ==
    [][\A r \in Runs :
          Charge(r) => /\ save[r] = "stored"
                       /\ click[r].boxes \subseteq stored \/ saver # r]_vars

\* Neither of the next two holds.  The card is disabled while a run is under
\* way, but only on the page of that run: the tab that went elsewhere and came
\* back begins another, and both are charged.
OneRunAtATime ==
    \A r, s \in Runs :
        r # s /\ TabOf(r) = TabOf(s) => ~(Running(r) /\ Running(s))

\* The save replaces, "or clears", the boxes of the issue before it is charged
\* (dashboard/page.tsx:555): a save that was given up on may be served after it.
ChargedForItsBoxes ==
    [][\A r \in Runs : Charge(r) /\ Running(r) => stored = click[r].boxes]_vars

\* The publisher's wallet and its transactions, as SaaSExecuteGeneration writes
\* them: the entry that opened it, and one for each charge.
Opening ==
    IF FirstBalance = 0 THEN <<>>
    ELSE <<[type |-> "CREDIT", amount |-> FirstBalance, after |-> FirstBalance,
            by |-> "server"]>>
EntryOf(charge) ==
    [type |-> "GENERATION_CHARGE", amount |-> -charge.pages, after |-> charge.after,
     by |-> "server"]
Posted == Opening \o [c \in 1..Len(charges) |-> EntryOf(charges[c])]

Wallet == INSTANCE WalletLedger WITH
              Accounts <- {"publisher"},
              EntryTypes <- {"CREDIT", "GENERATION_CHARGE"},
              Sources <- {"server"},
              balance <- [w \in {"publisher"} |-> balance],
              ledger <- [w \in {"publisher"} |-> Posted]

\* The charge of this module keeps the promise Billing keeps: whatever tabs,
\* lost answers and runs without a page do, each step posts one entry, or none.
ImplementsWalletLedger == Wallet!Spec

\* The button comes back: every click ends in a panel, an error or another page.
ClickIsAnswered == \A t \in Tabs : checking[t] ~> ~checking[t]
=============================================================================
