------------------------- MODULE Dashboard_proofs -------------------------
(***************************************************************************)
(* What holds of Dashboard for any number of tabs and clicks, any wallet   *)
(* and any page counts; and of ManualSeeder, the other part of that page,  *)
(* for any number of pages, boxes and files.                               *)
(***************************************************************************)
EXTENDS Dashboard, ManualSeeder, FiniteSetTheorems, SequenceTheorems,
        WellFoundedInduction, TLAPS

-----------------------------------------------------------------------------
\* Types.

ServerOK ==
    /\ balance \in 0..FirstBalance
    /\ charges \in Seq(Charged)
    /\ stored \subseteq Runs
    /\ saver \in {0} \union Runs
    /\ save \in [Runs -> {"unsent", "sent", "deleted", "stored"}]
    /\ bill \in [Runs -> {"unsent", "sent", "charged", "read"}]

RunOK ==
    /\ at \in [Runs -> {"unused", "waiting", "token", "shown", "failed", "gone"}]
    /\ click \in [Runs -> Click]
    /\ live \in [Runs -> BOOLEAN]

PageOK ==
    /\ place \in [Tabs -> {"dashboard", "leaving", "elsewhere"}]
    /\ loaded \in [Tabs -> BOOLEAN]
    /\ checking \in [Tabs -> BOOLEAN]
    /\ panel \in [Tabs -> Panel]

LEMMA Parts == TypeOK <=> ServerOK /\ RunOK /\ PageOK
  BY DEF TypeOK, ServerOK, RunOK, PageOK

LEMMA NextParts == ServerOK' /\ RunOK' /\ PageOK' => TypeOK'
  BY DEF TypeOK, ServerOK, RunOK, PageOK

-----------------------------------------------------------------------------
\* The inductive invariant.

\* A charge of run r for n pages is in the ledger.
Paid(r, n) == \E c \in 1..Len(charges) : charges[c].run = r /\ charges[c].pages = n

\* What a run has behind it, whatever became of its page: the charge is asked
\* for after the boxes are committed, the boxes of the last save are stored,
\* and a charge is for the pages of the click.
RunKept(r) ==
    /\ at[r] = "unused" => save[r] = "unsent" /\ bill[r] = "unsent" /\ ~live[r]
    /\ at[r] # "unused" => click[r].pages # 0
    /\ bill[r] # "unsent" => save[r] = "stored"
    /\ saver = r => save[r] = "stored" /\ click[r].boxes \subseteq stored
    /\ bill[r] \in {"charged", "read"} => Paid(r, click[r].pages)
    /\ at[r] = "token" => bill[r] = "read"

RunsKept == \A r \in Runs : RunKept(r)

\* PaidRunOpens, of one run.
Opens(r) ==
    /\ bill[r] = "read" => at[r] \in {"token", "shown", "gone"}
    /\ at[r] = "gone" => ~live[r]
    /\ live[r] /\ Running(r) =>
          /\ checking[TabOf(r)]
          /\ panel[TabOf(r)].run = 0
          /\ \A s \in Runs \ {r} :
                TabOf(s) = TabOf(r) => ~(live[s] /\ Running(s))

\* An open panel is that of a run of the tab that was shown, with the pages
\* it was charged for.
PanelKept ==
    \A t \in Tabs :
        panel[t].run # 0 => /\ at[panel[t].run] = "shown"
                            /\ TabOf(panel[t].run) = t
                            /\ Paid(panel[t].run, panel[t].pages)

IInv == TypeOK /\ RunsKept /\ PaidRunOpens /\ PanelKept

LEMMA OpensEach == PaidRunOpens <=> \A r \in Runs : Opens(r)
  BY DEF PaidRunOpens, Opens

LEMMA NextOpens == (\A r \in Runs : Opens(r)') => PaidRunOpens'
  BY DEF PaidRunOpens, Opens

LEMMA Constants ==
  /\ FallbackPages \in Pages /\ ProfilePages \in Pages
  /\ \A p \in Pages : p \in Nat /\ p # 0
  /\ 0 \notin Runs
  BY BoundsAssumption DEF Pages

LEMMA Empty ==
  /\ NoClick \in Click
  /\ NoPanel \in Panel /\ NoPanel.run = 0
  <1>1. NoClick \in Click
    BY BoundsAssumption DEF NoClick, Click
  <1>2. NoPanel \in Panel /\ NoPanel.run = 0
    BY DEF NoPanel, Panel
  <1> QED BY <1>1, <1>2

LEMMA InitIInv == Init => IInv
  <1> SUFFICES ASSUME Init PROVE IInv
    OBVIOUS
  <1>1. charges \in Seq(Charged) /\ Len(charges) = 0
    BY DEF Init
  <1>2. ServerOK
    BY <1>1, BoundsAssumption DEF Init, ServerOK
  <1>3. RunOK
    BY Empty DEF Init, RunOK
  <1>4. PageOK
    BY Empty DEF Init, PageOK
  <1>5. RunsKept
    BY Constants DEF Init, RunsKept, RunKept
  <1>6. PaidRunOpens
    BY DEF Init, PaidRunOpens, Running
  <1>7. PanelKept
    BY Empty DEF Init, PanelKept
  <1> QED BY <1>2, <1>3, <1>4, <1>5, <1>6, <1>7, Parts DEF IInv

\* The facts about a well-typed state that the steps use.
LEMMA Facts ==
  ASSUME TypeOK
  PROVE  /\ charges \in Seq(Charged) /\ Len(charges) \in Nat
         /\ \A r \in Runs : click[r] \in Click /\ TabOf(r) \in Tabs
         /\ \A t \in Tabs : panel[t] \in Panel
  <1>1. charges \in Seq(Charged) /\ Len(charges) \in Nat
    BY DEF TypeOK
  <1>2. ASSUME NEW r \in Runs PROVE click[r] \in Click /\ TabOf(r) \in Tabs
    <2>1. click[r] \in Click
      BY DEF TypeOK
    <2> QED BY <2>1 DEF Click, TabOf
  <1> QED BY <1>1, <1>2 DEF TypeOK

LEMMA PaidStays ==
  ASSUME UNCHANGED charges, NEW r, NEW n, Paid(r, n)
  PROVE  Paid(r, n)'
  BY DEF Paid

-----------------------------------------------------------------------------
\* Steps that leave the runs alone.

\* What every part of the invariant but the types reads.
rest == <<charges, stored, saver, save, bill, at, click, live, checking, panel>>

LEMMA RestStays ==
  ASSUME IInv, UNCHANGED rest
  PROVE  RunsKept' /\ PaidRunOpens' /\ PanelKept'
  <1>1. /\ charges' = charges /\ stored' = stored /\ saver' = saver /\ save' = save
        /\ bill' = bill /\ at' = at /\ click' = click /\ live' = live
        /\ checking' = checking /\ panel' = panel
    BY DEF rest
  <1>2. RunsKept'
    BY <1>1 DEF IInv, RunsKept, RunKept, Paid
  <1>3. PaidRunOpens'
    BY <1>1 DEF IInv, PaidRunOpens, Running, TabOf
  <1>4. PanelKept'
    BY <1>1 DEF IInv, PanelKept, Paid, TabOf
  <1> QED BY <1>2, <1>3, <1>4

LEMMA ArriveSteps ==
  ASSUME IInv, NEW t \in Tabs, Load(t) \/ Return(t)
  PROVE  IInv'
  <1>0. ServerOK /\ RunOK /\ PageOK
    BY Parts DEF IInv
  <1>1. /\ UNCHANGED <<wallet, table, requests, run, checking, panel>>
        /\ PageOK'
    BY <1>0 DEF Load, Return, PageOK, Panel
  <1>2. UNCHANGED rest
    BY <1>1 DEF rest, wallet, table, requests, run
  <1>3. ServerOK' /\ RunOK'
    BY <1>0, <1>1 DEF ServerOK, RunOK, wallet, table, requests, run
  <1> QED BY <1>1, <1>2, <1>3, NextParts, RestStays DEF IInv

\* The panel goes on, or is closed.
LEMMA ListenStep ==
  ASSUME IInv, NEW t \in Tabs, NEW new \in Panel, Listen(t, new),
         new.run = 0 \/ (new.run = panel[t].run /\ new.pages = panel[t].pages)
  PROVE  IInv'
  <1>0. ServerOK /\ RunOK /\ PageOK
    BY Parts DEF IInv
  <1>1. /\ panel' = [panel EXCEPT ![t] = new] /\ panel[t].run # 0
        /\ UNCHANGED <<wallet, table, requests, run, place, loaded, checking>>
    BY DEF Listen
  <1>2. /\ charges' = charges /\ stored' = stored /\ saver' = saver /\ save' = save
        /\ bill' = bill /\ at' = at /\ click' = click /\ live' = live
        /\ checking' = checking
    BY <1>1 DEF wallet, table, requests, run
  <1>3. ServerOK' /\ RunOK' /\ PageOK'
    <2>1. ServerOK'
      BY <1>0, <1>1 DEF ServerOK, wallet, table, requests
    <2>2. RunOK'
      BY <1>0, <1>2 DEF RunOK
    <2>3. PageOK'
      BY <1>0, <1>1 DEF PageOK, Panel
    <2> QED BY <2>1, <2>2, <2>3
  <1>4. RunsKept'
    BY <1>2 DEF IInv, RunsKept, RunKept, Paid
  <1>5. \A u \in Tabs : panel'[u] = IF u = t THEN new ELSE panel[u]
    BY <1>0, <1>1 DEF PageOK
  <1>6. PaidRunOpens'
    <2>1. \A u \in Tabs : panel[u].run = 0 => panel'[u].run = 0
      BY <1>5
    <2> QED BY <1>2, <2>1, Facts DEF IInv, PaidRunOpens, Running, TabOf
  <1>7. PanelKept'
    BY <1>2, <1>5 DEF IInv, PanelKept, Paid, TabOf
  <1> QED BY <1>3, <1>4, <1>6, <1>7, NextParts DEF IInv

LEMMA WatchSteps ==
  ASSUME IInv, NEW t \in Tabs, Watch(t)
  PROVE  IInv'
  <1>0. panel[t] \in Panel
    BY Facts DEF IInv
  <1>1. CASE PageMessage(t)
    <2> DEFINE new == [panel[t] EXCEPT !.answered = @ + 1]
    <2>1. Listen(t, new) /\ panel[t].answered < panel[t].pages
      BY <1>1 DEF PageMessage
    <2>2. panel[t].answered + 1 \in {0} \union Pages
      BY <1>0, <2>1, BoundsAssumption DEF Panel, Pages
    <2>3. new \in Panel /\ new.run = panel[t].run /\ new.pages = panel[t].pages
      BY <1>0, <2>2 DEF Panel
    <2> HIDE DEF new
    <2> QED BY <2>1, <2>3, ListenStep
  <1>2. CASE BatchComplete(t) \/ TriggerDownload(t) \/ DownloadEnds(t)
    <2>1. PICK d \in {"offered", "running"} : Listen(t, [panel[t] EXCEPT !.download = d])
      BY <1>2 DEF BatchComplete, TriggerDownload, DownloadEnds
    <2> DEFINE new == [panel[t] EXCEPT !.download = d]
    <2>2. new \in Panel /\ new.run = panel[t].run /\ new.pages = panel[t].pages
      BY <1>0 DEF Panel
    <2>3. Listen(t, new)
      BY <2>1
    <2> HIDE DEF new
    <2> QED BY <2>2, <2>3, ListenStep
  <1>3. CASE CloseBatchPanel(t)
    BY <1>3, Empty, ListenStep DEF CloseBatchPanel
  <1> QED BY <1>1, <1>2, <1>3 DEF Watch

-----------------------------------------------------------------------------
\* The server's steps, and the answers that ask for the next request: no run
\* ends and no page changes.

\* A run whose request advances, as far as its page is concerned.
LEMMA ServedOpens ==
  ASSUME IInv, NEW r \in Runs,
         UNCHANGED <<at, live, checking, panel>>,
         \A s \in Runs : TabOf(s)' = TabOf(s),
         \A s \in Runs : bill'[s] = "read" => bill[s] = "read"
  PROVE  PaidRunOpens'
  BY DEF IInv, PaidRunOpens, Running

LEMMA ServedPanel ==
  ASSUME IInv, UNCHANGED <<at, panel>>,
         \A s \in Runs : TabOf(s)' = TabOf(s),
         \A s, n : Paid(s, n) => Paid(s, n)'
  PROVE  PanelKept'
  <1>1. \A t \in Tabs : panel[t].run \in {0} \union Runs
    BY Facts DEF IInv, Panel
  <1> QED BY <1>1 DEF IInv, PanelKept

LEMMA SaveSteps ==
  ASSUME IInv, NEW r \in Runs, DeleteBoxes(r) \/ InsertBoxes(r) \/ SaveAnswered(r)
  PROVE  IInv'
  <1>0. ServerOK /\ RunOK /\ PageOK /\ click[r] \in Click /\ RunKept(r)
    BY Parts, Facts DEF IInv, RunsKept
  <1>1. /\ UNCHANGED <<balance, charges, at, live, place, loaded, checking, panel>>
        /\ \A s \in Runs : /\ click'[s].tab = click[s].tab
                           /\ click'[s].pages = click[s].pages
                           /\ click'[s].boxes = click[s].boxes
        /\ click' \in [Runs -> Click]
    <2>1. CASE DeleteBoxes(r)
      <3>1. [click[r] EXCEPT !.old = stored] \in Click
        BY <1>0 DEF Click, ServerOK
      <3>2. click' = [click EXCEPT ![r] = [click[r] EXCEPT !.old = stored]]
        BY <1>0, <2>1 DEF DeleteBoxes, RunOK
      <3> QED BY <1>0, <2>1, <3>1, <3>2 DEF DeleteBoxes, RunOK, Click, page, wallet
    <2>2. CASE InsertBoxes(r)
      <3>1. [click[r] EXCEPT !.old = {}] \in Click
        BY <1>0 DEF Click
      <3>2. click' = [click EXCEPT ![r] = [click[r] EXCEPT !.old = {}]]
        BY <1>0, <2>2 DEF InsertBoxes, RunOK
      <3> QED BY <1>0, <2>2, <3>1, <3>2 DEF InsertBoxes, RunOK, Click, page, wallet
    <2>3. CASE SaveAnswered(r)
      BY <1>0, <2>3 DEF SaveAnswered, RunOK, run, page, wallet
    <2> QED BY <2>1, <2>2, <2>3
  <1>2. ServerOK'
    BY <1>0, <1>1 DEF ServerOK, DeleteBoxes, InsertBoxes, SaveAnswered, table, Click
  <1>3. RunOK' /\ PageOK'
    BY <1>0, <1>1 DEF RunOK, PageOK, Panel
  <1>4. \A s, n : Paid(s, n) => Paid(s, n)'
    BY <1>1 DEF Paid
  <1>5. \A s \in Runs : TabOf(s)' = TabOf(s)
    BY <1>1 DEF TabOf
  <1>6. \A s \in Runs : bill'[s] = "read" => bill[s] = "read"
    BY <1>0 DEF ServerOK, DeleteBoxes, InsertBoxes, SaveAnswered
  <1>7. PaidRunOpens' /\ PanelKept'
    BY <1>1, <1>4, <1>5, <1>6, ServedOpens, ServedPanel
  <1>8. ASSUME NEW s \in Runs PROVE RunKept(s)'
    <2>0. RunKept(s)
      BY DEF IInv, RunsKept
    <2>1. CASE DeleteBoxes(r)
      BY <1>0, <1>1, <2>0, <2>1 DEF RunKept, DeleteBoxes, ServerOK, table, Paid
    <2>2. CASE InsertBoxes(r)
      <3>1. save' = [save EXCEPT ![r] = "stored"] /\ saver' = r
            /\ stored' = (stored \ click[r].old) \union click[r].boxes /\ bill' = bill
            /\ save[r] = "deleted"
        BY <2>2 DEF InsertBoxes
      <3> QED BY <1>0, <1>1, <2>0, <3>1 DEF RunKept, ServerOK, Paid
    <2>3. CASE SaveAnswered(r)
      BY <1>0, <1>1, <2>0, <2>3 DEF RunKept, SaveAnswered, ServerOK, table, Paid
    <2> QED BY <2>1, <2>2, <2>3
  <1> QED BY <1>2, <1>3, <1>7, <1>8, NextParts DEF IInv, RunsKept

LEMMA ChargeStep ==
  ASSUME IInv, NEW r \in Runs, Charge(r)
  PROVE  IInv'
  <1> DEFINE n == Len(charges) + 1
             new == [run |-> r, pages |-> click[r].pages, after |-> balance']
  <1>0. /\ ServerOK /\ RunOK /\ PageOK /\ click[r] \in Click /\ charges \in Seq(Charged)
        /\ RunKept(r)
    BY Parts, Facts DEF IInv, RunsKept
  <1>1. /\ bill[r] = "sent" /\ balance >= click[r].pages
        /\ balance' = balance - click[r].pages /\ charges' = Append(charges, new)
        /\ bill' = [bill EXCEPT ![r] = "charged"]
        /\ UNCHANGED <<stored, saver, save, at, click, live, place, loaded, checking, panel>>
    BY DEF Charge, table, run, page
  <1>2. click[r].pages \in Pages
    BY <1>0, <1>1 DEF RunKept, Click
  <1>3. balance' \in 0..FirstBalance
    <2>1. click[r].pages \in Nat /\ balance \in 0..FirstBalance /\ FirstBalance \in Nat
      BY <1>0, <1>2, Constants, BoundsAssumption DEF ServerOK
    <2> QED BY <1>1, <2>1
  <1>4. new \in Charged /\ new.run = r /\ new.pages = click[r].pages
    BY <1>2, <1>3 DEF Charged
  <1> HIDE DEF new
  <1>5. /\ charges' \in Seq(Charged) /\ Len(charges') = n /\ Len(charges) \in Nat
        /\ \A c \in 1..Len(charges) : charges'[c] = charges[c]
        /\ charges'[n] = new
    BY <1>0, <1>1, <1>4
  <1>6. ServerOK' /\ RunOK' /\ PageOK'
    <2>1. ServerOK'
      BY <1>0, <1>1, <1>3, <1>5 DEF ServerOK
    <2>2. RunOK' /\ PageOK'
      BY <1>0, <1>1 DEF RunOK, PageOK, Panel
    <2> QED BY <2>1, <2>2
  <1>7. \A s, m : Paid(s, m) => Paid(s, m)'
    <2>1. \A c \in 1..Len(charges) : c \in 1..Len(charges') /\ charges'[c] = charges[c]
      BY <1>5
    <2> QED BY <2>1 DEF Paid
  <1>8. Paid(r, click[r].pages)'
    <2>1. n \in 1..Len(charges')
      BY <1>5
    <2> QED BY <1>1, <1>4, <1>5, <2>1 DEF Paid
  <1>9. \A s \in Runs : TabOf(s)' = TabOf(s)
    BY <1>1 DEF TabOf
  <1>10. PaidRunOpens' /\ PanelKept'
    BY <1>0, <1>1, <1>7, <1>9, ServedOpens, ServedPanel DEF ServerOK
  <1>11. ASSUME NEW s \in Runs PROVE RunKept(s)'
    <2>0. RunKept(s)
      BY DEF IInv, RunsKept
    <2>1. Paid(s, click[s].pages) => Paid(s, click[s].pages)'
      BY <1>1, <1>7
    <2>2. CASE s = r
      BY <1>0, <1>1, <1>8, <2>0, <2>2 DEF RunKept, ServerOK
    <2>3. CASE s # r
      BY <1>0, <1>1, <2>0, <2>1, <2>3 DEF RunKept, ServerOK
    <2> QED BY <2>2, <2>3
  <1> QED BY <1>6, <1>10, <1>11, NextParts DEF IInv, RunsKept

LEMMA ChargeAnsweredStep ==
  ASSUME IInv, NEW r \in Runs, ChargeAnswered(r)
  PROVE  IInv'
  <1>0. ServerOK /\ RunOK /\ PageOK
    BY Parts DEF IInv
  <1>1. /\ at[r] = "waiting" /\ bill[r] = "charged"
        /\ bill' = [bill EXCEPT ![r] = "read"] /\ at' = [at EXCEPT ![r] = "token"]
        /\ UNCHANGED <<balance, charges, stored, saver, save, click, live,
                       place, loaded, checking, panel>>
    BY DEF ChargeAnswered, wallet, table, page
  <1>2. ServerOK' /\ RunOK' /\ PageOK'
    <2>1. ServerOK'
      BY <1>0, <1>1 DEF ServerOK
    <2>2. RunOK' /\ PageOK'
      BY <1>0, <1>1 DEF RunOK, PageOK, Panel
    <2> QED BY <2>1, <2>2
  <1>3. ASSUME NEW s \in Runs PROVE RunKept(s)'
    <2>0. RunKept(s)
      BY DEF IInv, RunsKept
    <2> QED BY <1>0, <1>1, <2>0 DEF RunKept, ServerOK, RunOK, Paid
  <1>4. \A s \in Runs : Running(s)' <=> Running(s)
    BY <1>0, <1>1 DEF Running, RunOK
  <1>5. \A s \in Runs : TabOf(s)' = TabOf(s)
    BY <1>1 DEF TabOf
  <1>6. ASSUME NEW s \in Runs PROVE Opens(s)'
    <2>0. Opens(s)
      BY OpensEach DEF IInv
    <2>1. /\ bill'[s] = "read" => at'[s] \in {"token", "shown", "gone"}
          /\ at'[s] = "gone" => ~live'[s]
      BY <1>0, <1>1, <2>0 DEF Opens, ServerOK, RunOK
    <2> QED BY <1>1, <1>4, <1>5, <2>0, <2>1 DEF Opens
  <1>7. PanelKept'
    <2>1. ASSUME NEW t \in Tabs, panel[t].run # 0
          PROVE  at'[panel[t].run] = "shown" /\ TabOf(panel[t].run)' = t
      <3>1. panel[t].run \in Runs
        BY <2>1, Facts DEF IInv, Panel
      <3> QED BY <1>0, <1>1, <1>5, <2>1, <3>1 DEF IInv, PanelKept, RunOK
    <2> QED BY <1>1, <2>1 DEF IInv, PanelKept, Paid
  <1> QED BY <1>2, <1>3, <1>6, <1>7, NextParts, NextOpens DEF IInv, RunsKept

-----------------------------------------------------------------------------
\* The click.

LEMMA ClickStep ==
  ASSUME IInv, NEW t \in Tabs, NEW r \in Runs, ClickFull(t, r)
  PROVE  IInv'
  <1>0. ServerOK /\ RunOK /\ PageOK /\ RunKept(r)
    BY Parts DEF IInv, RunsKept
  <1>1. PICK boxes \in {{}, {r}} :
           click' = [click EXCEPT ![r] = [tab |-> t, pages |-> DefaultPages(t),
                                          boxes |-> boxes, old |-> {}]]
    BY DEF ClickFull
  <1> DEFINE new == [tab |-> t, pages |-> DefaultPages(t), boxes |-> boxes, old |-> {}]
  <1>2. new \in Click /\ new.tab = t /\ new.pages # 0
    BY Constants DEF Click, DefaultPages
  <1> HIDE DEF new
  <1>3. /\ at[r] = "unused" /\ panel[t].run = 0 /\ ~checking[t]
        /\ checking' = [checking EXCEPT ![t] = TRUE]
        /\ at' = [at EXCEPT ![r] = "waiting"] /\ live' = [live EXCEPT ![r] = TRUE]
        /\ click' = [click EXCEPT ![r] = new] /\ save' = [save EXCEPT ![r] = "sent"]
        /\ UNCHANGED <<balance, charges, stored, saver, bill, place, loaded, panel>>
    BY <1>1 DEF ClickFull, wallet, table, new
  <1>4. save[r] = "unsent" /\ bill[r] = "unsent" /\ ~live[r] /\ saver # r
    BY <1>0, <1>3 DEF RunKept
  <1>5. ServerOK' /\ RunOK' /\ PageOK'
    <2>1. ServerOK'
      BY <1>0, <1>3 DEF ServerOK
    <2>2. RunOK'
      BY <1>0, <1>2, <1>3 DEF RunOK
    <2>3. PageOK'
      BY <1>0, <1>3 DEF PageOK, Panel
    <2> QED BY <2>1, <2>2, <2>3
  <1>6. ASSUME NEW s \in Runs PROVE RunKept(s)'
    <2>0. RunKept(s)
      BY DEF IInv, RunsKept
    <2>1. CASE s = r
      BY <1>0, <1>2, <1>3, <1>4, <2>1 DEF RunKept, ServerOK, RunOK
    <2>2. CASE s # r
      BY <1>0, <1>3, <2>0, <2>2 DEF RunKept, ServerOK, RunOK, Paid
    <2> QED BY <2>1, <2>2
  <1>7. \A s \in Runs \ {r} : /\ at'[s] = at[s] /\ live'[s] = live[s]
                              /\ TabOf(s)' = TabOf(s)
    BY <1>0, <1>3 DEF RunOK, TabOf
  <1>8. TabOf(r)' = t /\ at'[r] = "waiting" /\ checking'[t] /\ panel' = panel
    BY <1>0, <1>2, <1>3 DEF RunOK, PageOK, TabOf
  <1>9. \A s \in Runs : live[s] /\ Running(s) => TabOf(s) # t
    BY <1>3 DEF IInv, PaidRunOpens
  <1>10. ASSUME NEW s \in Runs PROVE Opens(s)'
    <2>0. Opens(s) /\ TabOf(s) \in Tabs
      BY OpensEach, Facts DEF IInv
    <2>1. CASE s = r
      <3>1. \A u \in Runs \ {r} : TabOf(u)' = t => ~(live'[u] /\ Running(u)')
        BY <1>7, <1>9 DEF Running
      <3> QED BY <1>3, <1>4, <1>8, <2>1, <3>1 DEF Opens
    <2>2. CASE s # r
      <3>1. bill'[s] = bill[s] /\ (Running(s)' <=> Running(s))
        BY <1>3, <1>7, <2>2 DEF Running
      <3>2. ASSUME live[s], Running(s)
            PROVE  /\ checking'[TabOf(s)] /\ panel'[TabOf(s)].run = 0
                   /\ \A u \in Runs \ {s} :
                         TabOf(u)' = TabOf(s) => ~(live'[u] /\ Running(u)')
        <4>1. TabOf(s) # t
          BY <1>9, <3>2
        <4>2. checking'[TabOf(s)] /\ panel'[TabOf(s)].run = 0
          BY <1>0, <1>3, <2>0, <3>2, <4>1 DEF Opens, PageOK
        <4>3. ASSUME NEW u \in Runs \ {s}, TabOf(u)' = TabOf(s)
              PROVE  ~(live'[u] /\ Running(u)')
          <5>1. u # r
            BY <1>8, <4>1, <4>3
          <5> QED BY <1>7, <2>0, <3>2, <4>3, <5>1 DEF Opens, Running
        <4> QED BY <4>2, <4>3
      <3>3. TabOf(s)' = TabOf(s) /\ live'[s] = live[s] /\ at'[s] = at[s]
        BY <1>7, <2>2
      <3> QED BY <2>0, <3>1, <3>2, <3>3 DEF Opens
    <2> QED BY <2>1, <2>2
  <1>11. PanelKept'
    <2>1. ASSUME NEW u \in Tabs, panel[u].run # 0
          PROVE  at'[panel[u].run] = "shown" /\ click'[panel[u].run].tab = u
      <3>1. panel[u].run \in Runs /\ panel[u].run # r
        BY <1>3, <2>1, Facts DEF IInv, Panel, PanelKept
      <3>2. click'[panel[u].run] = click[panel[u].run]
        BY <1>0, <1>3, <3>1 DEF RunOK
      <3> QED BY <1>7, <2>1, <3>1, <3>2 DEF IInv, PanelKept, TabOf
    <2> QED BY <1>3, <2>1 DEF IInv, PanelKept, Paid, TabOf
  <1> QED BY <1>5, <1>6, <1>10, <1>11, NextParts, NextOpens DEF IInv, RunsKept

-----------------------------------------------------------------------------
\* The end of a run, and of a page.

\* Run r ends as `end`; its tab shows `new`, which is what it showed or, if the
\* page of the run is mounted, its panel.
LEMMA EndStep ==
  ASSUME IInv, NEW r \in Runs, NEW end \in {"shown", "failed", "gone"},
         Running(r), Finish(r, end), PageOK', UNCHANGED panel \/ end = "shown",
         end = "failed" => bill[r] # "read",
         end = "gone" => ~live[r],
         end = "shown" =>
            /\ live[r] /\ at[r] = "token"
            /\ \E p \in Panel : /\ p.run = r /\ p.pages = click[r].pages
                                /\ panel' = [panel EXCEPT ![TabOf(r)] = p]
  PROVE  IInv'
  <1> DEFINE t == TabOf(r)
  <1>0. ServerOK /\ RunOK /\ PageOK /\ RunKept(r) /\ t \in Tabs
    BY Parts, Facts DEF IInv, RunsKept
  <1>1. /\ at' = [at EXCEPT ![r] = end]
        /\ checking' = [checking EXCEPT ![t] = checking[t] /\ ~live[r]]
        /\ UNCHANGED <<balance, charges, stored, saver, save, bill, click, live, loaded>>
    BY DEF Finish, wallet, table, requests
  <1> HIDE DEF t
  <1>2. ServerOK' /\ RunOK'
    <2>1. ServerOK'
      BY <1>0, <1>1 DEF ServerOK
    <2>2. RunOK'
      BY <1>0, <1>1 DEF RunOK
    <2> QED BY <2>1, <2>2
  <1>3. ASSUME NEW s \in Runs PROVE RunKept(s)'
    <2>0. RunKept(s)
      BY DEF IInv, RunsKept
    <2>1. at'[s] = (IF s = r THEN end ELSE at[s]) /\ (at[s] = "unused" => s # r)
      BY <1>0, <1>1 DEF RunOK, Running
    <2>2. CASE s = r
      BY <1>0, <1>1, <2>1, <2>2 DEF RunKept, Running, Paid
    <2>3. CASE s # r
      BY <1>1, <2>0, <2>1, <2>3 DEF RunKept, Paid
    <2> QED BY <2>2, <2>3
  <1>4. \A s \in Runs : /\ TabOf(s)' = TabOf(s)
                        /\ Running(s)' <=> s # r /\ Running(s)
                        /\ at'[s] = IF s = r THEN end ELSE at[s]
    BY <1>0, <1>1 DEF TabOf, Running, RunOK
  \* The page of another run under way is not the page of r.
  <1>5. ASSUME NEW s \in Runs \ {r}, live[s], Running(s)
        PROVE  /\ checking'[TabOf(s)] /\ panel'[TabOf(s)].run = 0
    <2>0. Opens(s) /\ TabOf(s) \in Tabs
      BY OpensEach, Facts DEF IInv
    <2>1. checking[TabOf(s)] /\ panel[TabOf(s)].run = 0
      BY <1>5, <2>0 DEF Opens
    <2>2. live[r] => TabOf(s) # t
      BY <1>5, <2>0 DEF Opens, t
    <2>3. checking'[TabOf(s)]
      BY <1>0, <1>1, <2>0, <2>1, <2>2 DEF PageOK
    <2>4. CASE end = "shown"
      <3>1. PICK p \in Panel : panel' = [panel EXCEPT ![t] = p]
        BY <2>4 DEF t
      <3> QED BY <1>0, <2>0, <2>1, <2>2, <2>3, <2>4, <3>1 DEF PageOK
    <2>5. CASE end # "shown"
      BY <2>1, <2>3, <2>5
    <2> QED BY <2>4, <2>5
  <1>6. ASSUME NEW s \in Runs PROVE Opens(s)'
    <2>0. Opens(s) /\ RunKept(s)
      BY OpensEach DEF IInv, RunsKept
    <2>1. /\ bill'[s] = "read" => at'[s] \in {"token", "shown", "gone"}
          /\ at'[s] = "gone" => ~live'[s]
      BY <1>1, <1>4, <2>0 DEF Opens
    <2>2. ASSUME live'[s], Running(s)'
          PROVE  /\ checking'[TabOf(s)] /\ panel'[TabOf(s)].run = 0
                 /\ \A u \in Runs \ {s} : TabOf(u)' = TabOf(s)' => ~(live'[u] /\ Running(u)')
      <3>1. s \in Runs \ {r} /\ live[s] /\ Running(s)
        BY <1>1, <1>4, <2>2
      <3>2. checking'[TabOf(s)] /\ panel'[TabOf(s)].run = 0
        BY <1>5, <3>1
      <3>3. \A u \in Runs \ {s} : TabOf(u)' = TabOf(s)' => ~(live'[u] /\ Running(u)')
        BY <1>1, <1>4, <2>0, <3>1 DEF Opens
      <3> QED BY <3>2, <3>3
    <2>3. TabOf(s)' = TabOf(s)
      BY <1>4
    <2> QED BY <2>1, <2>2, <2>3 DEF Opens
  <1>7. PanelKept'
    <2>1. ASSUME NEW u \in Tabs, panel[u].run # 0
          PROVE  /\ at'[panel[u].run] = "shown" /\ click[panel[u].run].tab = u
                 /\ Paid(panel[u].run, panel[u].pages)
      <3>1. panel[u].run \in Runs /\ panel[u].run # r
        BY <2>1, Facts DEF IInv, Panel, PanelKept, Running
      <3>2. at'[panel[u].run] = at[panel[u].run]
        BY <1>4, <3>1
      <3> QED BY <2>1, <3>2 DEF IInv, PanelKept, TabOf
    <2>0. charges' = charges /\ click' = click
      BY <1>1
    <2>2. CASE end # "shown"
      <3>1. panel' = panel
        BY <2>2
      <3> QED BY <2>0, <2>1, <3>1 DEF PanelKept, Paid, TabOf
    <2>3. CASE end = "shown"
      <3>1. PICK p \in Panel : /\ p.run = r /\ p.pages = click[r].pages
                               /\ panel' = [panel EXCEPT ![t] = p]
        BY <2>3 DEF t
      <3>2. bill[r] = "read" /\ Paid(r, click[r].pages)
        BY <1>0, <2>3 DEF RunKept
      <3>3. at'[r] = "shown" /\ click'[r].tab = t /\ Paid(r, click[r].pages)
        BY <1>1, <1>4, <2>3, <3>2 DEF t, TabOf
      <3>4. \A u \in Tabs : panel'[u] = IF u = t THEN p ELSE panel[u]
        BY <1>0, <3>1 DEF PageOK
      <3>5. charges' = charges /\ click' = click
        BY <1>1
      <3> QED BY <2>1, <3>1, <3>3, <3>4, <3>5 DEF PanelKept, Paid, TabOf
    <2> QED BY <2>2, <2>3
  <1> QED BY <1>2, <1>3, <1>6, <1>7, NextParts, NextOpens DEF IInv, RunsKept

\* The record of a panel that has just opened.
LEMMA WaitsRecord ==
  ASSUME NEW r \in Runs, NEW p \in Pages
  PROVE  Waits(r, p) \in Panel /\ Waits(r, p).run = r /\ Waits(r, p).pages = p
  BY DEF Waits, NoPanel, Panel

LEMMA FinishPage ==
  ASSUME PageOK, NEW r \in Runs, NEW end, Finish(r, end), TabOf(r) \in Tabs,
         UNCHANGED panel \/ (\E p \in Panel : panel' = [panel EXCEPT ![TabOf(r)] = p]),
         place' \in [Tabs -> {"dashboard", "leaving", "elsewhere"}]
  PROVE  PageOK'
  <1> DEFINE t == TabOf(r)
  <1>1. checking' = [checking EXCEPT ![t] = checking[t] /\ ~live[r]] /\ loaded' = loaded
    BY DEF Finish
  <1>2. PICK flag \in BOOLEAN : flag = (checking[t] /\ ~live[r])
    OBVIOUS
  <1>3. checking' = [checking EXCEPT ![t] = flag]
    BY <1>1, <1>2
  <1>4. checking' \in [Tabs -> BOOLEAN]
    BY <1>3 DEF PageOK
  <1>5. Panel' = Panel /\ panel' \in [Tabs -> Panel]
    BY DEF PageOK, Panel
  <1> QED BY <1>1, <1>4, <1>5 DEF PageOK

LEMMA EndSteps ==
  ASSUME IInv, NEW r \in Runs, OpenPanel(r) \/ OpenNothing(r) \/ Fail(r) \/ Refuse(r)
  PROVE  IInv'
  <1>0. ServerOK /\ RunOK /\ PageOK /\ RunKept(r) /\ Opens(r) /\ TabOf(r) \in Tabs
        /\ click[r] \in Click
    BY Parts, Facts, OpensEach DEF IInv, RunsKept
  <1>1. CASE OpenPanel(r)
    <2>1. /\ at[r] = "token" /\ live[r] /\ Finish(r, "shown") /\ place' = place
          /\ panel' = [panel EXCEPT ![TabOf(r)] = Waits(r, click[r].pages)]
      BY <1>1 DEF OpenPanel
    <2>2. click[r].pages \in Pages
      BY <1>0, <2>1 DEF RunKept, Click
    <2>3. \E p \in Panel : /\ p.run = r /\ p.pages = click[r].pages
                           /\ panel' = [panel EXCEPT ![TabOf(r)] = p]
      BY <2>1, <2>2, WaitsRecord
    <2>4. place' \in [Tabs -> {"dashboard", "leaving", "elsewhere"}]
      BY <1>0, <2>1 DEF PageOK
    <2>5. PageOK'
      BY <1>0, <2>1, <2>3, <2>4, FinishPage
    <2>6. Running(r)
      BY <2>1 DEF Running
    <2> QED BY <2>1, <2>3, <2>5, <2>6, EndStep
  <1>2. CASE OpenNothing(r)
    <2>1. at[r] = "token" /\ ~live[r] /\ Finish(r, "gone") /\ UNCHANGED <<place, panel>>
      BY <1>2 DEF OpenNothing
    <2>2. PageOK'
      BY <1>0, <2>1, FinishPage DEF PageOK
    <2>3. Running(r)
      BY <2>1 DEF Running
    <2> QED BY <2>1, <2>2, <2>3, EndStep
  <1>3. CASE Fail(r) \/ Refuse(r)
    <2>1. at[r] = "waiting" /\ Finish(r, "failed") /\ UNCHANGED panel
      BY <1>3 DEF Fail, Refuse
    <2>2. place' \in [Tabs -> {"dashboard", "leaving", "elsewhere"}]
      BY <1>0, <1>3 DEF Fail, Refuse, PageOK
    <2>3. PageOK'
      BY <1>0, <2>1, <2>2, FinishPage
    <2>4. Running(r) /\ bill[r] # "read"
      BY <1>0, <2>1 DEF Running, Opens
    <2> QED BY <2>1, <2>3, <2>4, EndStep
  <1> QED BY <1>1, <1>2, <1>3

LEMMA LeaveSteps ==
  ASSUME IInv, NEW t \in Tabs, Navigate(t) \/ Unload(t)
  PROVE  IInv'
  <1>0. ServerOK /\ RunOK /\ PageOK
    BY Parts DEF IInv
  <1>1. Unmount(t)
    BY DEF Navigate, Unload
  <1>2. /\ live' = [r \in Runs |-> live[r] /\ TabOf(r) # t]
        /\ checking' = [checking EXCEPT ![t] = FALSE] /\ panel' = [panel EXCEPT ![t] = NoPanel]
        /\ UNCHANGED <<balance, charges, stored, saver, save, bill, click>>
    BY <1>1 DEF Unmount, wallet, table, requests
  <1>3. \A r \in Runs : \/ at'[r] = at[r]
                        \/ TabOf(r) = t /\ Running(r) /\ at'[r] = "gone"
    BY DEF Navigate, Unload, Running
  <1>4. ServerOK' /\ RunOK' /\ PageOK'
    <2>1. ServerOK'
      BY <1>0, <1>2 DEF ServerOK
    <2>2. at' \in [Runs -> {"unused", "waiting", "token", "shown", "failed", "gone"}]
      BY <1>0 DEF RunOK, Navigate, Unload
    <2>3. live' \in [Runs -> BOOLEAN]
      <3>1. \A r \in Runs : (live[r] /\ TabOf(r) # t) \in BOOLEAN
        OBVIOUS
      <3> QED BY <1>2, <3>1
    <2>4. RunOK'
      BY <1>0, <1>2, <2>2, <2>3 DEF RunOK
    <2>5. PageOK'
      BY <1>0, <1>1, Empty DEF PageOK, Unmount, Panel
    <2> QED BY <2>1, <2>4, <2>5
  <1>5. \A r \in Runs : TabOf(r)' = TabOf(r) /\ (live'[r] <=> live[r] /\ TabOf(r) # t)
    BY <1>2 DEF TabOf
  <1>6. ASSUME NEW r \in Runs PROVE RunKept(r)'
    <2>0. RunKept(r)
      BY DEF IInv, RunsKept
    <2>1. charges' = charges /\ click' = click /\ save' = save /\ bill' = bill
          /\ saver' = saver /\ stored' = stored
      BY <1>2
    <2>2. at'[r] = at[r] \/ (at[r] # "unused" /\ at'[r] = "gone")
      BY <1>3 DEF Running
    <2> QED BY <1>5, <2>0, <2>1, <2>2 DEF RunKept, Paid
  <1>7. ASSUME NEW r \in Runs PROVE Opens(r)'
    <2>0. Opens(r) /\ TabOf(r) \in Tabs /\ bill' = bill
      BY <1>2, OpensEach, Facts DEF IInv
    <2>1. /\ bill'[r] = "read" => at'[r] \in {"token", "shown", "gone"}
          /\ at'[r] = "gone" => ~live'[r]
      BY <1>3, <1>5, <2>0 DEF Opens
    <2>2. ASSUME live'[r], Running(r)'
          PROVE  /\ checking'[TabOf(r)] /\ panel'[TabOf(r)].run = 0
                 /\ \A u \in Runs \ {r} : TabOf(u)' = TabOf(r)' => ~(live'[u] /\ Running(u)')
      <3>1. TabOf(r) # t /\ live[r] /\ Running(r)
        BY <1>3, <1>5, <2>2 DEF Running
      <3>2. checking[TabOf(r)] /\ panel[TabOf(r)].run = 0
        BY <2>0, <3>1 DEF Opens
      <3>3. checking'[TabOf(r)] /\ panel'[TabOf(r)].run = 0
        BY <1>0, <1>2, <2>0, <3>1, <3>2 DEF PageOK
      <3>4. \A u \in Runs \ {r} : TabOf(u)' = TabOf(r)' => ~(live'[u] /\ Running(u)')
        <4>1. \A u \in Runs : Running(u)' => Running(u)
          BY <1>3 DEF Running
        <4> QED BY <1>5, <2>0, <3>1, <4>1 DEF Opens
      <3> QED BY <3>3, <3>4
    <2>3. TabOf(r)' = TabOf(r)
      BY <1>5
    <2> QED BY <2>1, <2>2, <2>3 DEF Opens
  <1>8. PanelKept'
    <2>1. \A u \in Tabs : panel'[u] = IF u = t THEN NoPanel ELSE panel[u]
      BY <1>0, <1>2 DEF PageOK
    <2>2. ASSUME NEW u \in Tabs \ {t}, panel[u].run # 0
          PROVE  /\ at'[panel[u].run] = "shown"
      <3>1. panel[u].run \in Runs /\ at[panel[u].run] = "shown"
        BY <2>2, Facts DEF IInv, Panel, PanelKept
      <3> QED BY <1>3, <3>1 DEF Running
    <2>3. click' = click /\ charges' = charges
      BY <1>2
    <2> QED BY <2>1, <2>2, <2>3, Empty DEF IInv, PanelKept, TabOf, Paid
  <1> QED BY <1>4, <1>6, <1>7, <1>8, NextParts, NextOpens DEF IInv, RunsKept

LEMMA NextIInv == IInv /\ [Next]_vars => IInv'
  <1> SUFFICES ASSUME IInv, [Next]_vars PROVE IInv'
    OBVIOUS
  <1>1. CASE UNCHANGED vars
    <2>1. UNCHANGED rest
      BY <1>1 DEF vars, wallet, table, requests, run, page, rest
    <2>2. TypeOK'
      BY <1>1 DEF IInv, vars, wallet, table, requests, run, page, TypeOK, Panel
    <2> QED BY <2>1, <2>2, RestStays DEF IInv
  <1>2. ASSUME NEW r \in Runs, Serve(r) \/ Proceed(r) \/ Fail(r)
        PROVE  IInv'
    BY <1>2, SaveSteps, ChargeStep, ChargeAnsweredStep, EndSteps DEF Serve, Proceed
  <1>3. ASSUME NEW t \in Tabs, Browse(t) \/ Watch(t) \/ \E r \in Runs : ClickFull(t, r)
        PROVE  IInv'
    BY <1>3, ClickStep, ArriveSteps, LeaveSteps, WatchSteps DEF Browse
  <1> QED BY <1>1, <1>2, <1>3 DEF Next

\* The inductive invariant: what a run under way owes and has stored, whatever
\* became of its page.
THEOREM Invariance == Spec => []IInv
  BY InitIInv, NextIInv, PTL DEF Spec

\* The types; the wallet in particular is never below zero.
THEOREM TypeCorrect == Spec => []TypeOK
  <1>1. IInv => TypeOK
    BY DEF IInv
  <1> QED BY <1>1, Invariance, PTL

\* A run that has read its charge misses its panel only with its page, and on
\* a page that is mounted it is alone.
THEOREM PaidOpens == Spec => []PaidRunOpens
  <1>1. IInv => PaidRunOpens
    BY DEF IInv
  <1> QED BY <1>1, Invariance, PTL

\* The panel waits for the pages that were paid for, whatever the profile
\* answers and whenever.
THEOREM PanelHolds == Spec => []PanelShowsTheChargedRun
  <1>1. IInv => PanelShowsTheChargedRun
    BY DEF IInv, PanelKept, PanelShowsTheChargedRun, Paid
  <1> QED BY <1>1, Invariance, PTL

\* No charge before the run's own boxes are committed, nor for boxes that are
\* not stored, unless the save of another run came after.
THEOREM ContentHolds == Spec => PaidContentIsStored
  <1>1. IInv /\ [Next]_vars =>
          [\A r \in Runs :
             Charge(r) => /\ save[r] = "stored"
                          /\ click[r].boxes \subseteq stored \/ saver # r]_vars
    <2> SUFFICES ASSUME IInv, NEW r \in Runs, Charge(r)
                 PROVE  /\ save[r] = "stored"
                        /\ click[r].boxes \subseteq stored \/ saver # r
      OBVIOUS
    <2>1. bill[r] = "sent"
      BY DEF Charge
    <2> QED BY <2>1 DEF IInv, RunsKept, RunKept
  <1> QED BY <1>1, Invariance, PTL DEF Spec, PaidContentIsStored
-----------------------------------------------------------------------------
\* The abstract wallet.

absBalance == [w \in {"publisher"} |-> balance]
absLedger == [w \in {"publisher"} |-> Posted]

LEMMA OpeningType ==
  /\ Opening \in Seq(Wallet!Entry) /\ Wallet!Opened(FirstBalance, Opening)
  /\ FirstBalance \in Nat
  <1>1. CASE FirstBalance = 0
    BY <1>1 DEF Opening, Wallet!Opened
  <1>2. CASE FirstBalance # 0
    <2> DEFINE e == [type |-> "CREDIT", amount |-> FirstBalance, after |-> FirstBalance,
                     by |-> "server"]
    <2>1. FirstBalance \in Nat /\ FirstBalance > 0
      BY <1>2, BoundsAssumption
    <2>2. e \in Wallet!Entry /\ e.amount = FirstBalance /\ e.after = FirstBalance
      BY <2>1 DEF Wallet!Entry
    <2>3. Opening = <<e>>
      BY <1>2 DEF Opening
    <2> HIDE DEF e
    <2> QED BY <2>1, <2>2, <2>3 DEF Wallet!Opened
  <1> QED BY <1>1, <1>2, BoundsAssumption

LEMMA InitMaps == Init => Wallet!Init
  <1> SUFFICES ASSUME Init PROVE Wallet!Init
    OBVIOUS
  <1>1. Posted = Opening
    <2>1. charges = <<>> /\ Len(charges) = 0
      BY DEF Init
    <2>2. [c \in 1..Len(charges) |-> EntryOf(charges[c])] = <<>>
      BY <2>1
    <2>3. Posted = Opening \o <<>>
      BY <2>2 DEF Posted
    <2>4. \A l \in Seq(Wallet!Entry) : l \o <<>> = l
      OBVIOUS
    <2> QED BY <2>3, <2>4, OpeningType
  <1>2. absBalance \in [{"publisher"} -> Int]
    BY OpeningType DEF Init, absBalance
  <1>3. absLedger \in [{"publisher"} -> Seq(Wallet!Entry)]
    BY <1>1, OpeningType DEF absLedger
  <1>4. \A a \in {"publisher"} : Wallet!Opened(absBalance[a], absLedger[a])
    BY <1>1, OpeningType DEF Init, absBalance, absLedger
  <1> QED BY <1>2, <1>3, <1>4 DEF Wallet!Init, absBalance, absLedger

\* A step that leaves the wallet and what the charges say of it alone.
LEMMA LedgerStays ==
  ASSUME UNCHANGED balance, Len(charges') = Len(charges),
         \A c \in 1..Len(charges) : /\ charges'[c].pages = charges[c].pages
                                    /\ charges'[c].after = charges[c].after
  PROVE  UNCHANGED Wallet!vars
  <1>1. \A c \in 1..Len(charges) : EntryOf(charges'[c]) = EntryOf(charges[c])
    BY DEF EntryOf
  <1>2. [c \in 1..Len(charges') |-> EntryOf(charges'[c])]
          = [c \in 1..Len(charges) |-> EntryOf(charges[c])]
    BY <1>1
  <1>3. Posted' = Posted
    BY <1>2 DEF Posted, Opening
  <1> QED BY <1>3 DEF Wallet!vars

\* A charge posts its entry.
LEMMA ChargeMaps ==
  ASSUME IInv, NEW r \in Runs, Charge(r)
  PROVE  Wallet!Next
  <1> DEFINE new == [run |-> r, pages |-> click[r].pages, after |-> balance']
             old == [c \in 1..Len(charges) |-> EntryOf(charges[c])]
             next == [c \in 1..Len(charges') |-> EntryOf(charges'[c])]
             e == EntryOf(new)
  <1>1. /\ balance \in 0..FirstBalance /\ balance' = balance - click[r].pages
        /\ balance >= click[r].pages /\ click[r].pages \in Nat
        /\ charges' = Append(charges, new) /\ charges \in Seq(Charged) /\ Len(charges) \in Nat
    <2>1. click[r].pages \in Nat
      BY Facts, Constants DEF IInv, Click
    <2> QED BY <2>1, Facts DEF IInv, TypeOK, Charge
  <1>2. /\ balance' \in Nat /\ balance \in Int /\ -click[r].pages = balance' - balance
    BY <1>1, BoundsAssumption
  <1>3. e = [type |-> "GENERATION_CHARGE", amount |-> balance' - balance, after |-> balance',
             by |-> "server"]
    BY <1>2 DEF EntryOf
  <1>4. Len(charges') = Len(charges) + 1 /\ charges'[Len(charges) + 1] = new
        /\ \A c \in 1..Len(charges) : charges'[c] = charges[c]
    <2> HIDE DEF new
    <2> QED BY <1>1
  <1> HIDE DEF new, e
  <1>5. next = Append(old, e)
    <2>1. Len(old) = Len(charges)
      BY <1>1
    <2>2. \A c \in 1..(Len(charges) + 1) :
             EntryOf(charges'[c]) = IF c = Len(charges) + 1 THEN e ELSE EntryOf(charges[c])
      BY <1>1, <1>4 DEF e
    <2> QED BY <1>1, <1>4, <2>1, <2>2
  <1>6. Posted' = Append(Posted, e)
    <2>1. Opening \in Seq(Wallet!Entry)
      BY OpeningType
    <2>2. Posted' = Opening \o next /\ Posted = Opening \o old
      BY DEF Posted, Opening
    <2>3. old \in Seq({EntryOf(charges[c]) : c \in 1..Len(charges)})
      BY <1>1
    <2> HIDE DEF next, old
    <2>4. Opening \o Append(old, e) = Append(Opening \o old, e)
      BY <2>1, <2>3
    <2> QED BY <1>5, <2>2, <2>4
  <1>7. /\ absBalance' = [absBalance EXCEPT !["publisher"] = absBalance'["publisher"]]
        /\ absBalance'["publisher"] = balance' /\ absBalance["publisher"] = balance
    BY DEF absBalance
  <1>8. absLedger' = [absLedger EXCEPT !["publisher"] = Append(@, e)]
    BY <1>6 DEF absLedger
  <1>9. absLedger' = [absLedger EXCEPT !["publisher"] =
                        Append(@, [type |-> "GENERATION_CHARGE",
                                   amount |-> absBalance'["publisher"] - absBalance["publisher"],
                                   after |-> absBalance'["publisher"], by |-> "server"])]
    BY <1>3, <1>7, <1>8
  <1>10. Wallet!Post("publisher")
    BY <1>2, <1>7, <1>9 DEF Wallet!Post, absBalance, absLedger
  <1> QED BY <1>10 DEF Wallet!Next

LEMMA NextMaps == IInv /\ [Next]_vars => [Wallet!Next]_Wallet!vars
  <1> SUFFICES ASSUME IInv, [Next]_vars PROVE [Wallet!Next]_Wallet!vars
    OBVIOUS
  <1>1. CASE UNCHANGED <<balance, charges>>
    BY <1>1, LedgerStays
  <1>2. ASSUME NEW r \in Runs, Charge(r) PROVE [Wallet!Next]_Wallet!vars
    BY <1>2, ChargeMaps
  <1>3. \/ UNCHANGED <<balance, charges>>
        \/ \E r \in Runs : Charge(r)
    BY DEF Next, vars, wallet, Serve, Proceed, Fail, Finish, Refuse, OpenPanel, OpenNothing,
           DeleteBoxes, InsertBoxes, SaveAnswered, ChargeAnswered, ClickFull, Browse, Load,
           Navigate, Unload, Unmount, Return, Watch, PageMessage, BatchComplete,
           TriggerDownload, DownloadEnds, CloseBatchPanel, Listen
  <1> QED BY <1>1, <1>2, <1>3

\* The one step that stands for SaaSExecuteGeneration here keeps the promise
\* its detailed model in Billing was shown to keep: both implement WalletLedger.
THEOREM Refinement == Spec => ImplementsWalletLedger
  BY Invariance, InitMaps, NextMaps, PTL DEF Spec, ImplementsWalletLedger, Wallet!Spec

-----------------------------------------------------------------------------
\* The seeder: boxes, and the pictures on their way to them.

SheetsOK ==
    /\ sheet \in [open: {"closed", "pages", "boxes"}, page: SeederPages]
    /\ entries \in [SeederPages -> Seq(Box)]
    /\ ids \in Ids
    /\ reads \subseteq [page: SeederPages, slot: 0..2, picture: Picture]

\* Every box was numbered when it was made, and no two have one number.
Numbered ==
    \A p \in SeederPages : \A i \in 1..Len(entries[p]) : entries[p][i].id \in 1..ids

Distinct ==
    \A p, q \in SeederPages : \A i \in 1..Len(entries[p]), j \in 1..Len(entries[q]) :
        entries[p][i].id = entries[q][j].id => p = q /\ i = j

\* Until a box of its page is removed, a portrait on its way is for the box
\* that has its place.
PortraitsFit ==
    \A r \in reads :
        r.slot # 0 /\ ~r.picture.moved =>
           \/ r.picture.of = 0
           \/ /\ r.slot <= Len(entries[r.page])
              /\ r.picture.of = entries[r.page][r.slot].id

SeederInv ==
    /\ SheetsOK
    /\ Numbered
    /\ Distinct
    /\ PortraitsFit
    /\ PicturesStayWithTheirBox

LEMMA SeederParts == SeederTypeOK <=> SheetsOK /\ Distinct
  BY DEF SeederTypeOK, SheetsOK, Distinct

\* The pictures of a box are its own, but a portrait that was moved.
Fits(box) ==
    /\ box.image.of \in {0, box.id}
    /\ ~box.portrait.moved => box.portrait.of \in {0, box.id}

LEMMA FitsEach ==
  PicturesStayWithTheirBox <=>
     \A p \in SeederPages : \A i \in 1..Len(entries[p]) : Fits(entries[p][i])
  BY DEF PicturesStayWithTheirBox, Fits

LEMMA NewBoxType ==
  ASSUME NEW id \in Ids
  PROVE  NewBox(id) \in Box /\ NewBox(id).id = id /\ Fits(NewBox(id))
  <1>1. 0 \in Ids
    BY SeederBounds DEF Ids
  <1>2. NoPicture \in Picture /\ NoPicture.of = 0
    BY <1>1 DEF NoPicture, Picture
  <1> HIDE DEF NoPicture
  <1> QED BY <1>2 DEF NewBox, Box, Fits

\* A page's list grows: the boxes keep their places, the new ones come last.
Grows(p, list) ==
    /\ entries' = [entries EXCEPT ![p] = list]
    /\ list \in Seq(Box)
    /\ Len(list) >= Len(entries[p])
    /\ \A j \in 1..Len(entries[p]) : list[j].id = entries[p][j].id
    /\ \A j \in 1..Len(list) : j > Len(entries[p]) => list[j].id = ids + (j - Len(entries[p]))
    /\ ids' = ids + (Len(list) - Len(entries[p]))
    /\ ids' \in Ids

LEMMA GrowInv ==
  ASSUME SeederInv, NEW p \in SeederPages, NEW list, Grows(p, list),
         \A j \in 1..Len(list) : Fits(list[j]),
         reads' \subseteq reads,
         sheet' \in [open: {"closed", "pages", "boxes"}, page: SeederPages]
  PROVE  SeederInv'
  <1>1. /\ entries \in [SeederPages -> Seq(Box)] /\ ids \in Nat /\ ids' \in Nat
        /\ \A q \in SeederPages : Len(entries[q]) \in Nat
        /\ list \in Seq(Box) /\ Len(list) \in Nat
    BY SeederBounds DEF SeederInv, SheetsOK, Grows, Ids
  <1>2. /\ entries' \in [SeederPages -> Seq(Box)]
        /\ entries'[p] = list
        /\ \A q \in SeederPages \ {p} : entries'[q] = entries[q]
    BY <1>1 DEF Grows
  <1>3. SheetsOK'
    BY <1>2 DEF SheetsOK, Grows, SeederInv
  <1>4. ids' >= ids
    BY <1>1 DEF Grows
  <1>5. \A q \in SeederPages : \A i \in 1..Len(entries[q]) : entries[q][i].id \in 1..ids
    BY DEF SeederInv, Numbered
  \* Old boxes keep their numbers, new ones are beyond them.
  <1>6. ASSUME NEW q \in SeederPages, NEW i \in 1..Len(entries'[q])
        PROVE  \/ i \in 1..Len(entries[q]) /\ entries'[q][i].id = entries[q][i].id
                                            /\ entries'[q][i].id \in 1..ids
               \/ /\ q = p /\ i > Len(entries[p])
                  /\ entries'[q][i].id = ids + (i - Len(entries[p]))
                  /\ entries'[q][i].id \in 1..ids'
                  /\ entries'[q][i].id > ids
    <2>1. CASE q # p
      BY <1>2, <1>5, <2>1
    <2>2. CASE q = p /\ i \in 1..Len(entries[p])
      BY <1>2, <1>5, <2>2 DEF Grows
    <2>3. CASE q = p /\ i \notin 1..Len(entries[p])
      <3>0. i \in 1..Len(list) /\ i \notin 1..Len(entries[p])
        BY <1>2, <2>3
      <3>1. i \in 1..Len(list) /\ i > Len(entries[p])
        BY <1>1, <3>0
      <3>2. list[i].id = ids + (i - Len(entries[p])) /\ ids' = ids + (Len(list) - Len(entries[p]))
        BY <3>1 DEF Grows
      <3> QED BY <1>1, <1>2, <2>3, <3>1, <3>2
    <2> QED BY <2>1, <2>2, <2>3
  <1>7. Numbered'
    <2> SUFFICES ASSUME NEW q \in SeederPages, NEW i \in 1..Len(entries'[q])
                 PROVE  entries'[q][i].id \in 1..ids'
      BY DEF Numbered
    <2> QED BY <1>1, <1>4, <1>6
  <1>8. Distinct'
    <2> SUFFICES ASSUME NEW q \in SeederPages, NEW r \in SeederPages,
                        NEW i \in 1..Len(entries'[q]), NEW j \in 1..Len(entries'[r]),
                        entries'[q][i].id = entries'[r][j].id
                 PROVE  q = r /\ i = j
      BY DEF Distinct
    <2>1. CASE entries'[q][i].id \in 1..ids
      <3>0. entries'[q][i].id \in Nat /\ ~(entries'[q][i].id > ids)
        BY <1>1, <2>1
      <3>1. /\ i \in 1..Len(entries[q]) /\ entries'[q][i].id = entries[q][i].id
            /\ j \in 1..Len(entries[r]) /\ entries'[r][j].id = entries[r][j].id
        BY <1>6, <3>0
      <3>2. entries[q][i].id = entries[r][j].id
        BY <3>1
      <3> QED BY <3>1, <3>2 DEF SeederInv, Distinct
    <2>2. CASE entries'[q][i].id \notin 1..ids
      <3>1. /\ q = p /\ entries'[q][i].id = ids + (i - Len(entries[p]))
            /\ r = p /\ entries'[r][j].id = ids + (j - Len(entries[p]))
        BY <1>6, <2>2
      <3>2. i \in Nat /\ j \in Nat
        BY <1>2
      <3> QED BY <1>1, <3>1, <3>2
    <2> QED BY <2>1, <2>2
  <1>9. PortraitsFit'
    <2> SUFFICES ASSUME NEW r \in reads, r.slot # 0, ~r.picture.moved
                 PROVE  \/ r.picture.of = 0
                        \/ /\ r.slot <= Len(entries'[r.page])
                           /\ r.picture.of = entries'[r.page][r.slot].id
      BY DEF PortraitsFit
    <2>1. /\ r.page \in SeederPages /\ r.slot \in 1..2
      BY DEF SeederInv, SheetsOK
    <2>2. CASE r.picture.of # 0
      <3>1. /\ r.slot <= Len(entries[r.page])
            /\ r.picture.of = entries[r.page][r.slot].id
        BY <2>2 DEF SeederInv, PortraitsFit
      <3>2. r.slot \in 1..Len(entries[r.page])
        BY <1>1, <2>1, <3>1
      <3>3. CASE r.page = p
        BY <1>1, <1>2, <2>1, <3>1, <3>2, <3>3 DEF Grows
      <3>4. CASE r.page # p
        BY <1>2, <2>1, <3>1, <3>4
      <3> QED BY <3>3, <3>4
    <2> QED BY <2>2
  <1>10. PicturesStayWithTheirBox'
    <2>1. \A q \in SeederPages : \A i \in 1..Len(entries'[q]) : Fits(entries'[q][i])
      BY <1>2, FitsEach DEF SeederInv
    <2> QED BY <2>1 DEF PicturesStayWithTheirBox, Fits
  <1> QED BY <1>3, <1>7, <1>8, <1>9, <1>10 DEF SeederInv

\* Nothing moves in the lists: the sheet opens or closes, a file is chosen.
LEMMA QuietInv ==
  ASSUME SeederInv, UNCHANGED <<entries, ids>>,
         sheet' \in [open: {"closed", "pages", "boxes"}, page: SeederPages],
         reads' \subseteq [page: SeederPages, slot: 0..2, picture: Picture],
         PortraitsFit'
  PROVE  SeederInv'
  <1>1. SheetsOK' /\ Numbered' /\ Distinct'
    BY DEF SeederInv, SheetsOK, Numbered, Distinct
  <1>2. PicturesStayWithTheirBox'
    BY DEF SeederInv, PicturesStayWithTheirBox
  <1> QED BY <1>1, <1>2 DEF SeederInv

LEMMA PortraitsStay ==
  ASSUME SeederInv, UNCHANGED <<entries, reads>>
  PROVE  PortraitsFit'
  BY DEF SeederInv, PortraitsFit

LEMMA SeederInitInv == SeederInit => SeederInv
  <1> SUFFICES ASSUME SeederInit PROVE SeederInv
    OBVIOUS
  <1>1. 1 \in SeederPages /\ 0 \in Ids
    BY SeederBounds DEF SeederPages, Ids
  <1>2. \A p \in SeederPages : entries[p] = <<>> /\ Len(entries[p]) = 0
    BY DEF SeederInit
  <1>3. SheetsOK
    BY <1>1 DEF SheetsOK, SeederInit
  <1> QED BY <1>2, <1>3 DEF SeederInv, Numbered, Distinct, PortraitsFit,
                            PicturesStayWithTheirBox, SeederInit

LEMMA AddBoxGrows ==
  ASSUME SeederInv, NEW p \in SeederPages, AddBox(p)
  PROVE  \E list : Grows(p, list) /\ \A j \in 1..Len(list) : Fits(list[j])
  <1> DEFINE old == entries[p]
             new == NewBox(ids + 1)
             list == Append(old, new)
  <1>1. old \in Seq(Box) /\ ids \in Nat /\ ids + 1 \in Ids
    BY SeederBounds DEF SeederInv, SheetsOK, AddBox, Ids
  <1>2. new \in Box /\ new.id = ids + 1 /\ Fits(new)
    BY <1>1, NewBoxType
  <1>3. entries' = [entries EXCEPT ![p] = list] /\ ids' = ids + 1
    BY DEF AddBox
  <1>4. \A j \in 1..Len(old) : Fits(old[j])
    BY FitsEach DEF SeederInv
  <1> HIDE DEF old, new
  <1>5. /\ list \in Seq(Box) /\ Len(list) = Len(old) + 1 /\ Len(old) \in Nat
        /\ \A j \in 1..Len(old) : list[j] = old[j]
        /\ list[Len(old) + 1] = new
    BY <1>1, <1>2
  <1>6. \A j \in 1..Len(list) : j \in 1..Len(old) \/ j = Len(old) + 1
    BY <1>5
  <1> HIDE DEF list
  <1>7. Grows(p, list)
    <2>1. entries[p] = old /\ Len(list) >= Len(old)
      BY <1>5 DEF old
    <2>2. \A j \in 1..Len(old) : list[j].id = old[j].id
      BY <1>5
    <2>3. \A j \in 1..Len(list) : j > Len(old) => list[j].id = ids + (j - Len(old))
      BY <1>1, <1>2, <1>5, <1>6
    <2>4. ids' = ids + (Len(list) - Len(old)) /\ ids' \in Ids
      BY <1>1, <1>3, <1>5
    <2> QED BY <1>3, <1>5, <2>1, <2>2, <2>3, <2>4 DEF Grows
  <1>8. \A j \in 1..Len(list) : Fits(list[j])
    BY <1>2, <1>4, <1>5, <1>6
  <1> QED BY <1>7, <1>8

LEMMA OpenSeederInv ==
  ASSUME SeederInv, NEW p \in SeederPages, OpenSeeder(p) PROVE SeederInv'
  <1>1. /\ sheet' \in [open: {"closed", "pages", "boxes"}, page: SeederPages]
        /\ reads' = reads
    BY DEF OpenSeeder
  <1>2. CASE AddBox(p)
    BY <1>1, <1>2, AddBoxGrows, GrowInv
  <1>3. CASE UNCHANGED <<entries, ids>>
    BY <1>1, <1>3, QuietInv, PortraitsStay DEF SeederInv, SheetsOK
  <1> QED BY <1>2, <1>3 DEF OpenSeeder

LEMMA AddManualBoxInv == ASSUME SeederInv, AddManualBox PROVE SeederInv'
  <1>1. sheet.page \in SeederPages /\ UNCHANGED <<sheet, reads>>
    BY DEF SeederInv, SheetsOK, AddManualBox
  <1> QED BY <1>1, AddBoxGrows, GrowInv DEF AddManualBox, SeederInv, SheetsOK

LEMMA TypeBoxInv ==
  ASSUME SeederInv, NEW i \in 1..Len(entries[sheet.page]), TypeBox(i)
  PROVE  SeederInv'
  <1> DEFINE p == sheet.page
             old == entries[p]
             box == [old[i] EXCEPT !.ready = ~@]
             list == [old EXCEPT ![i] = box]
  <1>1. /\ p \in SeederPages /\ old \in Seq(Box) /\ ids \in Nat /\ ids \in Ids
        /\ entries \in [SeederPages -> Seq(Box)]
        /\ UNCHANGED <<sheet, ids, reads>>
        /\ sheet' \in [open: {"closed", "pages", "boxes"}, page: SeederPages]
    BY SeederBounds DEF SeederInv, SheetsOK, TypeBox, Ids
  <1>2. entries' = [entries EXCEPT ![p] = list]
    BY <1>1 DEF TypeBox
  <1>3. \A j \in 1..Len(old) : Fits(old[j])
    BY <1>1, FitsEach DEF SeederInv
  <1>4. i \in 1..Len(old) /\ old[i] \in Box
    BY <1>1
  <1> HIDE DEF p, old
  <1>5. box \in Box /\ box.id = old[i].id
    BY <1>4 DEF Box
  <1>6. box.image = old[i].image /\ box.portrait = old[i].portrait
    BY <1>4 DEF Box
  <1>7. Fits(box)
    BY <1>3, <1>4, <1>5, <1>6 DEF Fits
  <1> HIDE DEF box
  <1>8. /\ list \in Seq(Box) /\ Len(list) = Len(old) /\ Len(old) \in Nat
        /\ \A j \in 1..Len(old) : list[j] = IF j = i THEN box ELSE old[j]
    BY <1>1, <1>4, <1>5
  <1> HIDE DEF list
  <1>9. Grows(p, list)
    BY <1>1, <1>2, <1>5, <1>8 DEF Grows, old
  <1>10. \A j \in 1..Len(list) : Fits(list[j])
    BY <1>3, <1>7, <1>8
  <1> QED BY <1>1, <1>9, <1>10, GrowInv

LEMMA ChooseFileInv ==
  ASSUME SeederInv, NEW slot \in 0..2, NEW id \in Ids, ChooseFile(slot, id),
         slot # 0 => \/ id = 0
                     \/ /\ slot <= Len(entries[sheet.page])
                        /\ id = entries[sheet.page][slot].id
  PROVE  SeederInv'
  <1> DEFINE new == [page |-> sheet.page, slot |-> slot,
                     picture |-> [of |-> id, moved |-> FALSE]]
  <1>1. /\ reads' = reads \union {new} /\ UNCHANGED <<sheet, entries, ids>>
        /\ sheet.page \in SeederPages
    BY DEF ChooseFile, SeederInv, SheetsOK
  <1>2. new \in [page: SeederPages, slot: 0..2, picture: Picture]
    BY <1>1 DEF Picture
  <1>3. /\ new.slot = slot /\ new.page = sheet.page /\ new.picture.of = id
    OBVIOUS
  <1> HIDE DEF new
  <1>4. PortraitsFit'
    <2> SUFFICES ASSUME NEW r \in reads', r.slot # 0, ~r.picture.moved
                 PROVE  \/ r.picture.of = 0
                        \/ /\ r.slot <= Len(entries[r.page])
                           /\ r.picture.of = entries[r.page][r.slot].id
      BY <1>1 DEF PortraitsFit
    <2>1. CASE r = new
      BY <1>3, <2>1
    <2>2. CASE r \in reads
      BY <2>2 DEF SeederInv, PortraitsFit
    <2> QED BY <1>1, <2>1, <2>2
  <1> QED BY <1>1, <1>2, <1>4, QuietInv DEF SeederInv, SheetsOK

LEMMA ChooseImageInv ==
  ASSUME SeederInv, NEW i \in 1..Len(entries[sheet.page]), ChooseImage(i)
  PROVE  SeederInv'
  <1>1. entries[sheet.page][i] \in Box
    BY DEF SeederInv, SheetsOK
  <1>2. entries[sheet.page][i].id \in Ids
    BY <1>1 DEF Box
  <1> QED BY <1>2, ChooseFileInv DEF ChooseImage

LEMMA ChoosePortraitInv ==
  ASSUME SeederInv, NEW slot \in 1..2, ChoosePortrait(slot) PROVE SeederInv'
  <1>1. CASE slot <= Len(entries[sheet.page])
    <2>1. entries[sheet.page] \in Seq(Box)
      BY DEF SeederInv, SheetsOK
    <2>2. entries[sheet.page][slot] \in Box
      BY <1>1, <2>1
    <2>3. entries[sheet.page][slot].id \in Ids
      BY <2>2 DEF Box
    <2> QED BY <1>1, <2>3, ChooseFileInv DEF ChoosePortrait
  <1>2. CASE ~(slot <= Len(entries[sheet.page]))
    <2>1. 0 \in Ids
      BY SeederBounds DEF Ids
    <2> QED BY <1>2, <2>1, ChooseFileInv DEF ChoosePortrait
  <1> QED BY <1>1, <1>2

\* A list without its i-th entry.
Without(l, i) == SubSeq(l, 1, i - 1) \o SubSeq(l, i + 1, Len(l))

LEMMA WithoutEntry ==
  ASSUME NEW S, NEW l \in Seq(S), NEW i \in 1..Len(l)
  PROVE  /\ Without(l, i) \in Seq(S)
         /\ Len(Without(l, i)) = Len(l) - 1
         /\ \A j \in 1..Len(Without(l, i)) :
               Without(l, i)[j] = IF j < i THEN l[j] ELSE l[j + 1]
  <1> DEFINE a == SubSeq(l, 1, i - 1)
             b == SubSeq(l, i + 1, Len(l))
             m == Without(l, i)
  <1>1. Len(l) \in Nat /\ i \in 1..Len(l)
    OBVIOUS
  <1>2. a \in Seq(S) /\ Len(a) = i - 1 /\ \A j \in 1..Len(a) : a[j] = l[j]
    BY <1>1
  <1>3. b \in Seq(S) /\ Len(b) = Len(l) - i /\ \A j \in 1..Len(b) : b[j] = l[i + j]
    BY <1>1
  <1>0. m = a \o b
    BY DEF Without
  <1> HIDE DEF a, b, m
  <1>4. /\ m \in Seq(S) /\ Len(m) = Len(a) + Len(b)
        /\ \A j \in 1..Len(m) : m[j] = IF j <= Len(a) THEN a[j] ELSE b[j - Len(a)]
    <2>1. /\ a \o b \in Seq(S) /\ Len(a \o b) = Len(a) + Len(b)
          /\ \A j \in 1..Len(a) + Len(b) :
                (a \o b)[j] = IF j <= Len(a) THEN a[j] ELSE b[j - Len(a)]
      BY <1>2, <1>3, ConcatProperties
    <2> QED BY <1>0, <2>1
  <1>5. Len(m) = Len(l) - 1
    <2>1. Len(a) = i - 1 /\ Len(b) = Len(l) - i /\ Len(m) = Len(a) + Len(b)
      BY <1>2, <1>3, <1>4
    <2> QED BY <1>1, <2>1
  <1>6. ASSUME NEW j \in 1..Len(m)
        PROVE  m[j] = IF j < i THEN l[j] ELSE l[j + 1]
    <2>1. CASE j < i
      <3>1. j \in 1..Len(a)
        BY <1>1, <1>2, <2>1
      <3>2. j <= Len(a)
        BY <1>2, <3>1
      <3>3. m[j] = a[j]
        BY <1>4, <3>2
      <3>4. a[j] = l[j]
        BY <1>2, <3>1
      <3> QED BY <2>1, <3>3, <3>4
    <2>2. CASE ~(j < i)
      <3>0. /\ Len(a) = i - 1 /\ Len(b) = Len(l) - i
            /\ j \in 1..(Len(l) - 1) /\ i \in 1..Len(l) /\ Len(l) \in Nat
        BY <1>1, <1>2, <1>3, <1>5
      <3>1. j - (i - 1) \in 1..Len(b) /\ ~(j <= Len(a))
        BY <2>2, <3>0
      <3>2. m[j] = b[j - (i - 1)]
        BY <1>2, <1>4, <3>1
      <3>3. b[j - (i - 1)] = l[i + (j - (i - 1))]
        BY <1>3, <3>1
      <3>4. i + (j - (i - 1)) = j + 1
        BY <1>1
      <3> QED BY <2>2, <3>2, <3>3, <3>4
    <2> QED BY <2>1, <2>2
  <1> QED BY <1>4, <1>5, <1>6 DEF m

LEMMA RemoveBoxInv ==
  ASSUME SeederInv, NEW i \in 1..Len(entries[sheet.page]), RemoveBox(i)
  PROVE  SeederInv'
  <1> DEFINE p == sheet.page
             old == entries[p]
             list == SubSeq(old, 1, i - 1) \o SubSeq(old, i + 1, Len(old))
             moved(r) == [r EXCEPT !.picture.moved = @ \/ r.page = p]
  <1>1. /\ p \in SeederPages /\ old \in Seq(Box) /\ ids \in Ids
        /\ entries \in [SeederPages -> Seq(Box)]
        /\ UNCHANGED <<sheet, ids>>
    BY DEF SeederInv, SheetsOK, RemoveBox
  <1>2. entries' = [entries EXCEPT ![p] = list]
    BY DEF RemoveBox
  <1>3. /\ list \in Seq(Box)
        /\ Len(list) = Len(old) - 1 /\ Len(old) \in Nat
        /\ \A j \in 1..Len(list) : list[j] = IF j < i THEN old[j] ELSE old[j + 1]
    <2>1. i \in 1..Len(old) /\ Len(old) \in Nat /\ list = Without(old, i)
      BY <1>1 DEF Without
    <2> HIDE DEF list, old
    <2> QED BY <1>1, <2>1, WithoutEntry
  <1> HIDE DEF list
  <1>4. /\ entries' \in [SeederPages -> Seq(Box)]
        /\ entries'[p] = list
        /\ \A q \in SeederPages \ {p} : entries'[q] = entries[q]
    BY <1>1, <1>2, <1>3
  <1> DEFINE before(q, j) == IF q = p /\ ~(j < i) THEN j + 1 ELSE j
  <1>5. ASSUME NEW q \in SeederPages, NEW j \in 1..Len(entries'[q])
        PROVE  /\ before(q, j) \in 1..Len(entries[q])
               /\ entries'[q][j] = entries[q][before(q, j)]
    <2>1. CASE q # p
      <3>1. entries'[q] = entries[q] /\ before(q, j) = j
        BY <1>4, <2>1
      <3> QED BY <3>1
    <2>2. CASE q = p
      <3>1. j \in 1..Len(list) /\ entries'[q][j] = list[j] /\ entries[q] = old
        BY <1>4, <2>2
      <3>2. list[j] = IF j < i THEN old[j] ELSE old[j + 1]
        BY <1>3, <3>1
      <3>3. before(q, j) = IF j < i THEN j ELSE j + 1
        BY <2>2
      <3>4. j \in Nat /\ i \in Nat /\ j >= 1 /\ j <= Len(old) - 1 /\ Len(old) \in Nat
        BY <1>1, <1>3, <3>1
      <3> HIDE DEF before, p, old
      <3>5. before(q, j) \in 1..Len(old)
        BY <3>3, <3>4
      <3>6. entries'[q][j] = old[before(q, j)]
        BY <3>1, <3>2, <3>3
      <3> QED BY <3>1, <3>5, <3>6
    <2> QED BY <2>1, <2>2
  <1>6. ASSUME NEW q \in SeederPages, NEW j \in 1..Len(entries'[q]),
               NEW k \in 1..Len(entries'[q]), before(q, j) = before(q, k)
        PROVE  j = k
    <2>1. j \in Nat /\ k \in Nat /\ i \in Nat
      BY <1>1, <1>4
    <2> QED BY <1>6, <2>1
  <1> HIDE DEF before
  <1>7. /\ reads' = {moved(r) : r \in reads}
        /\ reads \subseteq [page: SeederPages, slot: 0..2, picture: Picture]
    BY DEF RemoveBox, SeederInv, SheetsOK
  <1>8. ASSUME NEW r \in reads
        PROVE  /\ moved(r) \in [page: SeederPages, slot: 0..2, picture: Picture]
               /\ moved(r).page = r.page /\ moved(r).slot = r.slot
               /\ moved(r).picture.of = r.picture.of
               /\ ~moved(r).picture.moved => ~r.picture.moved /\ r.page # p
    <2> DEFINE flag == r.picture.moved \/ r.page = p
    <2>1. flag \in BOOLEAN
      OBVIOUS
    <2>2. moved(r) = [r EXCEPT !.picture.moved = flag]
      OBVIOUS
    <2>3. ~flag => ~r.picture.moved /\ r.page # p
      OBVIOUS
    <2>4. r \in [page: SeederPages, slot: 0..2, picture: Picture]
      BY <1>7
    <2> HIDE DEF flag, moved, p
    <2> QED BY <2>1, <2>2, <2>3, <2>4 DEF Picture
  <1> HIDE DEF moved
  <1>9. SheetsOK'
    BY <1>1, <1>4, <1>7, <1>8 DEF SheetsOK, SeederInv
  <1>10. Numbered'
    <2> SUFFICES ASSUME NEW q \in SeederPages, NEW j \in 1..Len(entries'[q])
                 PROVE  entries'[q][j].id \in 1..ids'
      BY DEF Numbered
    <2> QED BY <1>1, <1>5 DEF SeederInv, Numbered
  <1>11. Distinct'
    <2> SUFFICES ASSUME NEW q \in SeederPages, NEW r \in SeederPages,
                        NEW j \in 1..Len(entries'[q]), NEW k \in 1..Len(entries'[r]),
                        entries'[q][j].id = entries'[r][k].id
                 PROVE  q = r /\ j = k
      BY DEF Distinct
    <2>1. /\ before(q, j) \in 1..Len(entries[q])
          /\ before(r, k) \in 1..Len(entries[r])
          /\ entries[q][before(q, j)].id = entries[r][before(r, k)].id
      BY <1>5
    <2>2. q = r /\ before(q, j) = before(r, k)
      BY <2>1 DEF SeederInv, Distinct
    <2> QED BY <1>6, <2>2
  <1>12. PortraitsFit'
    <2> SUFFICES ASSUME NEW r \in reads, moved(r).slot # 0, ~moved(r).picture.moved
                 PROVE  \/ moved(r).picture.of = 0
                        \/ /\ moved(r).slot <= Len(entries'[moved(r).page])
                           /\ moved(r).picture.of
                                = entries'[moved(r).page][moved(r).slot].id
      BY <1>7 DEF PortraitsFit
    <2>1. /\ r.slot # 0 /\ ~r.picture.moved /\ r.page # p /\ r.page \in SeederPages
      BY <1>7, <1>8
    <2>2. entries'[r.page] = entries[r.page]
      BY <1>4, <2>1
    <2> QED BY <1>8, <2>1, <2>2 DEF SeederInv, PortraitsFit
  <1>13. PicturesStayWithTheirBox'
    <2>1. \A q \in SeederPages : \A j \in 1..Len(entries'[q]) : Fits(entries'[q][j])
      BY <1>5, FitsEach DEF SeederInv
    <2> QED BY <2>1 DEF PicturesStayWithTheirBox, Fits
  <1> QED BY <1>9, <1>10, <1>11, <1>12, <1>13 DEF SeederInv

LEMMA ImageReadInv ==
  ASSUME SeederInv, NEW r \in reads, ImageRead(r), reads' = reads \ {r},
         sheet' = sheet
  PROVE  SeederInv'
  <1> DEFINE p == r.page
             old == entries[p]
             list == [i \in 1..Len(old) |-> IF TakesImage(r, i)
                                            THEN [old[i] EXCEPT !.image = r.picture]
                                            ELSE old[i]]
  <1>1. /\ p \in SeederPages /\ old \in Seq(Box) /\ ids \in Nat /\ ids \in Ids
        /\ entries \in [SeederPages -> Seq(Box)] /\ r.picture \in Picture
        /\ ids' = ids
        /\ sheet' \in [open: {"closed", "pages", "boxes"}, page: SeederPages]
    BY SeederBounds DEF SeederInv, SheetsOK, ImageRead, Ids
  <1>2. entries' = [entries EXCEPT ![p] = list]
    BY <1>1 DEF ImageRead
  <1>3. \A j \in 1..Len(old) : Fits(old[j]) /\ old[j] \in Box
    BY <1>1, FitsEach DEF SeederInv
  <1>4. ASSUME NEW j \in 1..Len(old)
        PROVE  /\ list[j] \in Box /\ list[j].id = old[j].id /\ Fits(list[j])
    <2> DEFINE box == [old[j] EXCEPT !.image = r.picture]
    <2>1. /\ box \in Box /\ box.id = old[j].id /\ box.image = r.picture
          /\ box.portrait = old[j].portrait
      <3>1. old[j] \in Box
        BY <1>3
      <3> HIDE DEF p, old
      <3> QED BY <1>1, <3>1 DEF Box
    <2>2. CASE TakesImage(r, j)
      <3>1. r.picture.of = old[j].id
        BY <2>2 DEF TakesImage
      <3>2. list[j] = box
        BY <2>2
      <3> HIDE DEF list, box
      <3> QED BY <1>3, <2>1, <3>1, <3>2 DEF Fits
    <2>3. CASE ~TakesImage(r, j)
      <3>1. list[j] = old[j]
        BY <2>3
      <3> QED BY <1>3, <3>1
    <2> QED BY <2>2, <2>3
  <1>5. list \in Seq(Box) /\ Len(list) = Len(old) /\ Len(old) \in Nat
    <2>1. Len(old) \in Nat
      BY <1>1
    <2>2. DOMAIN list = 1..Len(old) /\ list \in [1..Len(old) -> Box]
      BY <1>4
    <2> HIDE DEF list, old
    <2> QED BY <2>1, <2>2
  <1> HIDE DEF list
  <1>6. Grows(p, list)
    <2>1. \A j \in 1..Len(list) : ~(j > Len(old))
      BY <1>5
    <2>2. ids' = ids + (Len(list) - Len(old))
      BY <1>1, <1>5
    <2>3. \A j \in 1..Len(old) : list[j].id = old[j].id
      BY <1>4
    <2>4. entries[p] = old /\ ids' \in Ids
      BY <1>1
    <2> HIDE DEF old
    <2>5. Len(list) >= Len(old)
      BY <1>5
    <2> QED BY <1>2, <1>5, <2>1, <2>2, <2>3, <2>4, <2>5 DEF Grows
  <1>7. \A j \in 1..Len(list) : Fits(list[j])
    BY <1>4, <1>5
  <1>8. reads' \subseteq reads
    OBVIOUS
  <1> QED BY <1>1, <1>6, <1>7, <1>8, GrowInv

\* How many boxes a portrait's place is beyond the end of the list.
LEMMA Missing ==
  ASSUME NEW n \in Nat, NEW slot \in 1..2
  PROVE  LET missing == {k \in 1..slot : k > n}
         IN  Cardinality(missing) = IF slot <= n THEN 0 ELSE slot - n
  <1> DEFINE missing == {k \in 1..slot : k > n}
  <1>1. missing = (n + 1)..slot
    OBVIOUS
  <1>2. Cardinality((n + 1)..slot) = IF n + 1 > slot THEN 0 ELSE slot - (n + 1) + 1
    BY FS_Interval
  <1> HIDE DEF missing
  <1>3. Cardinality(missing) = IF n + 1 > slot THEN 0 ELSE slot - (n + 1) + 1
    BY <1>1, <1>2
  <1>4. Cardinality(missing) = IF slot <= n THEN 0 ELSE slot - n
    BY <1>3
  <1> QED BY <1>4 DEF missing

LEMMA PortraitReadInv ==
  ASSUME SeederInv, NEW r \in reads, PortraitRead(r), reads' = reads \ {r},
         sheet' = sheet
  PROVE  SeederInv'
  <1> DEFINE p == r.page
             old == entries[p]
             slot == r.slot
             missing == {k \in 1..slot : k > Len(old)}
             more == Cardinality(missing)
             new == [n \in 1..more |-> NewBox(ids + n)]
             padded == old \o new
             list == [padded EXCEPT ![slot].portrait = r.picture]
  <1>1. /\ p \in SeederPages /\ old \in Seq(Box) /\ ids \in Nat /\ ids \in Ids
        /\ entries \in [SeederPages -> Seq(Box)] /\ r.picture \in Picture
        /\ slot \in 0..2
        /\ sheet' \in [open: {"closed", "pages", "boxes"}, page: SeederPages]
        /\ Len(old) \in Nat
    BY SeederBounds DEF SeederInv, SheetsOK, Ids
  <1>2. /\ slot # 0 /\ ids + more <= MaxBoxes /\ ids' = ids + more
        /\ entries' = [entries EXCEPT ![p] = list]
    BY DEF PortraitRead
  <1>3. slot \in 1..2 /\ slot \in Nat
    BY <1>1, <1>2
  <1>4. more = IF slot <= Len(old) THEN 0 ELSE slot - Len(old)
    <2> HIDE DEF old, slot
    <2> QED BY <1>1, <1>3, Missing
  <1>5. \A j \in 1..Len(old) : Fits(old[j]) /\ old[j] \in Box
    BY <1>1, FitsEach DEF SeederInv
  \* A portrait not moved is for the box in its place, or for none.
  <1>6. ~r.picture.moved => \/ r.picture.of = 0
                            \/ slot <= Len(old) /\ r.picture.of = old[slot].id
    BY <1>2 DEF SeederInv, PortraitsFit
  <1> HIDE DEF p, old, slot, missing, more
  <1>7. more \in Nat
    BY <1>1, <1>3, <1>4
  <1>8. ASSUME NEW n \in 1..more
        PROVE  ids + n \in Ids /\ new[n] = NewBox(ids + n)
               /\ new[n] \in Box /\ new[n].id = ids + n /\ Fits(new[n])
    <2>1. ids + n \in Ids
      BY SeederBounds, <1>1, <1>2, <1>7 DEF Ids
    <2>2. new[n] = NewBox(ids + n)
      OBVIOUS
    <2> HIDE DEF new
    <2> QED BY <2>1, <2>2, NewBoxType
  <1>9. new \in Seq(Box) /\ Len(new) = more
    <2>1. new \in [1..more -> Box]
      BY <1>8
    <2>2. DOMAIN new = 1..more
      OBVIOUS
    <2> HIDE DEF new
    <2> QED BY <1>7, <2>1, <2>2
  <1> HIDE DEF new
  <1>10. /\ padded \in Seq(Box) /\ Len(padded) = Len(old) + more
         /\ \A j \in 1..Len(old) + more :
               padded[j] = IF j <= Len(old) THEN old[j] ELSE new[j - Len(old)]
    BY <1>1, <1>9, ConcatProperties
  <1> HIDE DEF padded
  <1>11. ASSUME NEW j \in 1..Len(padded)
         PROVE  /\ padded[j] \in Box /\ Fits(padded[j])
                /\ j <= Len(old) => padded[j].id = old[j].id
                /\ j > Len(old) => padded[j].id = ids + (j - Len(old))
    <2>1. CASE j <= Len(old)
      <3>1. j \in 1..Len(old) /\ padded[j] = old[j]
        BY <1>1, <1>7, <1>10, <2>1
      <3> QED BY <1>1, <1>5, <2>1, <3>1
    <2>2. CASE j > Len(old)
      <3>0. j \in 1..Len(old) + more /\ ~(j <= Len(old))
        BY <1>1, <1>10, <2>2
      <3>1. j - Len(old) \in 1..more /\ padded[j] = new[j - Len(old)]
        BY <1>1, <1>7, <1>10, <3>0
      <3> QED BY <1>1, <1>8, <2>2, <3>1
    <2> QED BY <1>1, <2>1, <2>2
  <1>12. slot \in 1..Len(padded)
    BY <1>1, <1>3, <1>4, <1>7, <1>10
  <1> DEFINE box == [padded[slot] EXCEPT !.portrait = r.picture]
  <1>13. /\ box \in Box /\ box.id = padded[slot].id /\ box.portrait = r.picture
         /\ box.image = padded[slot].image
    <2>1. padded[slot] \in Box
      BY <1>11, <1>12
    <2> QED BY <1>1, <2>1 DEF Box
  <1>14. Fits(box)
    <2>1. Fits(padded[slot]) /\ (slot <= Len(old) => padded[slot].id = old[slot].id)
      BY <1>11, <1>12
    <2> HIDE DEF box
    <2> QED BY <1>6, <1>13, <2>1 DEF Fits
  <1> HIDE DEF box
  <1>15. /\ list \in Seq(Box) /\ Len(list) = Len(padded)
         /\ \A j \in 1..Len(padded) : list[j] = IF j = slot THEN box ELSE padded[j]
    <2>1. list = [padded EXCEPT ![slot] = box]
      BY DEF box
    <2> HIDE DEF list
    <2> QED BY <1>10, <1>12, <1>13, <2>1
  <1> HIDE DEF list
  <1>16. Grows(p, list)
    <2>1. entries[p] = old
      BY DEF old
    <2>2. Len(list) >= Len(old)
      BY <1>1, <1>7, <1>10, <1>15
    <2>3. \A j \in 1..Len(old) : list[j].id = old[j].id
      <3> SUFFICES ASSUME NEW j \in 1..Len(old) PROVE list[j].id = old[j].id
        OBVIOUS
      <3>1. j \in 1..Len(padded) /\ j <= Len(old)
        BY <1>1, <1>7, <1>10
      <3> QED BY <1>11, <1>13, <1>15, <3>1
    <2>4. \A j \in 1..Len(list) : j > Len(old) => list[j].id = ids + (j - Len(old))
      BY <1>11, <1>13, <1>15
    <2>5. ids' = ids + (Len(list) - Len(old))
      BY <1>1, <1>2, <1>7, <1>10, <1>15
    <2>6. ids' \in Ids
      BY SeederBounds, <1>1, <1>2, <1>7 DEF Ids
    <2> QED BY <1>2, <1>15, <2>1, <2>2, <2>3, <2>4, <2>5, <2>6 DEF Grows
  <1>17. \A j \in 1..Len(list) : Fits(list[j])
    BY <1>11, <1>14, <1>15
  <1> QED BY <1>1, <1>16, <1>17, GrowInv

LEMMA FileReadInv ==
  ASSUME SeederInv, NEW r \in reads, FileRead(r) PROVE SeederInv'
  BY ImageReadInv, PortraitReadInv DEF FileRead

LEMMA SeederNextInv == SeederInv /\ [SeederNext]_seederVars => SeederInv'
  <1> SUFFICES ASSUME SeederInv, [SeederNext]_seederVars PROVE SeederInv'
    OBVIOUS
  <1>1. CASE OpenPages
    <2>1. sheet' \in [open: {"closed", "pages", "boxes"}, page: SeederPages]
      BY <1>1 DEF OpenPages, SeederInv, SheetsOK
    <2> QED BY <1>1, <2>1, QuietInv, PortraitsStay DEF OpenPages, SeederInv, SheetsOK
  <1>2. CASE Close
    <2>1. sheet' \in [open: {"closed", "pages", "boxes"}, page: SeederPages]
      BY <1>2 DEF Close, SeederInv, SheetsOK
    <2> QED BY <1>2, <2>1, QuietInv, PortraitsStay DEF Close, SeederInv, SheetsOK
  <1>3. CASE \E p \in SeederPages : OpenSeeder(p)
    BY <1>3, OpenSeederInv
  <1>4. CASE AddManualBox
    BY <1>4, AddManualBoxInv
  <1>5. CASE \E i \in 1..Len(entries[sheet.page]) :
                TypeBox(i) \/ RemoveBox(i) \/ ChooseImage(i)
    BY <1>5, TypeBoxInv, RemoveBoxInv, ChooseImageInv
  <1>6. CASE \E slot \in 1..2 : ChoosePortrait(slot)
    BY <1>6, ChoosePortraitInv
  <1>7. CASE \E r \in reads : FileRead(r)
    BY <1>7, FileReadInv
  <1>8. CASE UNCHANGED seederVars
    BY <1>8, QuietInv, PortraitsStay DEF seederVars, SeederInv, SheetsOK
  <1> QED BY <1>1, <1>2, <1>3, <1>4, <1>5, <1>6, <1>7, <1>8 DEF SeederNext

\* The lists of the seeder keep their inductive invariant.
THEOREM SeederInvariance == SeederSpec => []SeederInv
  BY SeederInitInv, SeederNextInv, PTL DEF SeederSpec

\* The lists of the seeder are lists of boxes, and no two boxes of any pages
\* ever have one number.
THEOREM SeederTypeCorrect == SeederSpec => []SeederTypeOK
  <1>1. SeederInv => SeederTypeOK
    BY SeederParts DEF SeederInv
  <1> QED BY <1>1, SeederInvariance, PTL

\* A picture that arrives late, whatever was added or removed meanwhile, is on
\* the box it was chosen for; a portrait, if no box of its page was removed.
THEOREM PicturesHold == SeederSpec => []PicturesStayWithTheirBox
  <1>1. SeederInv => PicturesStayWithTheirBox
    BY DEF SeederInv
  <1> QED BY <1>1, SeederInvariance, PTL

-----------------------------------------------------------------------------
\* The rows of the seeder.  A set of numbers has a least element, ...
LEMMA Least ==
  ASSUME NEW S, S \subseteq Nat, S # {}
  PROVE  \E x \in S : \A y \in S : x <= y
  <1> DEFINE R == {p \in Nat \X Nat : p[1] < p[2]}
  <1>1. IsWellFoundedOn(R, Nat)
    <2>1. R = OpToRel(<, Nat)
      BY DEF OpToRel
    <2> QED BY <2>1, NatLessThanWellFounded
  <1>2. \A x, y \in S : y < x => <<y, x>> \in R
    OBVIOUS
  <1> HIDE DEF R
  <1>3. PICK x \in S : \A y \in S : ~ (<<y, x>> \in R)
    BY <1>1, WFMin
  <1>4. \A y \in S : x <= y
    <2> SUFFICES ASSUME NEW y \in S PROVE x <= y
      OBVIOUS
    <2>1. ~(y < x)
      BY <1>2, <1>3
    <2>2. x \in Nat /\ y \in Nat
      OBVIOUS
    <2> QED BY <2>1, <2>2
  <1> QED BY <1>4

\* ... so what holds of page 0 and passes on to the next page holds of all.
LEMMA PageInduction ==
  ASSUME NEW B, 0 \in B, \A p \in SeederPages : p - 1 \in B => p \in B
  PROVE  \A p \in 0..LastPage : p \in B
  <1> DEFINE S == {p \in 0..LastPage : p \notin B}
  <1> SUFFICES ASSUME S # {} PROVE FALSE
    OBVIOUS
  <1>1. LastPage \in Nat /\ S \subseteq Nat
    BY SeederBounds
  <1>2. PICK x \in S : \A y \in S : x <= y
    BY <1>1, Least
  <1>3. x \in SeederPages
    BY <1>1 DEF SeederPages
  <1>4. x - 1 \in 0..LastPage /\ ~(x <= x - 1)
    BY <1>1, <1>3 DEF SeederPages
  <1>5. x - 1 \in B
    BY <1>2, <1>4
  <1> QED BY <1>3, <1>5

\* The lists of the pages, one after the other.
UpTo(f, n) ==
    f = [p \in 0..n |-> IF p = 0 THEN <<>> ELSE f[p - 1] \o Tagged(p)]

LEMMA FlatByPage ==
  \E f : /\ f[0] = <<>>
         /\ \A p \in SeederPages : f[p] = f[p - 1] \o Tagged(p)
         /\ Flat = f[LastPage]
  <1> DEFINE B == {n \in 0..LastPage : \E f : UpTo(f, n)}
  <1>0. LastPage \in Nat
    BY SeederBounds
  <1>1. 0 \in B
    <2> DEFINE f == [p \in 0..0 |-> <<>>]
    <2>1. f = [p \in 0..0 |-> IF p = 0 THEN <<>> ELSE f[p - 1] \o Tagged(p)]
      OBVIOUS
    <2>2. UpTo(f, 0)
      BY <2>1 DEF UpTo
    <2> QED BY <1>0, <2>2
  <1>2. ASSUME NEW n \in SeederPages, n - 1 \in B PROVE n \in B
    <2>1. n \in 0..LastPage /\ n \in Nat /\ n # 0 /\ n - 1 \in Nat
      BY <1>0 DEF SeederPages
    <2>2. PICK g : UpTo(g, n - 1)
      BY <1>2
    <2> DEFINE f == [p \in 0..n |-> IF p = n THEN g[n - 1] \o Tagged(n) ELSE g[p]]
    <2>3. \A p \in 0..(n - 1) : g[p] = IF p = 0 THEN <<>> ELSE g[p - 1] \o Tagged(p)
      BY <2>2 DEF UpTo
    <2>4. ASSUME NEW p \in 0..n
          PROVE  f[p] = IF p = 0 THEN <<>> ELSE f[p - 1] \o Tagged(p)
      <3>1. CASE p = n
        <4>1. n - 1 \in 0..n /\ n - 1 # n
          BY <2>1
        <4>2. f[n - 1] = g[n - 1]
          BY <4>1
        <4> QED BY <2>1, <3>1, <4>2
      <3>2. CASE p # n
        <4>1. p \in 0..(n - 1) /\ f[p] = g[p]
          BY <2>1, <3>2
        <4>2. p # 0 => p - 1 \in 0..n /\ p - 1 # n
          BY <2>1, <3>2
        <4>3. p # 0 => f[p - 1] = g[p - 1]
          BY <4>2
        <4> QED BY <2>3, <4>1, <4>3
      <3> QED BY <3>1, <3>2
    <2>5. f = [p \in 0..n |-> IF p = 0 THEN <<>> ELSE f[p - 1] \o Tagged(p)]
      BY <2>4
    <2>6. UpTo(f, n)
      BY <2>5 DEF UpTo
    <2> QED BY <2>1, <2>6
  <1>3. LastPage \in B
    <2> HIDE DEF B
    <2>1. LastPage \in 0..LastPage
      BY <1>0
    <2> QED BY <1>1, <1>2, <2>1, PageInduction
  <1> DEFINE f == CHOOSE f : UpTo(f, LastPage)
  <1>4. UpTo(f, LastPage)
    BY <1>3
  <1>5. Flat = f[LastPage]
    BY DEF Flat, UpTo
  <1> HIDE DEF f
  <1>6. \A p \in 0..LastPage : f[p] = IF p = 0 THEN <<>> ELSE f[p - 1] \o Tagged(p)
    BY <1>4 DEF UpTo
  <1>7. f[0] = <<>>
    BY <1>0, <1>6
  <1>8. ASSUME NEW p \in SeederPages PROVE f[p] = f[p - 1] \o Tagged(p)
    <2>1. p \in 0..LastPage /\ p # 0
      BY <1>0 DEF SeederPages
    <2> QED BY <1>6, <2>1
  <1> QED BY <1>5, <1>7, <1>8

\* The list of one page is found again, whole, at one place of a list.
Holds(l, p, off) ==
    /\ off \in Nat
    /\ off + Len(entries[p]) <= Len(l)
    /\ \A i \in 1..Len(entries[p]) : l[off + i].page = p /\ l[off + i].box = entries[p][i]
    /\ \A k \in 1..Len(l) : l[k].page = p => k - off \in 1..Len(entries[p])

LEMMA FlatHolds ==
  ASSUME entries \in [SeederPages -> Seq(Box)], NEW p \in SeederPages
  PROVE  Len(Flat) \in Nat /\ \E off : Holds(Flat, p, off)
  <1> DEFINE Entry == [page: SeederPages, box: Box]
  <1>0. LastPage \in Nat /\ p \in 1..LastPage /\ p - 1 \in 0..LastPage
    BY SeederBounds DEF SeederPages
  <1>1. PICK f : /\ f[0] = <<>>
                 /\ \A q \in SeederPages : f[q] = f[q - 1] \o Tagged(q)
                 /\ Flat = f[LastPage]
    BY FlatByPage
  <1>2. ASSUME NEW q \in SeederPages
        PROVE  /\ Tagged(q) \in Seq(Entry) /\ Len(Tagged(q)) = Len(entries[q])
               /\ Len(entries[q]) \in Nat
               /\ \A i \in 1..Len(entries[q]) :
                     Tagged(q)[i].page = q /\ Tagged(q)[i].box = entries[q][i]
    <2> DEFINE n == Len(entries[q])
               t == [i \in 1..n |-> [page |-> q, box |-> entries[q][i]]]
    <2>1. n \in Nat /\ \A i \in 1..n : entries[q][i] \in Box
      OBVIOUS
    <2> HIDE DEF n
    <2>2. t \in [1..n -> Entry] /\ DOMAIN t = 1..n
      BY <2>1
    <2>3. \A i \in 1..n : t[i].page = q /\ t[i].box = entries[q][i]
      OBVIOUS
    <2> HIDE DEF t, Entry
    <2>4. t \in Seq(Entry) /\ Len(t) = n
      BY <2>1, <2>2
    <2>5. t = Tagged(q)
      BY DEF t, n, Tagged
    <2> QED BY <2>1, <2>3, <2>4, <2>5 DEF n
  <1> DEFINE off == Len(f[p - 1])
             Good(q) == /\ f[q] \in Seq(Entry)
                        /\ \A k \in 1..Len(f[q]) : f[q][k].page <= q
                        /\ q >= p => Holds(f[q], p, off)
             B == {q \in 0..LastPage : Good(q)}
  <1>3. 0 \in B
    <2>1. f[0] \in Seq(Entry) /\ Len(f[0]) = 0
      BY <1>1
    <2>2. ~(0 >= p) /\ 0 \in 0..LastPage
      BY <1>0
    <2> HIDE DEF Entry
    <2> QED BY <2>1, <2>2
  <1>4. ASSUME NEW q \in SeederPages, q - 1 \in B PROVE q \in B
    <2>0. q \in 1..LastPage /\ q - 1 \in 0..LastPage /\ q \in 0..LastPage /\ q \in Nat
      BY <1>0 DEF SeederPages
    <2>1. Good(q - 1)
      BY <1>4
    <2> DEFINE l == f[q - 1]
               t == Tagged(q)
               m == f[q]
    <2>2. /\ l \in Seq(Entry) /\ \A k \in 1..Len(l) : l[k].page <= q - 1
          /\ q - 1 >= p => Holds(l, p, off)
      BY <2>1
    <2>3. /\ t \in Seq(Entry) /\ Len(t) = Len(entries[q])
          /\ \A i \in 1..Len(t) : t[i].page = q /\ t[i].box = entries[q][i]
      BY <1>2
    <2>4. m = l \o t
      BY <1>1
    <2>5. off = Len(l) \/ q # p
      OBVIOUS
    <2>6. l \in Seq([page: SeederPages, box: Box])
      BY <2>2
    <2> HIDE DEF l, t, m, Entry, off, Good
    <2>7. /\ m \in Seq(Entry) /\ Len(m) = Len(l) + Len(t)
          /\ Len(l) \in Nat /\ Len(t) \in Nat
          /\ \A k \in 1..Len(l) + Len(t) : m[k] = IF k <= Len(l) THEN l[k] ELSE t[k - Len(l)]
      <3>0. l \in Seq(Entry) /\ t \in Seq(Entry)
        BY <2>2, <2>3
      <3>1. /\ l \o t \in Seq(Entry) /\ Len(l \o t) = Len(l) + Len(t)
            /\ \A k \in 1..Len(l) + Len(t) :
                  (l \o t)[k] = IF k <= Len(l) THEN l[k] ELSE t[k - Len(l)]
        BY <3>0, ConcatProperties, Zenon
      <3>2. Len(l) \in Nat /\ Len(t) \in Nat
        BY <2>2, <2>3
      <3> QED BY <2>4, <3>1, <3>2
    <2>8. ASSUME NEW k \in 1..Len(m)
          PROVE  \/ k \in 1..Len(l) /\ m[k] = l[k]
                 \/ k - Len(l) \in 1..Len(t) /\ m[k] = t[k - Len(l)] /\ k > Len(l)
      BY <2>7
    <2>9. ASSUME NEW k \in 1..Len(l)
          PROVE  l[k].page \in Nat
      <3>1. l[k] \in [page: SeederPages, box: Box]
        <4> DEFINE E == [page: SeederPages, box: Box]
        <4>1. l \in Seq(E)
          BY <2>6
        <4> HIDE DEF E
        <4>2. l[k] \in E
          BY <4>1
        <4> QED BY <4>2 DEF E
      <3>2. l[k].page \in SeederPages
        BY <3>1
      <3> QED BY <1>0, <3>2 DEF SeederPages
    <2>10. \A k \in 1..Len(m) : m[k].page <= q
      <3> SUFFICES ASSUME NEW k \in 1..Len(m) PROVE m[k].page <= q
        OBVIOUS
      <3>1. CASE k \in 1..Len(l) /\ m[k] = l[k]
        <4>1. l[k].page <= q - 1 /\ l[k].page \in Nat
          BY <2>2, <2>9, <3>1
        <4> QED BY <2>0, <3>1, <4>1
      <3>2. CASE k - Len(l) \in 1..Len(t) /\ m[k] = t[k - Len(l)]
        BY <2>0, <2>3, <3>2
      <3> QED BY <2>8, <3>1, <3>2
    <2>11. CASE q < p
      <3>1. ~(q >= p)
        BY <1>0, <2>0, <2>11
      <3> QED BY <2>0, <2>7, <2>10, <3>1 DEF m, Good
    <2>12. CASE q = p
      <3>1. off = Len(l) /\ Len(t) = Len(entries[p])
        BY <2>3, <2>5, <2>12
      <3>2. off + Len(entries[p]) <= Len(m)
        BY <2>7, <3>1
      <3>0. off \in Nat
        BY <2>7, <3>1
      <3>3. ASSUME NEW i \in 1..Len(entries[p])
            PROVE  m[off + i].page = p /\ m[off + i].box = entries[p][i]
        <4> DEFINE x == off + i
        <4>1. x \in 1..Len(l) + Len(t) /\ ~(x <= Len(l)) /\ x - Len(l) = i
          BY <2>7, <3>1
        <4>2. ASSUME NEW k \in 1..Len(l) + Len(t), ~(k <= Len(l))
              PROVE  m[k] = t[k - Len(l)]
          BY <2>7, <4>2
        <4>3. m[x] = t[x - Len(l)]
          <5> HIDE DEF x
          <5> QED BY <4>1, <4>2
        <4> QED BY <2>3, <2>12, <3>1, <4>1, <4>3
      <3>4. ASSUME NEW k \in 1..Len(m), m[k].page = p
            PROVE  k - off \in 1..Len(entries[p])
        <4>1. CASE k \in 1..Len(l) /\ m[k] = l[k]
          <5>1. l[k].page <= q - 1 /\ l[k].page = q
            BY <2>2, <2>12, <3>4, <4>1
          <5> QED BY <2>0, <5>1
        <4>2. CASE k - Len(l) \in 1..Len(t)
          BY <3>1, <4>2
        <4> QED BY <2>8, <4>1, <4>2
      <3>5. Holds(m, p, off)
        BY <3>0, <3>2, <3>3, <3>4 DEF Holds
      <3> QED BY <2>0, <2>7, <2>10, <3>5 DEF m, Good
    <2>13. CASE q > p
      <3>1. q - 1 >= p
        BY <1>0, <2>0, <2>13
      <3>2. Holds(l, p, off)
        BY <2>2, <3>1
      <3>3. off \in Nat /\ Len(entries[p]) \in Nat
        BY <1>2, <3>2 DEF Holds
      <3>4. off + Len(entries[p]) <= Len(m)
        BY <2>7, <3>2, <3>3 DEF Holds
      <3>5. ASSUME NEW i \in 1..Len(entries[p])
            PROVE  m[off + i].page = p /\ m[off + i].box = entries[p][i]
        <4>1. off + i \in 1..Len(l)
          BY <2>7, <3>2, <3>3 DEF Holds
        <4>2. m[off + i] = l[off + i]
          BY <2>7, <4>1
        <4> QED BY <3>2, <4>2 DEF Holds
      <3>6. ASSUME NEW k \in 1..Len(m), m[k].page = p
            PROVE  k - off \in 1..Len(entries[p])
        <4>1. CASE k \in 1..Len(l) /\ m[k] = l[k]
          BY <3>2, <3>6, <4>1 DEF Holds
        <4>2. CASE k - Len(l) \in 1..Len(t) /\ m[k] = t[k - Len(l)]
          <5>1. p = q
            BY <2>3, <3>6, <4>2
          <5> QED BY <1>0, <2>13, <5>1
        <4> QED BY <2>8, <4>1, <4>2
      <3>7. Holds(m, p, off)
        BY <3>3, <3>4, <3>5, <3>6 DEF Holds
      <3> QED BY <2>0, <2>7, <2>10, <3>7 DEF m, Good
    <2> QED BY <1>0, <2>0, <2>11, <2>12, <2>13
  <1>5. LastPage \in B
    <2>1. LastPage \in 0..LastPage
      BY <1>0
    <2> HIDE DEF B
    <2> QED BY <1>3, <1>4, <2>1, PageInduction
  <1>6. Good(LastPage) /\ LastPage >= p
    BY <1>0, <1>5
  <1>7. Len(Flat) \in Nat
    BY <1>1, <1>6
  <1>8. Holds(Flat, p, off)
    BY <1>1, <1>6
  <1> QED BY <1>7, <1>8

\* Moving a set of numbers does not change how many there are.
LEMMA Shift ==
  ASSUME NEW off \in Nat, NEW n \in Nat, NEW S, S \subseteq 1..n
  PROVE  Cardinality({off + i : i \in S}) = Cardinality(S)
  <1> DEFINE T == {off + i : i \in S}
             g == [i \in S |-> off + i]
  <1>1. IsFiniteSet(S)
    <2>1. S \in SUBSET Nat /\ \A s \in S : s <= n
      OBVIOUS
    <2> QED BY <2>1, FS_BoundedSetOfNaturals
  <1>2. g \in [S -> T] /\ \A i \in S : g[i] = off + i
    OBVIOUS
  <1>3. \A i, j \in S : g[i] = g[j] => i = j
    BY <1>2
  <1>4. \A y \in T : \E i \in S : g[i] = y
    BY <1>2
  <1> HIDE DEF g, T
  <1>5. g \in Bijection(S, T)
    BY <1>2, <1>3, <1>4 DEF Bijection, Injection, Surjection, IsInjective
  <1>6. Cardinality(T) = Cardinality(S)
    BY <1>1, <1>5, FS_Bijection DEF ExistsBijection
  <1> QED BY <1>6 DEF T

LEMMA SlotsOfTyped ==
  ASSUME entries \in [SeederPages -> Seq(Box)] PROVE SlotsFollowThePage
  <1> SUFFICES ASSUME NEW p \in SeederPages
               PROVE  LET finished == {i \in 1..Len(entries[p]) : entries[p][i].ready}
                      IN  {r \in Rows : r.page = p} =
                             {[page |-> p, slot |-> Cardinality({j \in finished : j < i}),
                               id |-> entries[p][i].id] : i \in finished}
    BY DEF SlotsFollowThePage
  <1> DEFINE n == Len(entries[p])
             finished == {i \in 1..n : entries[p][i].ready}
             mine == {k \in Sent : Flat[k].page = p}
  <1>1. PICK off : Holds(Flat, p, off)
    BY FlatHolds
  <1>2. Len(Flat) \in Nat /\ n \in Nat /\ off \in Nat
    BY <1>1, FlatHolds DEF Holds
  <1>3. ASSUME NEW i \in finished
        PROVE  off + i \in mine /\ Flat[off + i].box = entries[p][i] /\ i \in 1..n
    <2>1. i \in 1..n /\ off + i \in 1..Len(Flat)
      BY <1>1, <1>2 DEF Holds
    <2>2. Flat[off + i].page = p /\ Flat[off + i].box = entries[p][i]
      BY <1>1, <2>1 DEF Holds
    <2> QED BY <2>1, <2>2 DEF Sent
  <1>4. ASSUME NEW k \in mine
        PROVE  k - off \in finished /\ k = off + (k - off) /\ k \in Nat
    <2>1. k \in 1..Len(Flat) /\ Flat[k].box.ready /\ Flat[k].page = p
      BY DEF Sent
    <2>2. k - off \in 1..n /\ k = off + (k - off) /\ k \in Nat
      BY <1>1, <1>2, <2>1 DEF Holds
    <2>3. Flat[off + (k - off)].box = entries[p][k - off]
      BY <1>1, <2>2 DEF Holds
    <2> QED BY <2>1, <2>2, <2>3
  <1> HIDE DEF n, finished, mine
  <1>5. finished \subseteq 1..n
    BY DEF finished
  <1>6. ASSUME NEW i \in finished
        PROVE  SlotIndex(off + i) = Cardinality({j \in finished : j < i})
    <2> DEFINE before == {j \in finished : j < i}
    <2>1. Flat[off + i].page = p
      BY <1>3 DEF mine
    <2>2. {j \in Sent : j < off + i /\ Flat[j].page = p} = {j \in mine : j < off + i}
      BY DEF mine
    <2>3. {j \in mine : j < off + i} = {off + j : j \in before}
      <3>1. ASSUME NEW k \in mine, k < off + i PROVE k \in {off + j : j \in before}
        <4>1. k - off \in before
          BY <1>2, <1>3, <1>4, <3>1
        <4> QED BY <1>4, <4>1
      <3>2. ASSUME NEW j \in before PROVE off + j \in mine /\ off + j < off + i
        BY <1>2, <1>3
      <3> QED BY <3>1, <3>2
    <2>4. Cardinality({off + j : j \in before}) = Cardinality(before)
      <3>1. before \subseteq 1..n
        BY <1>5
      <3> HIDE DEF before
      <3> QED BY <1>2, <3>1, Shift
    <2> QED BY <2>1, <2>2, <2>3, <2>4 DEF SlotIndex
  <1> DEFINE row(k) == [page |-> Flat[k].page, slot |-> SlotIndex(k), id |-> Flat[k].box.id]
             spot(i) == [page |-> p, slot |-> Cardinality({j \in finished : j < i}),
                          id |-> entries[p][i].id]
  <1>7. ASSUME NEW i \in finished PROVE row(off + i) = spot(i)
    <2>1. Flat[off + i].page = p
      BY <1>3 DEF mine
    <2> QED BY <1>3, <1>6, <2>1
  <1>8. Rows = {row(k) : k \in Sent} /\ \A k \in Sent : row(k).page = Flat[k].page
    BY DEF Rows
  <1> HIDE DEF row, spot
  <1>9. {r \in Rows : r.page = p} = {row(k) : k \in mine}
    BY <1>8 DEF mine
  <1>10. {row(k) : k \in mine} = {spot(i) : i \in finished}
    <2>1. ASSUME NEW k \in mine PROVE row(k) \in {spot(i) : i \in finished}
      <3>1. k - off \in finished /\ row(k) = spot(k - off)
        BY <1>4, <1>7
      <3> QED BY <3>1
    <2>2. ASSUME NEW i \in finished PROVE spot(i) \in {row(k) : k \in mine}
      BY <1>3, <1>7
    <2> QED BY <2>1, <2>2
  <1> QED BY <1>9, <1>10 DEF spot, finished, n

\* The slots of a newspaper's boxes count per page, as the comment at
\* dashboard/page.tsx:560 says: the finished boxes of each page have the slots
\* 0, 1, ... in the order of its sheet.
THEOREM SlotsHold == SeederSpec => []SlotsFollowThePage
  <1>1. SeederInv => SlotsFollowThePage
    BY SlotsOfTyped DEF SeederInv, SheetsOK
  <1> QED BY <1>1, SeederInvariance, PTL
=============================================================================
