----------------------------- MODULE PagePanels -----------------------------
(***************************************************************************)
(* The setup of a page of the Youth UPDATE publisher: a sheet of the       *)
(* dashboard with the masthead teasers for page 1, or the inside authors   *)
(* for another page (YouthUpdateMastheadTeasersPanel and                   *)
(* YouthUpdateInsideAuthorPanel), and the handlers that store them.        *)
(*                                                                         *)
(* A panel loads what is stored, is edited, and saves all its slots.       *)
(* Meanwhile files are read, and news articles are turned into teasers one *)
(* slot after the other.  A panel that is closed takes its state with it,  *)
(* but not the save it sent.  Both handlers delete the rows they see and   *)
(* insert their own; a key on the slot guards the authors only.            *)
(*                                                                         *)
(* A slot has a text and a picture, each a number that is new whenever     *)
(* something is typed, chosen or fetched.                                  *)
(***************************************************************************)
EXTENDS Integers, Sequences, FiniteSets

CONSTANTS
    Last,     \* the slots are 1..Last: 4 of teasers, 3 of authors
    MayFail,  \* whether requests may fail or answers be lost
    MaxEdits, \* bound: texts and pictures in a behaviour
    MaxSaves  \* bound: saves in a behaviour

ASSUME BoundsAssumption ==
    /\ Last \in Nat \ {0}
    /\ MayFail \in BOOLEAN
    /\ MaxEdits \in Nat
    /\ MaxSaves \in Nat

VARIABLES
    stored,   \* the rows of either table
    saves,    \* the saves sent, in order
    overlaps, \* history: pairs of saves that ran at once
    setup,    \* the panel that is open
    slots,    \* its slots
    load,     \* its load
    news,     \* its articles, loaded or being fetched
    filling,  \* the slots that wait for an article, the first in work
    reading,  \* the files being read
    typed,    \* history: the texts typed since something else set them
    edits     \* the texts and pictures so far

server == <<stored, saves, overlaps>>
local == <<slots, load, news, filling, reading, typed>>
vars == <<server, setup, local, edits>>

Kinds == {"teasers", "authors"}
Slots == 1..Last
Content == [text: 0..MaxEdits, image: 0..MaxEdits]
Blank == [s \in Slots |-> [text |-> 0, image |-> 0]]
Row == [slot: Slots, content: Content, by: 1..MaxSaves]
Save == [kind: Kinds, rows: SUBSET Row, old: SUBSET Row,
         stage: {"sent", "deleted", "stored", "failed", "over"}]
NoLoad == [stage |-> "none", got |-> {}]

TypeOK ==
    /\ stored \in [Kinds -> SUBSET Row]
    /\ saves \in Seq(Save)
    /\ overlaps \subseteq SUBSET (1..Len(saves))
    /\ setup \in [kind: Kinds \union {"none"}, saving: 0..Len(saves)]
    /\ setup.saving # 0 => saves[setup.saving].stage # "over"
    /\ slots \in [Slots -> Content]
    /\ load \in [stage: {"none", "asked", "read"}, got: SUBSET Row]
    /\ news \in [fetching: BOOLEAN, here: BOOLEAN]
    /\ filling \in Seq(Slots)
    /\ reading \subseteq [slot: Slots, image: 1..edits]
    /\ typed \in [Slots -> 0..edits]
    /\ edits \in 0..MaxEdits
-----------------------------------------------------------------------------
Fresh ==
    /\ slots' = Blank
    /\ news' = [fetching |-> FALSE, here |-> FALSE]
    /\ filling' = <<>>
    /\ reading' = {}
    /\ typed' = [s \in Slots |-> 0]

Init ==
    /\ stored = [k \in Kinds |-> {}]
    /\ saves = <<>>
    /\ overlaps = {}
    /\ setup = [kind |-> "none", saving |-> 0]
    /\ slots = Blank
    /\ load = NoLoad
    /\ news = [fetching |-> FALSE, here |-> FALSE]
    /\ filling = <<>>
    /\ reading = {}
    /\ typed = [s \in Slots |-> 0]
    /\ edits = 0

\* choosePageNumber: page 1 has the teasers, another page the authors.
OpenSetup(k) ==
    /\ setup.kind = "none"
    /\ setup' = [kind |-> k, saving |-> 0]
    /\ load' = [NoLoad EXCEPT !.stage = "asked"]
    /\ Fresh
    /\ UNCHANGED <<server, edits>>

\* closePageSetup: nothing of the panel is left.
Close ==
    /\ setup' = [kind |-> "none", saving |-> 0]
    /\ load' = NoLoad
    /\ Fresh

CloseSetup == setup.kind # "none" /\ Close /\ UNCHANGED <<server, edits>>

ReadStored ==
    /\ load.stage = "asked"
    /\ load' = [stage |-> "read", got |-> stored[setup.kind]]
    /\ UNCHANGED <<server, setup, slots, news, filling, reading, typed, edits>>

\* Of two rows of a slot the last counts, and the order of equals is open.
Loaded(rows, new) ==
    \A s \in Slots :
        IF \E r \in rows : r.slot = s
        THEN \E r \in rows : r.slot = s /\ new[s] = r.content
        ELSE new[s] = Blank[s]

ShowLoaded ==
    /\ load.stage = "read"
    /\ \E new \in [Slots -> {r.content : r \in load.got} \union {Blank[s] : s \in Slots}] :
          Loaded(load.got, new) /\ slots' = new
    /\ load' = NoLoad
    /\ UNCHANGED <<server, setup, news, filling, reading, typed, edits>>

\* A load that fails, or is answered with an error, leaves empty slots that
\* can be edited and saved.
LoadFails ==
    /\ MayFail
    /\ load.stage = "asked"
    /\ load' = NoLoad
    /\ slots' \in {slots, Blank}
    /\ UNCHANGED <<server, setup, news, filling, reading, typed, edits>>

-----------------------------------------------------------------------------
\* While it loads a panel shows no slots.
Editable == setup.kind # "none" /\ load = NoLoad

\* updateSlot, updateAuthor: a patch on what the slot holds by then.
Put(s, content) == slots' = [slots EXCEPT ![s] = content]

New == edits < MaxEdits /\ edits' = edits + 1

TypeText(s) ==
    /\ Editable
    /\ New
    /\ Put(s, [slots[s] EXCEPT !.text = edits'])
    /\ typed' = [typed EXCEPT ![s] = edits']
    /\ UNCHANGED <<server, setup, load, news, filling, reading>>

\* handleImageChange up to its await, and after it
ChooseImage(s) ==
    /\ Editable
    /\ New
    /\ reading' = reading \union {[slot |-> s, image |-> edits']}
    /\ UNCHANGED <<server, setup, slots, load, news, filling, typed>>

ImageRead(file) ==
    /\ reading' = reading \ {file}
    /\ Put(file.slot, [slots[file.slot] EXCEPT !.image = file.image])
    /\ UNCHANGED <<server, setup, load, news, filling, typed, edits>>

FetchArticles ==
    /\ setup.kind = "teasers"
    /\ ~news.fetching
    /\ filling = <<>>
    /\ news' = [news EXCEPT !.fetching = TRUE]
    /\ UNCHANGED <<server, setup, slots, load, filling, reading, typed, edits>>

\* Both categories are there, or one failed.
ArticlesAnswered ==
    /\ news.fetching
    /\ \E here \in {TRUE, news.here} : news' = [fetching |-> FALSE, here |-> here]
    /\ UNCHANGED <<server, setup, slots, load, filling, reading, typed, edits>>

\* The buttons of an article, and the one that fills all slots; both are
\* there while the panel still loads.
StartFilling(which) ==
    /\ news.here
    /\ filling = <<>>
    /\ edits < MaxEdits
    /\ filling' = which
    /\ UNCHANGED <<server, setup, slots, load, news, reading, typed, edits>>

Apply(s) == StartFilling(<<s>>)
AutoFill == StartFilling([s \in Slots |-> s])

\* Mutant of Applied: the slots the panel had when it opened, and not those
\* of now.
AppliedToOldSlots ==
    /\ filling # <<>>
    /\ New
    /\ slots' = [Blank EXCEPT ![Head(filling)] = [text |-> edits', image |-> edits']]
    /\ typed' = [typed EXCEPT ![Head(filling)] = 0]
    /\ filling' = Tail(filling)
    /\ UNCHANGED <<server, setup, load, news, reading>>

\* The picture of an article is there, or is not to be had and its address
\* is taken: applyArticleToSlot ends, and handleAutoFill goes to the next.
Applied ==
    /\ filling # <<>>
    /\ New
    /\ Put(Head(filling), [text |-> edits', image |-> edits'])
    /\ typed' = [typed EXCEPT ![Head(filling)] = 0]
    /\ filling' = Tail(filling)
    /\ UNCHANGED <<server, setup, load, news, reading>>
-----------------------------------------------------------------------------
SaveSlots ==
    /\ Editable
    /\ setup.saving = 0
    /\ filling = <<>>
    /\ Len(saves) < MaxSaves
    /\ LET n == Len(saves) + 1
           rows == {[slot |-> s, content |-> slots[s], by |-> n] : s \in Slots}
       IN  /\ saves' = Append(saves, [kind |-> setup.kind, rows |-> rows, old |-> {},
                                      stage |-> "sent"])
           /\ setup' = [setup EXCEPT !.saving = n]
    /\ UNCHANGED <<stored, overlaps, local, edits>>

Elsewhere == UNCHANGED <<setup, local, edits>>

\* The DELETE sees what is committed.
DeleteRows(n) ==
    /\ saves[n].stage = "sent"
    /\ saves' = [saves EXCEPT ![n].stage = "deleted", ![n].old = stored[saves[n].kind]]
    /\ UNCHANGED <<stored, overlaps>>
    /\ Elsewhere

\* Rows another transaction committed since.
Others(n) == stored[saves[n].kind] \ saves[n].old

\* Mutant of InsertRows: the rows of before are not deleted.
InsertRowsOnly(n) ==
    /\ saves[n].stage = "deleted"
    /\ saves[n].kind = "authors" => Others(n) = {}
    /\ stored' = [stored EXCEPT ![saves[n].kind] = @ \union saves[n].rows]
    /\ overlaps' = overlaps \union {{n, r.by} : r \in Others(n)}
    /\ saves' = [saves EXCEPT ![n].stage = "stored", ![n].old = {}]
    /\ Elsewhere

\* The INSERTs and the COMMIT; the key of the authors refuses a second row.
InsertRows(n) ==
    /\ saves[n].stage = "deleted"
    /\ saves[n].kind = "authors" => Others(n) = {}
    /\ stored' = [stored EXCEPT ![saves[n].kind] = Others(n) \union saves[n].rows]
    /\ overlaps' = overlaps \union {{n, r.by} : r \in Others(n)}
    /\ saves' = [saves EXCEPT ![n].stage = "stored", ![n].old = {}]
    /\ Elsewhere

FailToStore(n) ==
    /\ \/ MayFail /\ saves[n].stage \in {"sent", "deleted"}
       \/ saves[n].stage = "deleted" /\ saves[n].kind = "authors" /\ Others(n) # {}
    /\ saves' = [saves EXCEPT ![n].stage = "failed", ![n].old = {}]
    /\ UNCHANGED <<stored, overlaps>>
    /\ Elsewhere

Over(n) == saves' = [saves EXCEPT ![n].stage = "over", ![n].rows = {}]

StopSaving(n) ==
    setup' = IF setup.saving = n THEN [setup EXCEPT !.saving = 0] ELSE setup

\* Mutant of SaveAnswered: without the finally.
SaveStaysOn(n) ==
    /\ \/ saves[n].stage = "failed"
       \/ saves[n].stage = "stored" /\ (saves[n].kind = "teasers" \/ MayFail)
    /\ Over(n)
    /\ UNCHANGED <<setup, stored, overlaps, local, edits>>

\* An answer, or its loss, shows a message on the panel that waits for it.
SaveAnswered(n) ==
    /\ \/ saves[n].stage = "failed"
       \/ saves[n].stage = "stored" /\ (saves[n].kind = "teasers" \/ MayFail)
    /\ Over(n)
    /\ StopSaving(n)
    /\ UNCHANGED <<stored, overlaps, local, edits>>

\* The authors are saved: onSaved closes the setup that is open by now.  The
\* page picker it opens, maybe over another sheet, is in Overlays.
AuthorsSaved(n) ==
    /\ saves[n].stage = "stored"
    /\ saves[n].kind = "authors"
    /\ Over(n)
    /\ Close
    /\ UNCHANGED <<stored, overlaps, edits>>

Edit ==
    \/ \E s \in Slots : TypeText(s) \/ ChooseImage(s) \/ Apply(s)
    \/ \E file \in reading : ImageRead(file)
    \/ FetchArticles
    \/ ArticlesAnswered
    \/ AutoFill
    \/ Applied

Next ==
    \/ \E k \in Kinds : OpenSetup(k)
    \/ CloseSetup
    \/ ReadStored
    \/ ShowLoaded
    \/ LoadFails
    \/ Edit
    \/ SaveSlots
    \/ \E n \in 1..Len(saves) :
          DeleteRows(n) \/ InsertRows(n) \/ FailToStore(n) \/ SaveAnswered(n) \/ AuthorsSaved(n)

Spec == Init /\ [][Next]_vars
-----------------------------------------------------------------------------
\* What is typed into a slot stays there until an article is put into that
\* very slot: not the load, not a file, not an article on its way to another
\* slot when it was typed takes it away.
TypedTextStays == \A s \in Slots : typed[s] # 0 => slots[s].text = typed[s]

\* "Replaces the publisher's full set of masthead teaser slots on every call"
\* (saas_handlers.go:1018): the rows of a table are those of one save, whole;
\* teasers of two saves stand side by side only when the saves ran at once.
StoredRowsAreOneSave ==
    \A k \in Kinds :
        /\ \A r, q \in stored[k] :
              r.by = q.by \/ (k = "teasers" /\ {r.by, q.by} \in overlaps)
        /\ \A r \in stored[k], s \in Slots :
              Cardinality({q \in stored[k] : q.slot = s /\ q.by = r.by}) = 1
=============================================================================
