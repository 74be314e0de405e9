---------------------------- MODULE VolumeNumber ----------------------------
(***************************************************************************)
(* The volume number printed on an edition: nextVolumeNumber of            *)
(* saas_handlers.go, a pure function of the publication type, the          *)
(* publisher's baseline (the number and date of the last edition that      *)
(* moved it) and the date of the new edition.  A date is its day number.   *)
(***************************************************************************)
EXTENDS Integers

\* last_volume_number and last_published_date of publisher_profiles.  Both
\* are NULL until the publisher sets a starting volume: then valid is FALSE
\* and the other two fields mean nothing.
Baseline == [valid: BOOLEAN, number: Int, date: Int]

\* math.Round(days / 7): no integer is half-way between two multiples of
\* seven, so rounding half away from zero and rounding half up agree.
RoundWeeks(days) == (2 * days + 7) \div 14

\* The number of editions that fit in the days since the baseline.
Increment(type, days) ==
    IF type = "Weekly" THEN RoundWeeks(days) ELSE days

\* Mutant of NextVolume: an earlier date counts backwards.
NextVolumeWithoutFloor(type, base, date) ==
    base.number + Increment(type, date - base.date)

\* The number returned for an edition dated date, when ok is TRUE.
NextVolume(type, base, date) ==
    LET increment == Increment(type, date - base.date)
    IN  IF increment < 1 THEN base.number ELSE base.number + increment

\* The second result of nextVolumeNumber.
HasVolume(base) == base.valid

\* The columns SaaSExecuteGeneration writes back: the new number and date
\* when the number moved, what it read (here: nothing to write) otherwise.
MovesBaseline(type, base, date) ==
    /\ HasVolume(base)
    /\ NextVolume(type, base, date) # base.number

AdvancedBaseline(type, base, date) ==
    [valid |-> TRUE, number |-> NextVolume(type, base, date), date |-> date]
=============================================================================
